------------------------------- MODULE SymSim -------------------------------
(***************************************************************************)
(* The symbolic simulator of framework/symsim.{h,cpp}.                     *)
(*                                                                         *)
(* The simulator keeps four parallel stacks: the frames (trace), the       *)
(* choices that lead from one frame to the next (history_choice), and the  *)
(* path constraints collected on each frame with their readable names      *)
(* (history_assumptions and history_assumptions_interp).  Going forward    *)
(* pushes on them, going back pops; what was on top before a set_input is  *)
(* not saved, only the LENGTH of the top assumption list is.               *)
(*                                                                         *)
(* Terms.  Simulation is substitution, so the terms of a frame are         *)
(* determined by the assignments substituted so far.  A frame is the       *)
(* sequence of these assignments: the first gives the state variables in   *)
(* the initial frame, each later one gives the input variables of a step.  *)
(* A path constraint is the formula it comes from, together with the       *)
(* sequence of assignments it was substituted with.                        *)
(*                                                                         *)
(* The operators whose comment starts with "Slip" are no part of the model:*)
(* each is a definition as it would be with a plausible mistake in the     *)
(* code, which a property must notice.                                     *)
(***************************************************************************)
EXTENDS SequencesExt, Integers

CONSTANTS
  StateVars,       \* ts_.statevars()
  InVars,          \* ts_.inputvars()
  Val,             \* terms a caller assigns to variables
  Pre,             \* formulas a caller passes as pre_assumptions
  HasConstraints,  \* whether ts_.constraints() is non-empty
  Foreign,         \* symbols that others who share the solver may make
  NoState,         \* "get_curr_state has not been called yet"
  MaxPre,          \* bound: formulas in one pre_assumptions
  MaxPath,         \* bound: assignments in one frame
  MaxBase,         \* bound: path constraints in a state given to set_current_state
  MaxCnt           \* bound: number of the last symbol minted for a variable

Vars == StateVars \cup InVars

\* The symbols free_make_symbol names <variable><count> (a state variable) or
\* <variable>X<count> (an input).
Sym == [var : Vars, cnt : 1 .. MaxCnt]

\* A caller's terms are not the symbols that are made up here.
ASSUME SymSimAssumption ==
  /\ HasConstraints \in BOOLEAN
  /\ MaxPre \in Nat /\ MaxPath \in Nat /\ MaxBase \in Nat /\ MaxCnt \in Nat
  /\ StateVars \cap InVars = {}
  /\ {"init", "ts"} \cap Pre = {}
  /\ Foreign \subseteq Sym
  /\ Val \cap Sym = {}

Assignment == [StateVars -> Val \cup Sym] \cup [InVars -> Val \cup Sym]
Path == Seq(Assignment)

\* A path constraint: the init formula, the conjunction of the constraints of
\* the transition system, or a formula of a caller; "over" is the substitution.
Assumption == [what : {"init", "ts"} \cup Pre, over : Path]

\* The readable name of a path constraint: its origin and the frame's index.
Label == [what : {"init", "ts"} \cup Pre, at : Int]

\* class ChoiceItem
ChoiceItem == [assumptions : Seq(Pre), var_assign : [InVars -> Val \cup Sym],
               UsedInSim : BOOLEAN, assmpt_len : Nat]

\* class StateAsmpt: a frame, its path constraints and their names.
StateAsmpt == [sv : Path, asmpt : Seq(Assumption), interp : Seq(Label)]

VARIABLES
  trace,                       \* frames, the last one is the current one
  history_choice,              \* one ChoiceItem for each set_input in force
  history_assumptions,         \* for each frame, its path constraints
  history_assumptions_interp,  \* for each frame, the names of these
  name_cnt,                    \* for each variable, the last number tried
  Xvar,                        \* the symbols minted for unassigned inputs
  syms,                        \* the symbols the (shared) solver has
  ret                          \* what get_curr_state returned last

stacks == <<trace, history_choice, history_assumptions,
            history_assumptions_interp>>
names == <<name_cnt, Xvar, syms>>
vars == <<trace, history_choice, history_assumptions,
          history_assumptions_interp, name_cnt, Xvar, syms, ret>>

-----------------------------------------------------------------------------
(***************************************************************************)
(* Fresh symbols.  free_make_symbol counts up from the last number it used *)
(* for a name until the solver accepts the symbol: the solver refuses a    *)
(* name it already has.                                                    *)
(***************************************************************************)
\* Slip: the count starts again for each symbol, existing ones are reused.
CountsAgain(v) == 1 .. MaxCnt

FreeCnts(v) ==
  {c \in (name_cnt[v] + 1) .. MaxCnt : [var |-> v, cnt |-> c] \notin syms}

free_make_symbol(v) == [var |-> v, cnt |-> Min(FreeCnts(v))]

\* A caller assigns some of the variables vs; new_var gives each of the others
\* a fresh symbol.
Given(vs) == UNION {[dom -> Val] : dom \in SUBSET vs}

Unassigned(vs, given) == vs \ DOMAIN given

CanMint(vs) == \A v \in vs : FreeCnts(v) # {}

\* Slip: the variables that are not assigned are left out.
LeavesGaps(vs, given) == given

Complete(vs, given) ==
  [v \in vs |-> IF v \in DOMAIN given THEN given[v] ELSE free_make_symbol(v)]

\* The effect of minting a symbol for each variable of vs on the counters and
\* on the solver.
new_var(vs) ==
  /\ name_cnt' = [v \in Vars |-> IF v \in vs THEN free_make_symbol(v).cnt
                                             ELSE name_cnt[v]]
  /\ syms' = syms \cup {free_make_symbol(v) : v \in vs}

-----------------------------------------------------------------------------
(***************************************************************************)
(* Path constraints added by set_input, all of them substituted with the   *)
(* current frame and the new input assignment.                             *)
(***************************************************************************)
AddedAssumptions(pre, over) ==
  (IF HasConstraints THEN <<[what |-> "ts", over |-> over]>> ELSE <<>>)
    \o [i \in 1 .. Len(pre) |-> [what |-> pre[i], over |-> over]]

AddedLabels(pre, frame) ==
  (IF HasConstraints THEN <<[what |-> "ts", at |-> frame]>> ELSE <<>>)
    \o [i \in 1 .. Len(pre) |-> [what |-> pre[i], at |-> frame]]

\* push_back on the list on top of a stack of lists; resize of that list.
PushTop(lists, items) == [lists EXCEPT ![Len(lists)] = @ \o items]
ResizeTop(lists, len) == [lists EXCEPT ![Len(lists)] = SubSeq(@, 1, len)]

\* Slip: only the path constraints of the current frame.
TopOnly(lists) == Last(lists)

all_assumptions(lists) == FlattenSeq(lists)

\* The last set_input has not been simulated yet.
Pending == history_choice # <<>> /\ ~ Last(history_choice).UsedInSim

-----------------------------------------------------------------------------
Init ==
  /\ trace = <<>>
  /\ history_choice = <<>>
  /\ history_assumptions = <<>>
  /\ history_assumptions_interp = <<>>
  /\ name_cnt = [v \in Vars |-> 0]
  /\ Xvar = {}
  /\ syms = {}
  /\ ret = NoState

\* SymbolicSimulator::init: a first frame, with a symbol for every state
\* variable the caller did not assign, and the init constraint over it.
init(given) ==
  LET missing == Unassigned(StateVars, given)
      root == Complete(StateVars, given)
  IN /\ CanMint(missing)
     /\ trace' = Append(trace, <<root>>)
     /\ history_assumptions' =
          Append(history_assumptions, <<[what |-> "init", over |-> <<root>>]>>)
     /\ history_assumptions_interp' =
          Append(history_assumptions_interp, <<[what |-> "init", at |-> 0]>>)
     /\ new_var(missing)
     /\ UNCHANGED <<history_choice, Xvar, ret>>

\* Slip: the length is recorded after the path constraints were pushed.
RecordsLengthLate(given, pre) ==
  LET missing == Unassigned(InVars, given)
      inputs == Complete(InVars, given)
      added == AddedAssumptions(pre, Append(Last(trace), inputs))
  IN /\ trace # <<>>
     /\ ~ Pending
     /\ CanMint(missing)
     /\ history_choice' =
          Append(history_choice,
                 [assumptions |-> pre, var_assign |-> inputs, UsedInSim |-> FALSE,
                  assmpt_len |-> Len(Last(history_assumptions)) + Len(added)])
     /\ history_assumptions' = PushTop(history_assumptions, added)
     /\ history_assumptions_interp' =
          PushTop(history_assumptions_interp, AddedLabels(pre, Len(trace) - 1))
     /\ new_var(missing)
     /\ Xvar' = Xvar \cup {free_make_symbol(v) : v \in missing}
     /\ UNCHANGED <<trace, ret>>

set_input(given, pre) ==
  LET missing == Unassigned(InVars, given)
      inputs == Complete(InVars, given)
      over == Append(Last(trace), inputs)
  IN /\ trace # <<>>
     /\ ~ Pending
     /\ CanMint(missing)
     /\ history_choice' =
          Append(history_choice,
                 [assumptions |-> pre, var_assign |-> inputs,
                  UsedInSim |-> FALSE,
                  assmpt_len |-> Len(Last(history_assumptions))])
     /\ history_assumptions' =
          PushTop(history_assumptions, AddedAssumptions(pre, over))
     /\ history_assumptions_interp' =
          PushTop(history_assumptions_interp, AddedLabels(pre, Len(trace) - 1))
     /\ new_var(missing)
     /\ Xvar' = Xvar \cup {free_make_symbol(v) : v \in missing}
     /\ UNCHANGED <<trace, ret>>

\* Slip: the names stay.
UndoesFormulasOnly ==
  /\ Pending
  /\ history_assumptions' =
       ResizeTop(history_assumptions, Last(history_choice).assmpt_len)
  /\ history_choice' = Front(history_choice)
  /\ UNCHANGED <<trace, history_assumptions_interp, names, ret>>

undo_set_input ==
  LET len == Last(history_choice).assmpt_len
  IN /\ Pending
     /\ history_assumptions' = ResizeTop(history_assumptions, len)
     /\ history_assumptions_interp' = ResizeTop(history_assumptions_interp, len)
     /\ history_choice' = Front(history_choice)
     /\ UNCHANGED <<trace, names, ret>>

sim_one_step ==
  /\ Pending
  /\ Len(Last(trace)) < MaxPath
  /\ history_choice' =
       [history_choice EXCEPT ![Len(history_choice)].UsedInSim = TRUE]
  /\ trace' =
       Append(trace, Append(Last(trace), Last(history_choice).var_assign))
  /\ history_assumptions' = Append(history_assumptions, <<>>)
  /\ history_assumptions_interp' = Append(history_assumptions_interp, <<>>)
  /\ UNCHANGED <<names, ret>>

\* Slip: the choice still counts as simulated.
LeavesChoiceUsed ==
  /\ history_choice # <<>>
  /\ trace' = Front(trace)
  /\ history_assumptions' = Front(history_assumptions)
  /\ history_assumptions_interp' = Front(history_assumptions_interp)
  /\ UNCHANGED <<history_choice, names, ret>>

\* The only check of the code is that there is a choice.
backtrack ==
  /\ history_choice # <<>>
  /\ trace' = Front(trace)
  /\ history_assumptions' = Front(history_assumptions)
  /\ history_assumptions_interp' = Front(history_assumptions_interp)
  /\ history_choice' =
       [history_choice EXCEPT ![Len(history_choice)].UsedInSim = FALSE]
  /\ UNCHANGED <<names, ret>>

set_current_state(s) ==
  /\ trace' = <<s.sv>>
  /\ history_assumptions' = <<s.asmpt>>
  /\ history_assumptions_interp' = <<s.interp>>
  /\ history_choice' = <<>>
  /\ UNCHANGED <<names, ret>>

\* get_curr_state while an input is pending: a copy, assumptions are ignored.
get_curr_state_pending ==
  /\ Pending
  /\ ret' = [sv |-> Last(trace),
             asmpt |-> all_assumptions(history_assumptions),
             interp |-> all_assumptions(history_assumptions_interp)]
  /\ UNCHANGED <<stacks, names>>

\* get_curr_state otherwise: set_input with no input assigned, the copy, then
\* undo_set_input, which resizes both lists to the length recorded.
get_curr_state_pushed(pre) ==
  LET inputs == Complete(InVars, <<>>)
      over == Append(Last(trace), inputs)
      len == Len(Last(history_assumptions))
      asmpt == PushTop(history_assumptions, AddedAssumptions(pre, over))
      interp == PushTop(history_assumptions_interp,
                        AddedLabels(pre, Len(trace) - 1))
  IN /\ trace # <<>>
     /\ ~ Pending
     /\ CanMint(InVars)
     /\ ret' = [sv |-> Last(trace),
                asmpt |-> all_assumptions(asmpt),
                interp |-> all_assumptions(interp)]
     /\ history_assumptions' = ResizeTop(asmpt, len)
     /\ history_assumptions_interp' = ResizeTop(interp, len)
     /\ new_var(InVars)
     /\ Xvar' = Xvar \cup {free_make_symbol(v) : v \in InVars}
     /\ UNCHANGED <<trace, history_choice>>

get_curr_state(pre) == get_curr_state_pending \/ get_curr_state_pushed(pre)

\* Whoever else shares the solver (set_var, convert, a second simulator) makes
\* a symbol whose name the simulator may want later.
MakeSymbol(s) ==
  /\ s \notin syms
  /\ syms' = syms \cup {s}
  /\ UNCHANGED <<stacks, name_cnt, Xvar, ret>>

-----------------------------------------------------------------------------
(***************************************************************************)
(* A client that follows the documented use (symsim.h:128): init first,    *)
(* and backtrack only from a frame that a simulation step made.            *)
(***************************************************************************)
PreLists == UNION {[1 .. n -> Pre] : n \in 0 .. MaxPre}

Start == \E given \in Given(StateVars) : trace = <<>> /\ init(given)
Choose == \E given \in Given(InVars), pre \in PreLists : set_input(given, pre)
Withdraw == undo_set_input
Advance == sim_one_step
Retreat == ~ Pending /\ backtrack
Copy == \E pre \in PreLists : get_curr_state(pre)
Rebase == /\ ret # NoState
          /\ Len(ret.asmpt) <= MaxBase
          /\ set_current_state(ret)
Share == \E s \in Foreign : MakeSymbol(s)

Next == \/ Start \/ Choose \/ Withdraw \/ Advance
        \/ Retreat \/ Copy \/ Rebase \/ Share

Spec == Init /\ [][Next]_vars

-----------------------------------------------------------------------------
(***************************************************************************)
(* Properties                                                              *)
(***************************************************************************)

\* Every variable holds a value of its type.
TypeOK ==
  /\ trace \in Seq(Path)
  /\ history_choice \in Seq(ChoiceItem)
  /\ history_assumptions \in Seq(Seq(Assumption))
  /\ history_assumptions_interp \in Seq(Seq(Label))
  /\ name_cnt \in [Vars -> 0 .. MaxCnt]
  /\ Xvar \subseteq Sym
  /\ syms \subseteq Sym
  /\ ret \in StateAsmpt \cup {NoState}

\* The stacks move together: there is a list of path constraints and a list of
\* their names for each frame, only the last choice can be one that has not
\* been simulated, and each choice but a pending one made exactly one frame.
\* (backtrack and undo_set_input pop different stacks: symsim.cpp:111,251.)
StacksAligned ==
  /\ Len(history_assumptions) = Len(trace)
  /\ Len(history_assumptions_interp) = Len(trace)
  /\ \A k \in 1 .. Len(history_choice) - 1 : history_choice[k].UsedInSim
  /\ trace = <<>> => history_choice = <<>>
  /\ trace # <<>> =>
       Len(trace) = Len(history_choice) + (IF Pending THEN 0 ELSE 1)

\* Each frame after the first is the frame below it with the inputs of the
\* choice between the two substituted: no sequence of steps forward and back
\* leaves a frame that belongs to a choice which is no longer there.
FramesReplayChoices ==
  \A k \in 1 .. Len(trace) - 1 :
    trace[k + 1] = Append(trace[k], history_choice[k].var_assign)

\* On each frame, what lies above the length a choice recorded is what the
\* set_input of that choice pushed, and only the first frame has anything
\* below it.  So resizing to that length in undo_set_input drops the path
\* constraints of that choice, all of them and nothing else.
AssumptionsReplayChoices ==
  /\ \A k \in 1 .. Len(history_choice) :
       LET c == history_choice[k]
       IN /\ c.assmpt_len <= Len(history_assumptions[k])
          /\ k > 1 => c.assmpt_len = 0
          /\ history_assumptions[k] =
               SubSeq(history_assumptions[k], 1, c.assmpt_len) \o
                 AddedAssumptions(c.assumptions, Append(trace[k], c.var_assign))
  /\ \A k \in 2 .. Len(trace) :
       k > Len(history_choice) => history_assumptions[k] = <<>>

\* The name of a path constraint, found at the same place of the parallel
\* vector, tells the formula the constraint comes from.
LabelsNameAssumptions ==
  \A k \in 1 .. Len(trace) :
    /\ Len(history_assumptions_interp[k]) = Len(history_assumptions[k])
    /\ \A j \in 1 .. Len(history_assumptions[k]) :
         history_assumptions_interp[k][j].what = history_assumptions[k][j].what

\* A state is only meaningful under the path constraints it was reached with:
\* the init constraint over the root and the constraints of the transition
\* system over every input substituted since are among all_assumptions(),
\* also after the state was copied and installed again.
PathIsConstrained ==
  trace # <<>> =>
    LET path == Last(trace)
        asmpt == ToSet(all_assumptions(history_assumptions))
    IN /\ [what |-> "init", over |-> SubSeq(path, 1, 1)] \in asmpt
       /\ HasConstraints =>
            \A j \in 2 .. Len(path) :
              [what |-> "ts", over |-> SubSeq(path, 1, j)] \in asmpt

\* What the simulator holds is what its choices account for, frame by frame.
ChoicesReplay ==
  /\ FramesReplayChoices
  /\ AssumptionsReplayChoices
  /\ LabelsNameAssumptions

\* The assignments in force: those of the current frame and the pending one.
LivePath ==
  IF trace = <<>> THEN <<>>
  ELSE IF Pending THEN Append(Last(trace), Last(history_choice).var_assign)
  ELSE Last(trace)

SymsOf(assignment) == Range(assignment) \cap Sym

\* Two unassigned inputs of different steps never share a symbol, whatever was
\* undone, copied or installed between them, and the X set that
\* check_concrete_enough looks symbols up in knows all of them.
XSymbolsDistinct ==
  /\ \A i, j \in 1 .. Len(LivePath) :
       i # j => SymsOf(LivePath[i]) \cap SymsOf(LivePath[j]) = {}
  /\ \A i \in 2 .. Len(LivePath) : SymsOf(LivePath[i]) \subseteq Xvar

=============================================================================

---------------------------- MODULE FrameQueries ----------------------------
(***************************************************************************)
(* What the symbolic simulator answers about its current frame: var, cur   *)
(* and interpret_state_expr_on_curr_frame of framework/symsim.cpp, with    *)
(* the calls that make and drop frames.                                    *)
(*                                                                         *)
(* A term is the set of the symbols in it, those of the design or symbols  *)
(* that stand for values; a substitution replaces them one by one.  The    *)
(* path constraints and the minting of symbols are those of SymSim: here a *)
(* variable without an assignment is given some value.                     *)
(***************************************************************************)
EXTENDS Naturals, SequencesExt

CONSTANTS
  StateVars, InVars,  \* the variables of the transition system
  Update,             \* ts_.state_updates(): for some state variables, a term
  Values,             \* symbols that are values
  Named,              \* ts_.named_terms(): the terms that have a name
  MaxFrames           \* bound: frames in trace_

Vars == StateVars \cup InVars
Updated == DOMAIN Update

ASSUME QueriesAssumption ==
  /\ StateVars \cap InVars = {} /\ Vars \cap Values = {}
  /\ Updated \subseteq StateVars
  /\ \A v \in Updated : Update[v] \subseteq Vars
  /\ Named \subseteq SUBSET Vars
  /\ MaxFrames \in Nat

VARIABLES
  trace_,           \* frames: state variables to terms
  history_choice_,  \* for each set_input in force its assignment, and if it is used
  answer            \* the last query, its term and what it returned

fvars == <<trace_, history_choice_, answer>>

NoAnswer == [query |-> "none", expr |-> {}, outcome |-> "none", result |-> {}]
Answered(query, expr, outcome, result) ==
  answer' = [query |-> query, expr |-> expr, outcome |-> outcome, result |-> result]

Apply(m, x) == IF x \in DOMAIN m THEN m[x] ELSE {x}
Substitute(t, m) == UNION {Apply(m, x) : x \in t}

\* insert keeps what the map has: the frame goes before the inputs.
Insert(m, more) ==
  [x \in DOMAIN m \cup DOMAIN more |-> IF x \in DOMAIN m THEN m[x] ELSE more[x]]

\* A failed assertion ends the program.
Alive == answer.outcome # "aborts"

Pending == history_choice_ # <<>> /\ ~Last(history_choice_).used

QInit == trace_ = <<>> /\ history_choice_ = <<>> /\ answer = NoAnswer

-----------------------------------------------------------------------------
(***************************************************************************)
(* Frames.                                                                 *)
(***************************************************************************)
Given(vs) == [vs -> {{x} : x \in Values}]

init(root) ==
  /\ Alive
  /\ trace_ = <<>>
  /\ trace_' = <<root>>
  /\ UNCHANGED <<history_choice_, answer>>

\* The states a caller has are those get_curr_state copied from a frame.
set_current_state(k) ==
  /\ Alive
  /\ trace_' = <<trace_[k]>>
  /\ history_choice_' = <<>>
  /\ UNCHANGED answer

set_input(inputs) ==
  /\ Alive
  /\ trace_ # <<>> /\ ~Pending
  /\ history_choice_' = Append(history_choice_, [assign |-> inputs, used |-> FALSE])
  /\ UNCHANGED <<trace_, answer>>

undo_set_input ==
  /\ Alive
  /\ Pending
  /\ history_choice_' = Front(history_choice_)
  /\ UNCHANGED <<trace_, answer>>

\* Slip: the frame is not substituted, only the inputs.
StepsFromInputs(frame, inputs) == [v \in Updated |-> Substitute(Update[v], inputs)]

NextFrame(frame, inputs) ==
  [v \in Updated |-> Substitute(Update[v], Insert(frame, inputs))]

sim_one_step ==
  /\ Alive
  /\ Pending /\ Len(trace_) < MaxFrames
  /\ trace_' = Append(trace_, NextFrame(Last(trace_), Last(history_choice_).assign))
  /\ history_choice_' = [history_choice_ EXCEPT ![Len(history_choice_)].used = TRUE]
  /\ UNCHANGED answer

ToSimulate(choices) == [choices EXCEPT ![Len(choices)].used = FALSE]

backtrack ==
  /\ Alive
  /\ history_choice_ # <<>>
  /\ trace_' = Front(trace_)
  /\ history_choice_' = ToSimulate(history_choice_)
  /\ UNCHANGED answer

-----------------------------------------------------------------------------
(***************************************************************************)
(* Queries.  The loop of _expr_only_sv returns in its first iteration, and *)
(* which symbol comes first is up to the hash table.                       *)
(***************************************************************************)
IsStateVar(v) == v \in StateVars

expr_only_sv(expr) == IF expr = {} THEN {TRUE} ELSE {IsStateVar(v) : v \in expr}

\* The substituted expression goes to a second variable called expr, which is
\* also the argument of the substitution and has no value then: the program may
\* fail there, and otherwise the named term itself is returned.  It fails too
\* when the assertions miss a pending input.
cur(expr) ==
  /\ Alive
  /\ trace_ # <<>>
  /\ \E only_sv \in expr_only_sv(expr) :
       \/ (only_sv \/ Pending) /\ Answered("cur", expr, "term", expr)
       \/ Answered("cur", expr, "aborts", {})
  /\ UNCHANGED <<trace_, history_choice_>>

\* Slip: the term with the name is returned, as by cur.
Unread(expr, frame) == expr

Interpreted(expr, frame) == Substitute(expr, frame)

interpret_state_expr_on_curr_frame(expr) ==
  /\ Alive
  /\ trace_ # <<>>
  /\ \E only_sv \in expr_only_sv(expr) :
       IF only_sv
         THEN Answered("interpret", expr, "term", Interpreted(expr, Last(trace_)))
         ELSE Answered("interpret", expr, "throws", {})
  /\ UNCHANGED <<trace_, history_choice_>>

\* backtrack asserts only that there is a choice: that the last one has been
\* simulated is up to its callers.
QNext ==
  \/ \E root \in Given(StateVars) : init(root)
  \/ \E k \in DOMAIN trace_ : set_current_state(k)
  \/ \E inputs \in Given(InVars) : set_input(inputs)
  \/ undo_set_input \/ sim_one_step \/ (~Pending /\ backtrack)
  \/ \E expr \in Named : cur(expr)
  \/ \E expr \in Named : interpret_state_expr_on_curr_frame(expr)

QSpec == QInit /\ [][QNext]_fvars

-----------------------------------------------------------------------------
(***************************************************************************)
(* Properties                                                              *)
(***************************************************************************)
\* A frame assigns terms to state variables, the first one to all of them
\* unless it was made by a step; a choice gives every input a value; there is
\* one frame more than there are used choices, and only the last can be unused.
QTypeOK ==
  /\ \A k \in DOMAIN trace_ :
       /\ DOMAIN trace_[k] \in {StateVars, Updated}
       /\ \A v \in DOMAIN trace_[k] : trace_[k][v] \subseteq Vars \cup Values
  /\ \A i \in DOMAIN history_choice_ : history_choice_[i].assign \in Given(InVars)
  /\ \A i \in 1 .. Len(history_choice_) - 1 : history_choice_[i].used
  /\ Len(trace_) = IF trace_ = <<>> THEN Len(history_choice_)
                   ELSE Len(history_choice_) + (IF Pending THEN 0 ELSE 1)
  /\ answer.outcome \in {"none", "term", "throws", "aborts"}

\* The state variables that the terms of vs mention.
Mentioned(vs) == StateVars \cap UNION {Update[v] : v \in vs \cap Updated}

\* Those that the term of v depends on: v, and whatever the terms of these
\* mention.
DependsOn(v) ==
  {x \in StateVars : \A S \in SUBSET StateVars : v \in S /\ Mentioned(S) \subseteq S => x \in S}

\* A term of a frame has a variable of the design in it only if the variable
\* it is the term of depends, step by step, on one that has no update
\* (sim_one_step makes the next frame from state_updates() only).
TermsOfFramesAreValues ==
  /\ QTypeOK
  /\ \A k \in DOMAIN trace_ : \A v \in DOMAIN trace_[k] :
       trace_[k][v] \subseteq Values \/ ~(DependsOn(v) \subseteq Updated)

\* What interpret_state_expr_on_curr_frame returns is about the current frame:
\* no state variable with an update is left in it, however many steps were made
\* and taken back, and an input only if it is in a mixed expression that was let
\* through.
AnswersAreOverValues ==
  answer.query = "interpret" =>
    answer.result \cap Vars \subseteq (answer.expr \cap InVars) \cup (StateVars \ Updated)
=============================================================================

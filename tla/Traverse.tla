------------------------------ MODULE Traverse ------------------------------
(***************************************************************************)
(* SymbolicTraverse::traverse (framework/symtraverse.cpp:163-295): a depth *)
(* first search over the states of a design.  Each iteration of its loop   *)
(* is taken apart at the calls of the simulator, which are the actions of  *)
(* SymSim; loc is where the traversal is.                                  *)
(*                                                                         *)
(* An iteration copies the current state (head), tries the current choice  *)
(* of the state on top (branch, sim, snap), decides on the state it leads  *)
(* to (check, act), and goes back (undo) unless that state is new.  A      *)
(* state whose choices are exhausted is left (branch, undo), and the       *)
(* choice of its parent that led to it is then simulated again: the state  *)
(* is recognised because the branch that ended in it is the last of        *)
(* all_branches.                                                           *)
(***************************************************************************)
EXTENDS Exploration

VARIABLES
  stack_per_state,  \* a PerStateStack for each state on the current branch
  curr_branch,      \* the states on the current branch
  all_branches,     \* the branches that were left
  branch_end_flag,  \* a branch was left in the previous iteration
  verdict           \* the locals reachable, concrete_enough, is_new_state

search == <<abs_state, stack_per_state, curr_branch, all_branches,
            branch_end_flag, verdict>>
tvars == <<vars, design, loc, search>>

-----------------------------------------------------------------------------
TInit ==
  /\ Init
  /\ design \in Designs
  /\ loc = "boot"
  /\ abs_state = <<>>
  /\ stack_per_state = <<>>
  /\ curr_branch = <<>>
  /\ all_branches = <<>>
  /\ branch_end_flag = FALSE
  /\ verdict = "none"

InLoop == {"head", "branch", "sim", "snap", "check", "act", "undo"}
Ended == {"done", "skipped", "thrown"}
Locations == {"boot", "start", "entry"} \cup InLoop \cup Ended

\* The caller initializes the simulator.
Boot ==
  /\ GoTo("boot", "start")
  /\ \E given \in Roots : init(given)
  /\ UNCHANGED <<design, search>>

Enter ==
  /\ GoTo("start", "entry")
  /\ get_curr_state(Assumptions)
  /\ UNCHANGED <<design, search>>

\* An unreachable first state: traverse returns 0.
EnterUnreachable ==
  /\ GoTo("entry", "skipped")
  /\ ~ check_reachable(design, ret)
  /\ UNCHANGED <<vars, design, search>>

EnterReachable ==
  /\ GoTo("entry", "head")
  /\ check_reachable(design, ret)
  /\ check_concrete_enough(design, ret, Xvar)
  /\ record_verdict(design, abs_state, ret) = "new"
  /\ abs_state' = Append(abs_state, ret)
  /\ stack_per_state' = <<NewPerStateStack>>
  /\ curr_branch' = <<ret>>
  /\ UNCHANGED <<vars, design, all_branches, branch_end_flag, verdict>>

CopyHead ==
  /\ GoTo("head", "branch")
  /\ get_curr_state(<<>>)
  /\ UNCHANGED <<design, search>>

-----------------------------------------------------------------------------
Top == Last(stack_per_state)

\* The first state has no choice left: the loop ends.
LeaveLast ==
  /\ GoTo("branch", "done")
  /\ ~ has_valid_choice(Top)
  /\ Len(stack_per_state) = 1
  /\ stack_per_state' = <<>>
  /\ UNCHANGED <<vars, design, abs_state, curr_branch, all_branches,
                 branch_end_flag, verdict>>

\* Slip: the state that is left stays on the current branch.
KeepsBranch ==
  /\ GoTo("branch", "undo")
  /\ ~ has_valid_choice(Top)
  /\ Len(stack_per_state) > 1
  /\ stack_per_state' = Front(stack_per_state)
  /\ backtrack
  /\ all_branches' = Append(all_branches, curr_branch)
  /\ branch_end_flag' = TRUE
  /\ UNCHANGED <<design, abs_state, curr_branch, verdict>>

\* Slip: the state that is left is removed before the branch is stored.
StoresShorterBranch ==
  /\ GoTo("branch", "undo")
  /\ ~ has_valid_choice(Top)
  /\ Len(stack_per_state) > 1
  /\ stack_per_state' = Front(stack_per_state)
  /\ backtrack
  /\ all_branches' = Append(all_branches, Front(curr_branch))
  /\ curr_branch' = Front(curr_branch)
  /\ branch_end_flag' = TRUE
  /\ UNCHANGED <<design, abs_state, verdict>>

\* Another one has no choice left: back to the state below.
LeaveState ==
  /\ GoTo("branch", "undo")
  /\ ~ has_valid_choice(Top)
  /\ Len(stack_per_state) > 1
  /\ stack_per_state' = Front(stack_per_state)
  /\ backtrack
  /\ all_branches' = Append(all_branches, curr_branch)
  /\ curr_branch' = Front(curr_branch)
  /\ branch_end_flag' = TRUE
  /\ UNCHANGED <<design, abs_state, verdict>>

TryChoice ==
  /\ GoTo("branch", "sim")
  /\ has_valid_choice(Top)
  /\ set_input(InputAssignment(Top), ChoiceAssumptions(Top))
  /\ UNCHANGED <<design, search>>

Simulate ==
  /\ GoTo("sim", "snap")
  /\ sim_one_step
  /\ UNCHANGED <<design, search>>

Snap ==
  /\ GoTo("snap", "check")
  /\ get_curr_state(<<>>)
  /\ UNCHANGED <<design, search>>

-----------------------------------------------------------------------------
\* Slip: the branch that was just left is forgotten.
ComparedWithCurrent == curr_branch

\* The states to compare with: those of the branch that was just left, or
\* those of the current branch.
ComparedWith == IF branch_end_flag THEN Last(all_branches) ELSE curr_branch

\* The queries about the state that was reached; each is asked only if the one
\* before it succeeded.  The flag is reset before the states are compared.  When
\* the comparison throws, the simulator is left where it is.
Check ==
  /\ loc = "check"
  /\ verdict' = IF ~ check_reachable(design, ret) THEN "unreachable"
                ELSE IF ~ check_concrete_enough(design, ret, Xvar) THEN "not concrete"
                ELSE record_verdict(design, ComparedWith, ret)
  /\ loc' = IF verdict' = "overly constrained" THEN "thrown" ELSE "act"
  /\ branch_end_flag' = (branch_end_flag /\ verdict' \in {"unreachable", "not concrete"})
  /\ UNCHANGED <<vars, design, abs_state, stack_per_state, curr_branch,
                 all_branches>>

ReplaceTop(s) == stack_per_state' = Append(Front(stack_per_state), s)

\* Unreachable, or known: try the next choice.
TryNextChoice ==
  /\ GoTo("act", "undo")
  /\ verdict \in {"unreachable", "known"}
  /\ ReplaceTop(next_choice(Top))
  /\ backtrack
  /\ UNCHANGED <<design, abs_state, curr_branch, all_branches, branch_end_flag,
                 verdict>>

TryDeeperChoice ==
  /\ GoTo("act", "undo")
  /\ verdict = "not concrete"
  /\ CanDeepen(Top)
  /\ ReplaceTop(deeper_choice(Top))
  /\ backtrack
  /\ UNCHANGED <<design, abs_state, curr_branch, all_branches, branch_end_flag,
                 verdict>>

\* Out of choices: after another get_curr_state an exception leaves traverse,
\* and the simulator is left where it is.
RunOutOfChoices ==
  /\ GoTo("act", "thrown")
  /\ verdict = "not concrete"
  /\ ~ CanDeepen(Top)
  /\ get_curr_state(<<>>)
  /\ UNCHANGED <<design, search>>

NewState ==
  /\ GoTo("act", "head")
  /\ verdict = "new"
  /\ abs_state' = Append(abs_state, ret)
  /\ curr_branch' = Append(curr_branch, ret)
  /\ stack_per_state' = Append(stack_per_state, NewPerStateStack)
  /\ UNCHANGED <<vars, design, all_branches, branch_end_flag, verdict>>

\* Slip: the simulator goes back a second time.
BacktracksAgain ==
  /\ GoTo("undo", "head")
  /\ backtrack
  /\ UNCHANGED <<design, search>>

Undo ==
  /\ GoTo("undo", "head")
  /\ undo_set_input
  /\ UNCHANGED <<design, search>>

\* The traversal has returned or thrown.  Anywhere else a state without a next
\* step is an assertion of the code that fails.
Stopped == loc \in Ended /\ UNCHANGED tvars

TNext ==
  \/ Boot \/ Enter \/ EnterUnreachable \/ EnterReachable
  \/ CopyHead \/ LeaveLast \/ LeaveState
  \/ TryChoice \/ Simulate \/ Snap
  \/ Check \/ TryNextChoice \/ TryDeeperChoice \/ RunOutOfChoices
  \/ NewState \/ Undo
  \/ Stopped

TSpec == TInit /\ [][TNext]_tvars

-----------------------------------------------------------------------------
(***************************************************************************)
(* Properties                                                              *)
(***************************************************************************)

\* Every variable of the traversal holds a value of its type.
TTypeOK ==
  /\ IsDesign(design)
  /\ loc \in Locations
  /\ abs_state \in Seq(StateAsmpt)
  /\ stack_per_state \in
       Seq([stack : Seq(Node), ptr : Nat, no_next_choice : BOOLEAN])
  /\ curr_branch \in Seq(StateAsmpt)
  /\ all_branches \in Seq(Seq(StateAsmpt))
  /\ branch_end_flag \in BOOLEAN
  /\ verdict \in {"none", "unreachable", "not concrete", "new", "known",
                 "overly constrained"}

SymsOfStacks ==
  LET asmpt == all_assumptions(history_assumptions)
  IN UNION {SymsOfPath(design, asmpt[i].over) : i \in 1 .. Len(asmpt)}
       \cup SymsOfPath(design, LivePath)

\* A choice is being tried, and has a frame of its own.
Trying == IF loc \in {"snap", "check", "act"} THEN 1 ELSE 0

\* There is a PerStateStack and a recorded state for each frame of the simulator,
\* but for the frame of the choice that is being tried, and the recorded state
\* is a copy of that frame.
FramesAligned ==
  /\ Len(curr_branch) = Len(stack_per_state)
  /\ Len(trace) = Len(stack_per_state) + Trying
  /\ Pending <=> loc \in {"sim", "undo"}
  /\ \A k \in 1 .. Len(curr_branch) : curr_branch[k].sv = trace[k]

\* The four stacks of the search stand for one branch.
SearchAligned == TTypeOK /\ (loc \in InLoop => FramesAligned)

\* Each state of curr_branch, which was copied under the path constraints of that
\* time, is the state the simulator has in that frame under the path constraints
\* of now, up to symbols of inputs that do not matter.
CopiesAreCurrent ==
  \A k \in 1 .. Len(curr_branch) :
    NodesOf(design, curr_branch[k]) =
      {NodeOf(design, trace[k], m) : m \in
         Models(design, SymsOfStacks, all_assumptions(history_assumptions))}

\* If the design ties no inputs: the states of the current branch are what the
\* simulator has in its frames; and each branch that was left is a path of the
\* design from the root, on which no state occurs twice, so a loop of the design
\* is never followed around.
BranchesAreSimplePaths == loc = "head" /\ Untied =>
  /\ CopiesAreCurrent
  /\ \A b \in 1 .. Len(all_branches) :
       LET path == [k \in 1 .. Len(all_branches[b]) |->
                      NodesOf(design, all_branches[b][k])]
       IN /\ path[1] = {Root}
          /\ \A j, k \in 1 .. Len(path) : j # k => path[j] \cap path[k] = {}
          /\ \A k \in 1 .. Len(path) - 1 :
               \E m \in path[k], n \in path[k + 1] :
                 \E c \in design.allowed[m] : design.next[m][c] = n

\* At any time, every node that was recorded can be reached: the path constraints
\* that a state was copied with suffice to keep it on paths of the design, after
\* any number of choices tried and taken back.
RecordsOnlyReachable ==
  loc # "boot" =>
    RecordedNodes \subseteq UNION {ReachableFrom(n0) : n0 \in InitialNodes}

\* A traversal that returns has recorded every node that can be reached under the
\* assumptions of the caller: no branch is lost when a state is known already, when
\* the choices are refined, or when the search goes back; and it has gone all the
\* way back.
\*
\* It gives up on a design only if cells that are allowed lead to different nodes
\* although all branching points have the same values: only branching points can
\* be exhausted.  In particular abs_eq never throws: the states it compares share
\* the symbols of one branch, and no others.
FindsReachableNodes ==
  /\ loc = "done" => AdmittedFrom(Root) \subseteq RecordedNodes /\ SimulatorRestored
  /\ loc = "thrown" => \E n \in ReachableFrom(Root) : Undetermined(n)

\* After a state is left, the choice of its parent is simulated once more and
\* must lead to a known state, or the search would never end; so it does if the
\* design ties no inputs.
ResimulatedStateIsKnown ==
  [][branch_end_flag /\ loc = "check" /\ Untied
       => verdict' = "known"]_tvars

\* traverse is a client that follows the documented use of the simulator.
UsesSimulatorAsDocumented == Spec

\* A traversal of a design that ties no inputs ends: paths have no loop, so the
\* tree of recorded states is no larger than the full tree of depth
\* Cardinality(Nodes) - 1; each state tries a prefix of values once, and once more
\* for each state it led to; and every iteration mints at most three symbols for an
\* input.
PrefixesTried ==
  LET cells[i \in 0 .. Len(BranchingPoint)] ==
        IF i = 0 THEN 1 ELSE cells[i - 1] * 2 ^ BranchingPoint[i].v_width
  IN MapThenSumSet(LAMBDA i : cells[i], DOMAIN cells)

WorkIsBounded == Untied =>
  LET n == Len(abs_state)
  IN /\ n <= MapThenSumSet(LAMBDA k : Cardinality(Cell) ^ k,
                           0 .. Cardinality(Nodes) - 1)
     /\ n > 0 => \A v \in InVars :
          name_cnt[v] <= 1 + 3 * (n * PrefixesTried + n - 1) + n
=============================================================================

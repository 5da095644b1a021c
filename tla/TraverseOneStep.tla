--------------------------- MODULE TraverseOneStep ---------------------------
(***************************************************************************)
(* SymbolicTraverse::traverse_one_step (framework/symtraverse.cpp:80-161): *)
(* the states one step away from the current state of the simulator.       *)
(* There is one PerStateStack, and a state is compared with all the states *)
(* that were recorded.                                                     *)
(***************************************************************************)
EXTENDS Exploration

VARIABLES
  init_choice,  \* the PerStateStack
  tried         \* the verdict on the state the current choice leads to

ovars == <<vars, design, loc, abs_state, init_choice, tried>>

-----------------------------------------------------------------------------
OInit ==
  /\ Init
  /\ design \in Designs
  /\ loc = "boot"
  /\ abs_state = <<>>
  /\ init_choice = NewPerStateStack
  /\ tried = "none"

OEnded == {"done", "skipped", "thrown"}
OLocations == {"boot", "start", "entry", "head", "sim", "snap", "check", "act",
              "undo"} \cup OEnded

\* The caller initializes the simulator.
OBoot ==
  /\ GoTo("boot", "start")
  /\ \E given \in Roots : init(given)
  /\ UNCHANGED <<design, abs_state, init_choice, tried>>

OEnter ==
  /\ GoTo("start", "entry")
  /\ get_curr_state(Assumptions)
  /\ UNCHANGED <<design, abs_state, init_choice, tried>>

\* An unreachable first state: traverse_one_step returns 0.
OEnterUnreachable ==
  /\ GoTo("entry", "skipped")
  /\ ~ check_reachable(design, ret)
  /\ UNCHANGED <<vars, design, abs_state, init_choice, tried>>

OEnterReachable ==
  /\ GoTo("entry", "head")
  /\ check_reachable(design, ret)
  /\ check_concrete_enough(design, ret, Xvar)
  /\ record_verdict(design, abs_state, ret) = "new"
  /\ abs_state' = Append(abs_state, ret)
  /\ UNCHANGED <<vars, design, init_choice, tried>>

\* The condition of the loop.
Finish ==
  /\ GoTo("head", "done")
  /\ ~ has_valid_choice(init_choice)
  /\ UNCHANGED <<vars, design, abs_state, init_choice, tried>>

OTryChoice ==
  /\ GoTo("head", "sim")
  /\ has_valid_choice(init_choice)
  /\ set_input(InputAssignment(init_choice), ChoiceAssumptions(init_choice))
  /\ UNCHANGED <<design, abs_state, init_choice, tried>>

OSimulate ==
  /\ GoTo("sim", "snap")
  /\ sim_one_step
  /\ UNCHANGED <<design, abs_state, init_choice, tried>>

OSnap ==
  /\ GoTo("snap", "check")
  /\ get_curr_state(<<>>)
  /\ UNCHANGED <<design, abs_state, init_choice, tried>>

\* The queries about the state that was reached, and record_state, which
\* compares it with every recorded state; when a comparison throws, the
\* simulator is left where it is.
OCheck ==
  /\ loc = "check"
  /\ tried' = IF ~ check_reachable(design, ret) THEN "unreachable"
              ELSE IF ~ check_concrete_enough(design, ret, Xvar) THEN "not concrete"
              ELSE record_verdict(design, abs_state, ret)
  /\ abs_state' = IF tried' = "new" THEN Append(abs_state, ret) ELSE abs_state
  /\ loc' = IF tried' = "overly constrained" THEN "thrown" ELSE "act"
  /\ UNCHANGED <<vars, design, init_choice>>

OTryNextChoice ==
  /\ GoTo("act", "undo")
  /\ tried # "not concrete"
  /\ init_choice' = next_choice(init_choice)
  /\ backtrack
  /\ UNCHANGED <<design, abs_state, tried>>

OTryDeeperChoice ==
  /\ GoTo("act", "undo")
  /\ tried = "not concrete"
  /\ CanDeepen(init_choice)
  /\ init_choice' = deeper_choice(init_choice)
  /\ backtrack
  /\ UNCHANGED <<design, abs_state, tried>>

\* Out of choices: a failed check ends the program.
ORunOutOfChoices ==
  /\ GoTo("act", "thrown")
  /\ tried = "not concrete"
  /\ ~ CanDeepen(init_choice)
  /\ get_curr_state(<<>>)
  /\ UNCHANGED <<design, abs_state, init_choice, tried>>

OUndo ==
  /\ GoTo("undo", "head")
  /\ undo_set_input
  /\ UNCHANGED <<design, abs_state, init_choice, tried>>

\* traverse_one_step has returned or thrown.
OStopped == loc \in OEnded /\ UNCHANGED ovars

ONext ==
  \/ OBoot \/ OEnter \/ OEnterUnreachable \/ OEnterReachable \/ Finish
  \/ OTryChoice \/ OSimulate \/ OSnap \/ OCheck
  \/ OTryNextChoice \/ OTryDeeperChoice \/ ORunOutOfChoices \/ OUndo
  \/ OStopped

OSpec == OInit /\ [][ONext]_ovars

-----------------------------------------------------------------------------
(***************************************************************************)
(* Properties                                                              *)
(***************************************************************************)

\* Every variable holds a value of its type.
OTypeOK ==
  /\ IsDesign(design)
  /\ loc \in OLocations
  /\ abs_state \in Seq(StateAsmpt)
  /\ init_choice \in [stack : Seq(Node), ptr : Nat, no_next_choice : BOOLEAN]
  /\ tried \in {"none", "unreachable", "not concrete", "new", "known",
                "overly constrained"}

\* No node of a design that ties no inputs is recorded twice, so the number
\* returned counts nodes.
RecordsNodesOnce == Untied => Len(abs_state) = Cardinality(RecordedNodes)

\* At any time, every node that was recorded is the first one or a successor of
\* it, although get_curr_state copies a state under the path constraints of all
\* choices that are in force.
RecordsOnlySuccessors ==
  loc # "boot" =>
    RecordedNodes \subseteq
      InitialNodes \cup UNION {Successors(n0) : n0 \in InitialNodes}

\* When traverse_one_step returns from a concrete state, that node and the nodes
\* one step away from it that the assumptions of the caller admit are recorded: no
\* value of a branching point is left out, however the choices were refined.  It
\* gives up only if the branching points do not determine the next node.
FindsSuccessors ==
  /\ OTypeOK
  /\ loc = "done" => /\ {Root} \cup AdmittedSuccessors(Root) \subseteq RecordedNodes
                     /\ SimulatorRestored
  /\ loc = "thrown" => Undetermined(Root)
=============================================================================

-------------------------- MODULE SymSimRefinement --------------------------
(***************************************************************************)
(* The simulator implements the undo stack, although it saves no copies:   *)
(* what it would have saved is computed from the lower parts of its stacks *)
(* and from the lengths the choices recorded.                              *)
(***************************************************************************)
EXTENDS SymSim

StateAt(frame, asmpt, interp) ==
  [frame |-> frame, asmpt |-> asmpt, interp |-> interp]

\* What stands for no state is neither a copy nor a state of the undo stack.
ASSUME NoStateAssumption ==
  /\ NoState \notin StateAsmpt
  /\ NoState \notin [frame : Path, asmpt : Seq(Seq(Assumption)), interp : Seq(Seq(Label))]

\* The lists below frame k, and of frame k its first len elements.
Cut(lists, k, len) == Append(SubSeq(lists, 1, k - 1), SubSeq(lists[k], 1, len))

\* The state in which choice k was made, and the one it was simulated in.
BeforeChoice(k) ==
  LET len == history_choice[k].assmpt_len
  IN StateAt(trace[k], Cut(history_assumptions, k, len),
             Cut(history_assumptions_interp, k, len))

AfterChoice(k) ==
  StateAt(trace[k], SubSeq(history_assumptions, 1, k),
          SubSeq(history_assumptions_interp, 1, k))

curBar ==
  IF trace = <<>> THEN NoState
  ELSE StateAt(Last(trace), history_assumptions, history_assumptions_interp)

\* One copy for a pending choice, two for a choice that has been simulated.
savedBar ==
  [i \in 1 .. 2 * Len(history_choice) - (IF Pending THEN 1 ELSE 0) |->
     IF i % 2 = 1 THEN BeforeChoice((i + 1) \div 2) ELSE AfterChoice(i \div 2)]

Undoable == INSTANCE UndoStack WITH None <- NoState, cur <- curBar,
                                    saved <- savedBar, kept <- ret

\* Every step of the simulator is a step of the undo stack or changes nothing
\* a client can go back to; in particular a copy (get_curr_state) pushes and
\* pops an input without a trace, and undo_set_input and backtrack restore the
\* frame, the path constraints and their names exactly.
ImplementsUndoStack == Undoable!Spec
=============================================================================

----------------------------- MODULE UndoStack -----------------------------
(***************************************************************************)
(* What the symbolic simulator promises to a client that goes back and     *)
(* forth (symsim.h:117,127-129): undoing gives back exactly what there     *)
(* was.  The promise is stated with an undo stack that saves a full copy   *)
(* of the current state on every step forward.  A state is a frame and,    *)
(* for each frame so far, the list of path constraints and the list of     *)
(* their names.                                                            *)
(***************************************************************************)
EXTENDS SequencesExt, Integers

CONSTANT None   \* before the first state

VARIABLES cur,    \* the current state
          saved,  \* copies of the states to go back to
          kept    \* the copy the client asked for last, its lists flattened

uvars == <<cur, saved, kept>>

Init == cur = None /\ saved = <<>> /\ kept = None

\* A first state: nothing to go back to.
Start ==
  /\ cur = None /\ cur' # None
  /\ Len(cur'.frame) = 1 /\ Len(cur'.asmpt) = 1 /\ Len(cur'.interp) = 1
  /\ UNCHANGED <<saved, kept>>

\* get_curr_state: a copy of the current state, possibly constrained further.
Copy ==
  /\ cur # None /\ kept' # None
  /\ kept'.sv = cur.frame
  /\ IsPrefix(FlattenSeq(cur.asmpt), kept'.asmpt)
  /\ IsPrefix(FlattenSeq(cur.interp), kept'.interp)
  /\ UNCHANGED <<cur, saved>>

\* set_current_state with the copy: again nothing to go back to.
Install ==
  /\ kept # None
  /\ cur' = [frame |-> kept.sv, asmpt |-> <<kept.asmpt>>,
             interp |-> <<kept.interp>>]
  /\ saved' = <<>>
  /\ UNCHANGED kept

\* set_input: the frame stays, path constraints are added on the top list.
Constrain ==
  /\ cur # None
  /\ saved' = Append(saved, cur)
  /\ cur'.frame = cur.frame
  /\ Len(cur'.asmpt) = Len(cur.asmpt)
  /\ Front(cur'.asmpt) = Front(cur.asmpt)
  /\ IsPrefix(Last(cur.asmpt), Last(cur'.asmpt))
  /\ IsPrefix(Last(cur.interp), Last(cur'.interp))
  /\ UNCHANGED kept

\* sim_one_step: a new frame without path constraints of its own.
Extend ==
  /\ cur # None
  /\ saved' = Append(saved, cur)
  /\ Len(cur'.frame) = Len(cur.frame) + 1
  /\ IsPrefix(cur.frame, cur'.frame)
  /\ cur'.asmpt = Append(cur.asmpt, <<>>)
  /\ cur'.interp = Append(cur.interp, <<>>)
  /\ UNCHANGED kept

\* undo_set_input and backtrack.
Undo ==
  /\ saved # <<>>
  /\ cur' = Last(saved)
  /\ saved' = Front(saved)
  /\ UNCHANGED kept

Next == Start \/ Copy \/ Install \/ Constrain \/ Extend \/ Undo

Spec == Init /\ [][Next]_uvars
=============================================================================

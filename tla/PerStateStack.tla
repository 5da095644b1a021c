--------------------------- MODULE PerStateStack ---------------------------
(***************************************************************************)
(* Branching at one state (class TraverseBranchingNode and class           *)
(* PerStateStack of framework/symtraverse.{h,cpp}).  The branching points  *)
(* form a tree: a level for each point, a child for each of its values.    *)
(* The stack holds the values on the way to the current node of the tree;  *)
(* the search goes deeper only where the values so far do not make the     *)
(* next state concrete, and otherwise to the next value.                   *)
(***************************************************************************)
EXTENDS SequencesExt, Integers

CONSTANT BranchingPoint   \* the branching points, from the first to the last

\* Values are 32-bit ints compared with pow(2, width); up to this width the
\* counter does not overflow.
MaxWidth == 30

ASSUME BranchingPointAssumption ==
  BranchingPoint \in
    Seq([v_name : STRING, v_width : 1 .. MaxWidth, branch_on_inputvar : BOOLEAN])

Values(width) == 0 .. 2 ^ width - 1

\* A branching point with the value chosen for it.
Node == [point : ToSet(BranchingPoint), value : Nat]

\* next() reports that this value is not the last one.
HasNext(node) == node.value + 1 # 2 ^ node.point.v_width

\* Slip: the copy does not start at the first value.
CopyAtSecondValue(point) == [point |-> point, value |-> 1]

copy_node_without_value(point) == [point |-> point, value |-> 0]

NewPerStateStack == [stack |-> <<>>, ptr |-> 0, no_next_choice |-> FALSE]

has_valid_choice(s) == ~ s.no_next_choice

\* Slip: the pointer stays when nodes are popped.
KeepsPointer(s) ==
  LET movable == {i \in 1 .. Len(s.stack) : HasNext(s.stack[i])}
      top == Max(movable)
  IN IF movable = {} THEN [s EXCEPT !.stack = <<>>, !.no_next_choice = TRUE]
     ELSE [s EXCEPT !.stack = [SubSeq(@, 1, top) EXCEPT ![top].value = @ + 1]]

\* Slip: the last node starts again at its first value.
WrapsAround(s) ==
  LET top == Len(s.stack)
  IN IF top = 0
     THEN [s EXCEPT !.no_next_choice = TRUE]
     ELSE [s EXCEPT !.stack[top].value =
                      IF HasNext(s.stack[top]) THEN @ + 1 ELSE 0]

\* Nodes at their last value are popped, the next one moves to its next value;
\* with no node left there is no next choice.
next_choice(s) ==
  LET movable == {i \in 1 .. Len(s.stack) : HasNext(s.stack[i])}
      top == Max(movable)
  IN IF movable = {}
     THEN [stack |-> <<>>, ptr |-> s.ptr - Len(s.stack), no_next_choice |-> TRUE]
     ELSE [stack |-> [SubSeq(s.stack, 1, top) EXCEPT ![top].value = @ + 1],
           ptr |-> s.ptr - (Len(s.stack) - top), no_next_choice |-> s.no_next_choice]

\* Slip: the last branching point is never used.
CanDeepenByTwo(s) == s.ptr + 1 < Len(BranchingPoint)

CanDeepen(s) == s.ptr # Len(BranchingPoint)

deeper_choice(s) ==
  [s EXCEPT !.stack = Append(@, copy_node_without_value(BranchingPoint[s.ptr + 1])),
            !.ptr = @ + 1]

\* The values on the stack, from the first branching point down.
Prefix(s) == [i \in 1 .. Len(s.stack) |-> s.stack[i].value]
=============================================================================

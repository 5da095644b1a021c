--------------------------- MODULE MCChoiceSearch ---------------------------
(***************************************************************************)
(* Small instances of ChoiceSearch.                                        *)
(***************************************************************************)
EXTENDS ChoiceSearch

Point(name, width) ==
  [v_name |-> name, v_width |-> width, branch_on_inputvar |-> TRUE]

\* A one-bit input, a two-bit one below it, and another one-bit one.
MCBranchingPoint == <<Point("a", 1), Point("b", 2), Point("c", 1)>>
=============================================================================

----------------------------- MODULE MCTraverse -----------------------------
(***************************************************************************)
(* Small instances of Traverse.                                            *)
(***************************************************************************)
EXTENDS Traverse, MCDesigns
=============================================================================

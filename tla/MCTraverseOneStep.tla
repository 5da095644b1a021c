-------------------------- MODULE MCTraverseOneStep --------------------------
(***************************************************************************)
(* Small instances of TraverseOneStep.                                     *)
(***************************************************************************)
EXTENDS TraverseOneStep, MCDesigns
=============================================================================

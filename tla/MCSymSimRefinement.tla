------------------------- MODULE MCSymSimRefinement -------------------------
(***************************************************************************)
(* Small instances of SymSimRefinement.                                    *)
(***************************************************************************)
EXTENDS SymSimRefinement

CONSTANTS s, a, v, p

\* Somebody may take the name that is second in line for the input.
MCForeign == {[var |-> a, cnt |-> 2]}
=============================================================================

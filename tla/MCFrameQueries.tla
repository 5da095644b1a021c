--------------------------- MODULE MCFrameQueries ---------------------------
(***************************************************************************)
(* A design of a counter c with the input i, a register k that has no      *)
(* update, e whose update reads k, and d whose update reads e: the first   *)
(* frame has a value for k, later ones have none.                          *)
(***************************************************************************)
EXTENDS FrameQueries

MCUpdate == [v \in {"c", "d", "e"} |->
               CASE v = "c" -> {"c", "i"} [] v = "d" -> {"c", "e"} [] v = "e" -> {"c", "k"}]
MCNamed == {{"c"}, {"c", "e"}, {"i"}, {"c", "i"}, {}}
=============================================================================

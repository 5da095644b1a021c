-------------------------- MODULE MCTimedAssertion --------------------------
EXTENDS TimedAssertion

(***************************************************************************)
(* Designs of one register: it is cleared while the reset is 1, and takes  *)
(* the free input, or its own complement where there is none, while it is  *)
(* 0.  Either nothing is constrained, or the register starts at 0, or the  *)
(* input must differ from the register.                                    *)
(***************************************************************************)
Update == [r \in Values, in \in InputsAt |->
             IF \E v \in Reset : in[v] = 1 THEN 0
             ELSE IF FreeInputs = {} THEN 1 - r
             ELSE in[CHOOSE v \in FreeInputs : TRUE]]

All == Values \X InputsAt

MCDesigns ==
  {[init |-> Values, next |-> Update, constraint |-> All],
   [init |-> {0}, next |-> Update, constraint |-> All],
   [init |-> Values, next |-> Update,
    constraint |-> {c \in All : \A v \in FreeInputs : c[2][v] # c[1]}]}

\* x == y and x != y, over the values at cycles 0, 1 and 2.
Timed == {<<v, c>> : v \in {"r"} \cup FreeInputs \cup Clock, c \in 0 .. 2}

MCAssertions ==
  {[vars |-> {x, y}, holds |-> {f \in [{x, y} -> Values] : f[x] = f[y]}] :
      x, y \in Timed}
  \cup {[vars |-> {x, y}, holds |-> {f \in [{x, y} -> Values] : f[x] # f[y]}] :
      x, y \in Timed}
  \cup {[vars |-> {x}, holds |-> {[z \in {x} |-> k]}] : x \in Timed, k \in Values}
=============================================================================

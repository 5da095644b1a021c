------------------------------ MODULE MCDesigns ------------------------------
(***************************************************************************)
(* Small designs, and how they are explored.                               *)
(***************************************************************************)
EXTENDS Exploration

CONSTANTS n0, n1, n2, b0, b1, high, low, quiet

MCTermOf == 0 :> b0 @@ 1 :> b1

Input(name) == [v_name |-> name, v_width |-> 1, branch_on_inputvar |-> TRUE]

AlwaysLow == [n \in Nodes |-> [c \in Cell |-> {low}]]

Signal(name) == [v_name |-> name, v_width |-> 1, branch_on_inputvar |-> FALSE]

NoSignals == <<>>

\* The formulas "g has value 0" and "g has value 1" of the signal g.
SignalG == [v \in {"g"} |-> 0 :> low @@ 1 :> high]

MCForeign == {}

\* A simulator that starts in n0.
FirstRoot == {[v \in StateVars |-> n0]}

\* The designs of a traversal branch on the input a and on a signal g, and may
\* read an input b that is not a branching point.  The root is n0, which loses
\* nothing where a family is closed under renaming nodes.
Pair == {n0, n1}

\* The cells and transitions of a design that ignores b.
Lift(f, n) == [c \in Cell |-> f[n][c["a"]]]

\* Two nodes: every transition function and every constraint over a.
ConstrainedDesigns ==
  {[allowed |-> [n \in Nodes |-> IF n \in Pair THEN {c \in Cell : c["a"] \in here[n]} ELSE Cell],
    next |-> [n \in Nodes |-> IF n \in Pair THEN Lift(to, n) ELSE [c \in Cell |-> n]],
    holds |-> AlwaysLow, reads |-> {"a"}] :
      here \in [Pair -> SUBSET Bits], to \in [Pair -> [Bits -> Pair]]}

\* Three nodes: every transition function over a, without constraints; n1 and n2
\* are named in the order in which they are reached from n0.
FreeDesigns ==
  {[allowed |-> [n \in Nodes |-> Cell], next |-> [n \in Nodes |-> Lift(to, n)],
    holds |-> AlwaysLow, reads |-> {"a"}] :
      to \in {f \in [Nodes -> [Bits -> Nodes]] : f[n0][b0] # n2}}

\* Two nodes: every transition function over b, and every signal that is a
\* function of the node and b.
SignalDesigns ==
  {[allowed |-> [n \in Nodes |-> Cell],
    next |-> [n \in Nodes |-> [c \in Cell |-> IF n \in Pair THEN to[n][c["b"]] ELSE n]],
    holds |-> [n \in Nodes |-> [c \in Cell |-> IF n \in Pair THEN signal[n][c["b"]] ELSE {low}]],
    reads |-> {"b"}] :
      to \in [Pair -> [Bits -> Pair]], signal \in [Pair -> [Bits -> {{low}, {high}}]]}

\* Two nodes: every transition function from n0 over a and b, and from n1 over a,
\* and a signal that tells b.
RefinedDesigns ==
  {[allowed |-> [n \in Nodes |-> Cell],
    next |-> [n \in Nodes |-> CASE n = n0 -> first
                                 [] n = n1 -> [c \in Cell |-> second[c["a"]]]
                                 [] OTHER -> [c \in Cell |-> n]],
    holds |-> [n \in Nodes |-> [c \in Cell |-> IF c["b"] = b1 THEN {high} ELSE {low}]],
    reads |-> {"a", "b"}] :
      first \in [Cell -> Pair], second \in [Bits -> Pair]}

\* No design ties inputs: some that do are explored without end, because a branch
\* grows with each new input or a state that was left is found to be new again.
TraversedDesigns ==
  ConstrainedDesigns \cup FreeDesigns \cup SignalDesigns \cup RefinedDesigns

\* Designs of one step from n0 over the inputs a and b: every function to the
\* next node, no constraint or one on a single input, and a signal that tells
\* the value of b or is always low.  Nothing is allowed in n2 of some of them; in
\* others n1 and n2 exclude each other's values of b, so that the next input is
\* tied to the one before (these are not in UntiedDesigns).  They are explored as
\* long as they are quiet, which all cells are, or those in which a has its first
\* value.
OneStepDesigns ==
  LET only(v, b) == {c \in Cell : c[v] = b}
      signals == {[c \in Cell |-> IF c["b"] = b1 THEN {high} ELSE {low}],
                  [c \in Cell |-> {low}]}
      ahead == {[n \in {n1, n2} |-> Cell], [n \in {n1, n2} |-> IF n = n1 THEN Cell ELSE {}],
                [n \in {n1, n2} |-> only("b", IF n = n1 THEN b0 ELSE b1)]}
  IN {[allowed |-> [n \in Nodes |-> IF n = n0 THEN here ELSE there[n]],
       next |-> [n \in Nodes |-> to],
       holds |-> [n \in Nodes |-> [c \in Cell |-> signal[c] \cup {f \in {quiet} : c \in still}]],
       reads |-> InVars] :
        here \in {Cell, only("a", b0), only("b", b1), {}}, there \in ahead,
        to \in [Cell -> Nodes], signal \in signals, still \in {Cell, only("a", b0)}}

Quietly == <<quiet>>

\* Branch on an input and on an internal signal.
BranchOnAG == <<Input("a"), Signal("g")>>

\* What the theorems about the explorations suppose is so for these designs.
ASSUME Supposed == PointsDecide /\ RootsGiven
=============================================================================

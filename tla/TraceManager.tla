---------------------------- MODULE TraceManager ----------------------------
(***************************************************************************)
(* The solver queries of framework/tracemgr.cpp about the states that      *)
(* get_curr_state returns, by what the formulas in them mean.              *)
(*                                                                         *)
(* A design gives terms their meaning: for each value of the state         *)
(* variables (a node) and of the inputs (a cell) it tells whether the      *)
(* constraints of the transition system allow the cell, which node is      *)
(* next, and which formulas of a caller (about internal signals) hold.     *)
(* reads has the inputs that occur in its terms.  A model gives a value to *)
(* every symbol that occurs.  The state variables are taken together as    *)
(* one variable, which is a base variable.                                 *)
(***************************************************************************)
EXTENDS SymSim

CONSTANTS
  Nodes,   \* values of the state variables
  Bits     \* values of an input

ASSUME TraceManagerAssumption ==
  /\ IsFiniteSet(StateVars) /\ Cardinality(StateVars) = 1
  /\ Nodes \cup Bits \subseteq Val
  /\ Bits # {}

Cell == [InVars -> Bits]

AgreeOn(vars_, c, e) == \A v \in vars_ : c[v] = e[v]

IsDesign(d) ==
  /\ d.reads \subseteq InVars
  /\ d.allowed \in [Nodes -> SUBSET Cell]
  /\ ~ HasConstraints => \A n \in Nodes : d.allowed[n] = Cell
  /\ d.next \in [Nodes -> [Cell -> Nodes]]
  /\ d.holds \in [Nodes -> [Cell -> SUBSET Pre]]
  /\ \A n \in Nodes, c, e \in Cell :
       AgreeOn(d.reads, c, e) => /\ c \in d.allowed[n] <=> e \in d.allowed[n]
                                 /\ d.next[n][c] = d.next[n][e]
                                 /\ d.holds[n][c] = d.holds[n][e]

-----------------------------------------------------------------------------
(***************************************************************************)
(* The meaning of frames and path constraints under a model m.             *)
(***************************************************************************)
\* An input that does not occur may have any value.
CellOf(inputs, m) ==
  [v \in InVars |-> IF inputs[v] \in DOMAIN m THEN m[inputs[v]]
                    ELSE IF inputs[v] \in Bits THEN inputs[v]
                    ELSE CHOOSE b \in Bits : TRUE]

NodeOf(d, path, m) ==
  LET first == path[1][CHOOSE v \in StateVars : TRUE]
      root == IF first \in DOMAIN m THEN m[first] ELSE first
      at[k \in 1 .. Len(path)] ==
        IF k = 1 THEN root ELSE d.next[at[k - 1]][CellOf(path[k], m)]
  IN at[Len(path)]

Holds(d, a, m) ==
  a.what # "init" =>
    LET node == NodeOf(d, Front(a.over), m)
        cell == CellOf(Last(a.over), m)
    IN IF a.what = "ts" THEN cell \in d.allowed[node]
                        ELSE a.what \in d.holds[node][cell]

SymsOfPath(d, path) ==
  {x \in UNION {SymsOf(path[i]) : i \in 1 .. Len(path)} : x.var \in StateVars \cup d.reads}

SymsOfState(d, s) ==
  SymsOfPath(d, s.sv)
    \cup UNION {SymsOfPath(d, s.asmpt[i].over) : i \in 1 .. Len(s.asmpt)}

Valuations(symbols) ==
  {[x \in symbols |-> IF x.var \in InVars THEN f[x] ELSE g[x]] :
     f \in [{x \in symbols : x.var \in InVars} -> Bits],
     g \in [{x \in symbols : x.var \in StateVars} -> Nodes]}

\* check_sat_assuming: the models of a list of formulas.
Models(d, symbols, asmpt) ==
  {m \in Valuations(symbols) : \A i \in 1 .. Len(asmpt) : Holds(d, asmpt[i], m)}

-----------------------------------------------------------------------------
check_reachable(d, s) == Models(d, SymsOfState(d, s), s.asmpt) # {}

\* The two copies of the formulas share every symbol but x.
e_is_independent_of_v(d, path, x, models) ==
  \A m, n \in models :
    (\A y \in DOMAIN m \ {x} : m[y] = n[y])
      => NodeOf(d, path, m) = NodeOf(d, path, n)

\* One query for each X that occurs in the value.
check_concrete_enough(d, s, Xs) ==
  \A models \in {Models(d, SymsOfState(d, s), s.asmpt)} :
    \A x \in SymsOfPath(d, s.sv) \cap Xs : e_is_independent_of_v(d, s.sv, x, models)

\* The models of the path constraints of both states; abs_eq throws an
\* exception when there is none.
CommonModels(d, s1, s2) ==
  Models(d, SymsOfState(d, s1) \cup SymsOfState(d, s2), s1.asmpt \o s2.asmpt)

abs_eq(d, s1, s2) ==
  \A m \in CommonModels(d, s1, s2) : NodeOf(d, s1.sv, m) = NodeOf(d, s2.sv, m)

\* Slip: the first state is left out of the comparison.
SkipsFirst(d, vec, s) ==
  IF \E i \in 2 .. Len(vec) : abs_eq(d, vec[i], s) THEN "known" ELSE "new"

\* The loop of record_state and record_state_nonexisted_in_vec compares with
\* the states of vec in order and stops at the first one that is equal, or
\* that makes abs_eq throw because no model satisfies both (then abs_eq holds
\* vacuously here).
record_verdict(d, vec, s) ==
  LET decisive == {i \in 1 .. Len(vec) : abs_eq(d, vec[i], s)}
  IN IF decisive = {} THEN "new"
     ELSE IF CommonModels(d, vec[Min(decisive)], s) = {} THEN "overly constrained"
     ELSE "known"

\* The nodes a state stands for.
NodesOf(d, s) ==
  {NodeOf(d, s.sv, m) : m \in Models(d, SymsOfState(d, s), s.asmpt)}
=============================================================================

----------------------------- MODULE Exploration -----------------------------
(***************************************************************************)
(* What SymbolicTraverse::traverse and traverse_one_step share: the caller *)
(* that sets them up, how the values of branching points become inputs and *)
(* assumptions of a simulation step (PerStateStack::get_iv_asmpt), and the *)
(* graph of the design that the results are compared with.                 *)
(***************************************************************************)
EXTENDS TraceManager, PerStateStack

CONSTANTS
  Designs,        \* the transition systems to explore
  Roots,          \* the assignments the simulator is initialized with
  TermOf,         \* the term of each value of a branching point
  SignalIs,       \* the formula "signal has the value", for each of the two
  Assumptions     \* the assumptions that are passed to traverse

SignalPoints == {i \in 1 .. Len(BranchingPoint) : ~ BranchingPoint[i].branch_on_inputvar}

\* The terms and formulas made of branching points are terms and formulas a
\* caller may pass to the simulator, and no more of them than one call takes.
ASSUME ExplorationAssumption ==
  /\ \A d \in Designs : IsDesign(d)
  /\ Roots \subseteq Given(StateVars)
  /\ \A r \in Roots : Range(r) \subseteq Nodes
  /\ Assumptions \in Seq(Pre)
  /\ Cardinality(SignalPoints) + Len(Assumptions) <= MaxPre
  /\ \A p \in ToSet(BranchingPoint) : \A value \in Values(p.v_width) :
       IF p.branch_on_inputvar THEN p.v_name \in InVars /\ TermOf[value] \in Val
       ELSE SignalIs[p.v_name][value] \in Pre

\* In node n of the design d, under cell c, the branching point has the value.
HasValue(d, n, c, point, value) ==
  IF point.branch_on_inputvar THEN c[point.v_name] = TermOf[value]
  ELSE SignalIs[point.v_name][value] \in d.holds[n][c]

\* Branching points are variables of the design with their widths: under a cell
\* that is allowed, each has exactly one of the values of its width.
PointsDecide ==
  \A d \in Designs, n \in Nodes :
    \A c \in d.allowed[n], p \in ToSet(BranchingPoint) :
      \E value \in Values(p.v_width) : \A other \in Values(p.v_width) :
        HasValue(d, n, c, p, other) <=> other = value

\* The caller gives the state variables values, and leaves none to a symbol.
RootsGiven == \A r \in Roots : DOMAIN r = StateVars

VARIABLES
  design,      \* the transition system, which never changes
  loc,         \* where the exploration is
  abs_state    \* tracemgr_.abs_state_

-----------------------------------------------------------------------------
(***************************************************************************)
(* get_iv_asmpt: the nodes on inputs become an input assignment, in which  *)
(* the first node of a name wins, those on internal signals become         *)
(* formulas, followed by the assumptions of the caller.                    *)
(***************************************************************************)
InputAssignment(s) ==
  LET named(v) == {i \in 1 .. Len(s.stack) : /\ s.stack[i].point.branch_on_inputvar
                                             /\ s.stack[i].point.v_name = v}
  IN [v \in {u \in InVars : named(u) # {}} |-> TermOf[s.stack[Min(named(v))].value]]

\* Slip: the values of signals are not assumed.
DropsSignals(s) == Assumptions

ChoiceAssumptions(s) ==
  FlattenSeq([i \in 1 .. Len(s.stack) |->
                IF s.stack[i].point.branch_on_inputvar THEN <<>>
                ELSE <<SignalIs[s.stack[i].point.v_name][s.stack[i].value]>>])
    \o Assumptions

GoTo(from, to) == loc = from /\ loc' = to

-----------------------------------------------------------------------------
(***************************************************************************)
(* The graph of the design and the part of it that was recorded.           *)
(***************************************************************************)
\* A node the design can go on from; the query for reachability includes the
\* constraints on the next input, so a node without an allowed cell is
\* unreachable for check_reachable.
Live(n) == design.allowed[n] # {}

\* The live nodes that an allowed cell leads to from n0.
Successors(n0) == {n \in Nodes : Live(n) /\ \E c \in design.allowed[n0] :
                                               design.next[n0][c] = n}

\* The nodes that paths of allowed cells through live nodes lead to: those that
\* every set has that contains n0 and with each node its successors.
ReachableFrom(n0) ==
  {n \in Nodes : \A S \in SUBSET Nodes :
                   n0 \in S /\ (\A m \in S : Successors(m) \subseteq S) => n \in S}

RecordedNodes ==
  UNION {NodesOf(design, abs_state[i]) : i \in 1 .. Len(abs_state)}

Root == trace[1][1][CHOOSE v \in StateVars : TRUE]

\* A root that was left to a symbol stands for every node.
InitialNodes == IF Root \in Nodes THEN {Root} ELSE Nodes

\* The cells a caller's assumptions admit: an exploration simulates every step
\* under them.
Admitted(n) == {c \in design.allowed[n] : ToSet(Assumptions) \subseteq design.holds[n][c]}

AdmittedSuccessors(n0) == {n \in Nodes : Live(n) /\ \E c \in Admitted(n0) :
                                                       design.next[n0][c] = n}

AdmittedFrom(n0) ==
  {n \in Nodes : \A S \in SUBSET Nodes :
                   n0 \in S /\ (\A m \in S : AdmittedSuccessors(m) \subseteq S) => n \in S}

\* Cells under which all branching points have the same values lead to different
\* nodes.
Undetermined(n) ==
  \E c, e \in Admitted(n) :
    /\ \A p \in ToSet(BranchingPoint) : \A value \in Values(p.v_width) :
         HasValue(design, n, c, p, value) <=> HasValue(design, n, e, p, value)
    /\ design.next[n][c] # design.next[n][e]

\* The cells of n that are admitted and lead to live nodes; and that the first k
\* branching points have the same values under two of them.
LiveCells(d, n) ==
  {c \in d.allowed[n] : /\ ToSet(Assumptions) \subseteq d.holds[n][c]
                        /\ d.allowed[d.next[n][c]] # {}}

SameValues(d, n, c, e, k) ==
  \A i \in 1 .. k : \A value \in Values(BranchingPoint[i].v_width) :
    HasValue(d, n, c, BranchingPoint[i], value) <=> HasValue(d, n, e, BranchingPoint[i], value)

\* Designs whose constraints tie the inputs of a choice neither to one another nor
\* to the next inputs: inputs can change one by one, and the nodes that are reached
\* have a next cell in common.
UntiedDesigns ==
  {d \in Designs :
     \A n \in Nodes, k \in 0 .. Len(BranchingPoint) : \A c, e \in LiveCells(d, n) :
       SameValues(d, n, c, e, k) =>
         /\ d.allowed[d.next[n][c]] \cap d.allowed[d.next[n][e]] # {}
         /\ \A v \in InVars : LET mixed == [c EXCEPT ![v] = e[v]]
                              IN mixed \in LiveCells(d, n) /\ SameValues(d, n, c, mixed, k)}

Untied == design \in UntiedDesigns

\* The simulator is in the frame it was given in, with the init constraint only
\* and no input: another exploration starts from the same state.
SimulatorRestored ==
  /\ Len(trace) = 1
  /\ history_choice = <<>>
  /\ \A i \in DOMAIN history_assumptions[1] : history_assumptions[1][i].what = "init"
=============================================================================

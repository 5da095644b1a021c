------------------------ MODULE Completeness_proofs ------------------------
(***************************************************************************)
(* That the two traversals find every node they could, for all designs and *)
(* branching points.                                                       *)
(*                                                                         *)
(* The models of a copied state are the ways of the design under what was  *)
(* asked of each step, so a state that is found concrete is the node all   *)
(* cells under the choice lead to.  A search has passed a choice when each *)
(* node these cells lead to is recorded, or dead; this is settled one      *)
(* choice after the other until all are passed.  A traversal also has to   *)
(* recognise a state it has left, which it simulates once more with other  *)
(* symbols: the two have the same form, and so the same nodes.             *)
(***************************************************************************)
EXTENDS Traversal_proofs

-----------------------------------------------------------------------------
(***************************************************************************)
(* Which cells a choice stands for.                                        *)
(***************************************************************************)

\* An assignment of inputs that was completed from a choice.
ChosenBy(a, s) ==
  \A v \in InVars : IF v \in DOMAIN InputAssignment(s) THEN a[v] = InputAssignment(s)[v]
                    ELSE a[v] \in Sym

\* The input assignment of a choice has the values of the nodes on inputs.
LEMMA InputPoints ==
  ASSUME NEW s, Follows(s)
  PROVE  /\ \A v \in DOMAIN InputAssignment(s) :
              /\ v \in InVars /\ InputAssignment(s)[v] \in Val
              /\ \E i \in 1 .. Len(s.stack) :
                   /\ s.stack[i].point.branch_on_inputvar /\ s.stack[i].point.v_name = v
                   /\ InputAssignment(s)[v] = TermOf[s.stack[i].value]
         /\ \A i \in 1 .. Len(s.stack) : s.stack[i].point.branch_on_inputvar
              => s.stack[i].point.v_name \in DOMAIN InputAssignment(s)
<1> DEFINE named(v) == {i \in 1 .. Len(s.stack) : /\ s.stack[i].point.branch_on_inputvar
                                                  /\ s.stack[i].point.v_name = v}
           D == {u \in InVars : named(u) # {}}
           I == InputAssignment(s)
<1>1. I = [v \in D |-> TermOf[s.stack[Min(named(v))].value]]
  BY DEF InputAssignment
<1>2. DOMAIN I = D
  BY <1>1
<1>3. ASSUME NEW v \in D
      PROVE  /\ v \in InVars /\ I[v] \in Val
             /\ \E i \in 1 .. Len(s.stack) :
                  /\ s.stack[i].point.branch_on_inputvar /\ s.stack[i].point.v_name = v
                  /\ I[v] = TermOf[s.stack[i].value]
  <2>1. named(v) \in SUBSET Nat /\ named(v) # {} /\ v \in InVars
    OBVIOUS
  <2>2. PICK i : i = Min(named(v))
    OBVIOUS
  <2>3. i \in named(v)
    <3> HIDE DEF named
    <3> QED BY <2>1, <2>2, MinOfNats
  <2>4. I[v] = TermOf[s.stack[i].value]
    <3> HIDE DEF named, I
    <3> QED BY <1>1, <2>2
  <2>5. i \in 1 .. Len(s.stack) /\ s.stack[i].point.branch_on_inputvar /\ s.stack[i].point.v_name = v
    BY <2>3
  <2>6. /\ s.stack[i].point \in ToSet(BranchingPoint)
        /\ s.stack[i].value \in Values(s.stack[i].point.v_width)
    BY <2>5, NodeIsPoint
  <2>7. TermOf[s.stack[i].value] \in Val
    BY <2>5, <2>6, ExplorationAssumption
  <2> HIDE DEF I, named, D
  <2> QED BY <2>1, <2>4, <2>5, <2>7
<1>4. ASSUME NEW i \in 1 .. Len(s.stack), s.stack[i].point.branch_on_inputvar
      PROVE  s.stack[i].point.v_name \in D
  <2>1. /\ s.stack[i].point \in ToSet(BranchingPoint)
        /\ s.stack[i].value \in Values(s.stack[i].point.v_width)
    BY NodeIsPoint
  <2>2. s.stack[i].point.v_name \in InVars
    BY <1>4, <2>1, ExplorationAssumption
  <2>3. i \in named(s.stack[i].point.v_name)
    BY <1>4
  <2> QED BY <2>2, <2>3
<1> HIDE DEF D, I
<1>5. \A v \in DOMAIN I :
        /\ v \in InVars /\ I[v] \in Val
        /\ \E i \in 1 .. Len(s.stack) :
             /\ s.stack[i].point.branch_on_inputvar /\ s.stack[i].point.v_name = v
             /\ I[v] = TermOf[s.stack[i].value]
  BY <1>2, <1>3
<1> QED BY <1>2, <1>4, <1>5 DEF I

\* The assumptions of a choice: those of the caller, and the values of the nodes on
\* signals.
LEMMA ChoiceElements ==
  ASSUME NEW s, Follows(s), NEW f
  PROVE  f \in ToSet(ChoiceAssumptions(s)) <=>
           \/ f \in ToSet(Assumptions)
           \/ \E i \in 1 .. Len(s.stack) :
                /\ ~ s.stack[i].point.branch_on_inputvar
                /\ f = SignalIs[s.stack[i].point.v_name][s.stack[i].value]
<1> DEFINE n == Len(s.stack)
           F(i) == IF s.stack[i].point.branch_on_inputvar THEN <<>>
                   ELSE <<SignalIs[s.stack[i].point.v_name][s.stack[i].value]>>
           L == [i \in 1 .. n |-> F(i)]
<1>1. n \in Nat
  BY PrefixFacts
<1>2. ASSUME NEW i \in 1 .. n
      PROVE  /\ F(i) \in Seq(Pre)
             /\ f \in ToSet(F(i)) <=>
                  /\ ~ s.stack[i].point.branch_on_inputvar
                  /\ f = SignalIs[s.stack[i].point.v_name][s.stack[i].value]
  <2>1. CASE s.stack[i].point.branch_on_inputvar
    BY <2>1 DEF ToSet
  <2>2. CASE ~ s.stack[i].point.branch_on_inputvar
    <3>1. SignalIs[s.stack[i].point.v_name][s.stack[i].value] \in Pre
      BY <2>2, NodeIsPoint, ExplorationAssumption
    <3> QED BY <2>2, <3>1 DEF ToSet
  <2> QED BY <2>1, <2>2
<1>3. /\ L \in Seq(Seq(Pre)) /\ Len(L) = n /\ \A i \in 1 .. n : L[i] = F(i)
  <2> HIDE DEF F
  <2> QED BY <1>1, <1>2
<1>4. ChoiceAssumptions(s) = FlattenSeq(L) \o Assumptions
  BY DEF ChoiceAssumptions
<1> HIDE DEF L, F
<1>5. Assumptions \in Seq(Pre) /\ FlattenSeq(L) \in Seq(Pre)
  BY <1>3, FlattenType, ExplorationAssumption
<1>6. ToSet(ChoiceAssumptions(s)) = ToSet(FlattenSeq(L)) \cup ToSet(Assumptions)
  BY <1>4, <1>5, ConcatElements
<1>7. f \in ToSet(FlattenSeq(L)) <=> \E i \in 1 .. n : f \in ToSet(F(i))
  <2>1. \A i \in 1 .. n : ToSet(L[i]) \subseteq ToSet(FlattenSeq(L))
    BY <1>3, FlattenElements
  <2>2. CASE L = <<>>
    <3>1. FlattenSeq(L) = <<>> /\ n = 0
      BY <1>3, <2>2 DEF FlattenSeq
    <3> QED BY <3>1 DEF ToSet
  <2>3. CASE L # <<>>
    <3>1. f \in ToSet(FlattenSeq(L)) => \E i \in 1 .. Len(L) : f \in ToSet(L[i])
      BY <1>3, <2>3, FlattenHas
    <3> QED BY <1>3, <2>1, <3>1
  <2> QED BY <2>2, <2>3
<1> QED BY <1>2, <1>6, <1>7

\* The values that the branching points have in a node under a cell.
Combines(d, n, c, comb) ==
  comb \in Cells /\ \A i \in Levels : HasValue(d, n, c, BranchingPoint[i], comb[i])

LEMMA CellCombines ==
  ASSUME PointsDecide, NEW d \in Designs, NEW n \in Nodes, NEW c \in d.allowed[n]
  PROVE  \E comb : Combines(d, n, c, comb)
<1> DEFINE val(i) == CHOOSE value \in ValuesAt(i) : HasValue(d, n, c, BranchingPoint[i], value)
           comb == [i \in Levels |-> val(i)]
<1>1. ASSUME NEW i \in Levels
      PROVE  val(i) \in ValuesAt(i) /\ HasValue(d, n, c, BranchingPoint[i], val(i))
  <2>1. \E value \in ValuesAt(i) : HasValue(d, n, c, BranchingPoint[i], value)
    <3>1. BranchingPoint[i] \in ToSet(BranchingPoint)
      BY Points
    <3>2. \E value \in Values(BranchingPoint[i].v_width) :
            \A other \in Values(BranchingPoint[i].v_width) :
              HasValue(d, n, c, BranchingPoint[i], other) <=> other = value
      BY <3>1 DEF PointsDecide
    <3> QED BY <3>2 DEF ValuesAt
  <2> QED BY <2>1
<1> HIDE DEF val
<1>2. /\ comb \in [Levels -> UNION {ValuesAt(i) : i \in Levels}]
      /\ \A i \in Levels : comb[i] = val(i)
  BY <1>1
<1> HIDE DEF comb
<1>3. comb \in Cells
  BY <1>1, <1>2 DEF Cells
<1>4. Combines(d, n, c, comb)
  BY <1>1, <1>2, <1>3 DEF Combines
<1> QED BY <1>4

\* A cell with the values of a choice fits what the choice asks of the simulator.
LEMMA CoveredFits ==
  ASSUME NEW s, Follows(s), NEW a, ChosenBy(a, s), NEW d, NEW n, NEW c \in Cell,
         NEW comb, Combines(d, n, c, comb), Covers(Prefix(s), comb),
         ToSet(Assumptions) \subseteq d.holds[n][c]
  PROVE  Fits(a, c) /\ ToSet(ChoiceAssumptions(s)) \subseteq d.holds[n][c]
<1>1. ASSUME NEW i \in 1 .. Len(s.stack)
      PROVE  HasValue(d, n, c, s.stack[i].point, s.stack[i].value)
  <2>1. /\ i \in Levels /\ Prefix(s)[i] = s.stack[i].value /\ Len(Prefix(s)) = Len(s.stack)
    BY PrefixFacts
  <2>2. s.stack[i].point = BranchingPoint[i]
    BY NodeIsPoint
  <2>3. comb[i] = s.stack[i].value
    BY <2>1 DEF Covers
  <2> QED BY <2>1, <2>2, <2>3 DEF Combines
<1>2. Fits(a, c)
  <2> SUFFICES ASSUME NEW v \in InVars, a[v] \notin Sym
               PROVE  c[v] = IF a[v] \in Bits THEN a[v] ELSE CHOOSE b \in Bits : TRUE
    BY DEF Fits
  <2>1. v \in DOMAIN InputAssignment(s) /\ a[v] = InputAssignment(s)[v]
    BY DEF ChosenBy
  <2>2. PICK i \in 1 .. Len(s.stack) :
          /\ s.stack[i].point.branch_on_inputvar /\ s.stack[i].point.v_name = v
          /\ InputAssignment(s)[v] = TermOf[s.stack[i].value]
    BY <2>1, InputPoints
  <2>3. c[v] = TermOf[s.stack[i].value]
    BY <1>1, <2>2 DEF HasValue
  <2>4. c[v] \in Bits
    BY DEF Cell
  <2> QED BY <2>1, <2>2, <2>3, <2>4
<1>3. ASSUME NEW f \in ToSet(ChoiceAssumptions(s))
      PROVE  f \in d.holds[n][c]
  <2>1. CASE f \in ToSet(Assumptions)
    BY <2>1
  <2>2. ASSUME NEW i \in 1 .. Len(s.stack), ~ s.stack[i].point.branch_on_inputvar,
               f = SignalIs[s.stack[i].point.v_name][s.stack[i].value]
        PROVE  f \in d.holds[n][c]
    BY <1>1, <2>2 DEF HasValue
  <2> QED BY <2>1, <2>2, ChoiceElements
<1> QED BY <1>2, <1>3

\* The symbols that complete a choice do not matter for what fits it.
LEMMA ChosenAlike ==
  ASSUME NEW s, Follows(s), NEW a, NEW b, ChosenBy(a, s), ChosenBy(b, s), NEW c
  PROVE  Fits(a, c) => Fits(b, c)
<1> SUFFICES ASSUME Fits(a, c), NEW v \in InVars, b[v] \notin Sym
             PROVE  c[v] = IF b[v] \in Bits THEN b[v] ELSE CHOOSE z \in Bits : TRUE
  BY DEF Fits
<1>1. v \in DOMAIN InputAssignment(s) /\ b[v] = InputAssignment(s)[v] /\ a[v] = b[v]
  BY DEF ChosenBy
<1> QED BY <1>1 DEF Fits

\* With a value for each branching point, what fits the choice has these values.
LEMMA FullChoiceDecides ==
  ASSUME PointsDecide, NEW s, Follows(s), ~ CanDeepen(s), NEW a, ChosenBy(a, s),
         NEW d \in Designs, NEW n \in Nodes, NEW c \in d.allowed[n], NEW e \in d.allowed[n],
         Fits(a, c), ToSet(ChoiceAssumptions(s)) \subseteq d.holds[n][c],
         Fits(a, e), ToSet(ChoiceAssumptions(s)) \subseteq d.holds[n][e],
         NEW p \in ToSet(BranchingPoint), NEW value \in Values(p.v_width)
  PROVE  HasValue(d, n, c, p, value) <=> HasValue(d, n, e, p, value)
<1>1. PICK i \in Levels : p = BranchingPoint[i]
  BY DEF ToSet, Levels
<1>2. /\ i \in 1 .. Len(s.stack) /\ s.stack[i].point = p
      /\ s.stack[i].value \in Values(p.v_width)
  <2>1. Len(s.stack) = Len(BranchingPoint)
    BY DEF Follows, CanDeepen
  <2>2. i \in 1 .. Len(s.stack)
    BY <1>1, <2>1 DEF Levels
  <2> QED BY <1>1, <2>2, NodeIsPoint
<1>3. CASE p.branch_on_inputvar
  <2> DEFINE v == p.v_name
  <2>1. v \in DOMAIN InputAssignment(s) /\ v \in InVars /\ InputAssignment(s)[v] \in Val
    BY <1>2, <1>3, InputPoints
  <2>2. a[v] \notin Sym
    BY <2>1, SymSimAssumption DEF ChosenBy
  <2>3. c[v] = e[v]
    BY <2>1, <2>2 DEF Fits
  <2> QED BY <1>3, <2>3 DEF HasValue
<1>4. CASE ~ p.branch_on_inputvar
  <2> DEFINE w == s.stack[i].value
  <2>1. SignalIs[p.v_name][w] \in ToSet(ChoiceAssumptions(s))
    BY <1>2, <1>4, ChoiceElements
  <2>2. HasValue(d, n, c, p, w) /\ HasValue(d, n, e, p, w)
    BY <1>4, <2>1 DEF HasValue
  <2> HIDE DEF w
  <2>3. w \in Values(p.v_width)
    BY <1>2 DEF w
  <2>4. PICK x \in Values(p.v_width) : \A other \in Values(p.v_width) :
          HasValue(d, n, c, p, other) <=> other = x
    BY DEF PointsDecide
  <2>5. PICK y \in Values(p.v_width) : \A other \in Values(p.v_width) :
          HasValue(d, n, e, p, other) <=> other = y
    BY DEF PointsDecide
  <2> QED BY <2>2, <2>3, <2>4, <2>5
<1> QED BY <1>3, <1>4
-----------------------------------------------------------------------------
(***************************************************************************)
(* What the calls of the simulator leave alone.                            *)
(***************************************************************************)

\* The symbols of the inputs in force.
SymsOfChoices(H) == UNION {SymsOf(H[i].var_assign) : i \in 1 .. Len(H)}

LiveSyms == SymsOfChoices(history_choice)

SameChoice(h, i) == h.assumptions = i.assumptions /\ h.var_assign = i.var_assign

\* Frames and choices that remain are the same, and inputs that come into force
\* have new symbols.
Calm ==
  /\ syms \subseteq syms'
  /\ LiveSyms' \subseteq LiveSyms \cup (syms' \ syms)
  /\ \A j \in 1 .. Len(trace) : j <= Len(trace') => trace'[j] = trace[j]
  /\ \A j \in 1 .. Len(history_choice) :
       j <= Len(history_choice') => SameChoice(history_choice[j], history_choice'[j])

\* Choices that remain as they are bring no symbols into force.
LEMMA FewerChoices ==
  ASSUME NEW H \in Seq(ChoiceItem), NEW G \in Seq(ChoiceItem), Len(G) <= Len(H),
         \A j \in 1 .. Len(G) : SameChoice(H[j], G[j])
  PROVE  SymsOfChoices(G) \subseteq SymsOfChoices(H)
<1> SUFFICES ASSUME NEW j \in 1 .. Len(G)
             PROVE  SymsOf(G[j].var_assign) \subseteq SymsOfChoices(H)
  BY DEF SymsOfChoices
<1>1. j \in 1 .. Len(H)
  OBVIOUS
<1>2. G[j].var_assign = H[j].var_assign
  BY DEF SameChoice
<1> QED BY <1>1, <1>2 DEF SymsOfChoices

LEMMA CopyIsCalm ==
  ASSUME Simulating, NEW pre \in PreLists, get_curr_state(pre)
  PROVE  Calm /\ LiveSyms' = LiveSyms
<1>1. trace' = trace /\ history_choice' = history_choice
  BY CopyCall
<1>2. syms \subseteq syms'
  BY DEF get_curr_state, get_curr_state_pending, get_curr_state_pushed, names, new_var
<1>3. LiveSyms' = LiveSyms
  BY <1>1 DEF LiveSyms
<1> QED BY <1>1, <1>2, <1>3 DEF Calm, SameChoice

LEMMA StepIsCalm ==
  ASSUME Simulating, sim_one_step
  PROVE  Calm /\ LiveSyms' = LiveSyms /\ Len(history_choice') = Len(history_choice)
<1> DEFINE H == history_choice
           G == history_choice'
           n == Len(H)
<1>1. G = [H EXCEPT ![n].UsedInSim = TRUE] /\ UNCHANGED syms /\ Pending
  BY DEF sim_one_step, names
<1>2. H \in Seq(ChoiceItem) /\ H # <<>> /\ Simulating'
  BY <1>1, StepCall DEF Simulating, IInv, TypeOK, Pending
<1>3. G \in Seq(ChoiceItem) /\ Len(G) = Len(H)
  BY <1>1, <1>2 DEF Simulating, IInv, TypeOK
<1>4. \A j \in 1 .. Len(H) : SameChoice(H[j], G[j]) /\ SameChoice(G[j], H[j])
  BY <1>1, <1>2 DEF SameChoice, ChoiceItem
<1> HIDE DEF H, G
<1>5. SymsOfChoices(G) \subseteq SymsOfChoices(H) /\ SymsOfChoices(H) \subseteq SymsOfChoices(G)
  BY <1>2, <1>3, <1>4, FewerChoices
<1>6. \A j \in 1 .. Len(trace) : trace'[j] = trace[j]
  BY StepCall
<1> QED BY <1>1, <1>3, <1>4, <1>5, <1>6 DEF Calm, LiveSyms, H, G

LEMMA BacktrackIsCalm ==
  ASSUME Simulating, ~ Pending, backtrack
  PROVE  Calm /\ LiveSyms' = LiveSyms /\ Len(history_choice') = Len(history_choice)
<1> DEFINE H == history_choice
           G == history_choice'
           n == Len(H)
<1>1. G = [H EXCEPT ![n].UsedInSim = FALSE] /\ UNCHANGED syms /\ H # <<>>
  BY DEF backtrack, names
<1>2. H \in Seq(ChoiceItem) /\ Simulating'
  BY <1>1, BacktrackCall DEF Simulating, IInv, TypeOK
<1>3. G \in Seq(ChoiceItem) /\ Len(G) = Len(H)
  BY <1>1, <1>2 DEF Simulating, IInv, TypeOK
<1>4. \A j \in 1 .. Len(H) : SameChoice(H[j], G[j]) /\ SameChoice(G[j], H[j])
  BY <1>1, <1>2 DEF SameChoice, ChoiceItem
<1> HIDE DEF H, G
<1>5. SymsOfChoices(G) \subseteq SymsOfChoices(H) /\ SymsOfChoices(H) \subseteq SymsOfChoices(G)
  BY <1>2, <1>3, <1>4, FewerChoices
<1>6. \A j \in 1 .. Len(trace) : j <= Len(trace') => trace'[j] = trace[j]
  <2>1. Len(trace) \in Nat /\ Len(trace') = Len(trace) - 1
        /\ \A k \in 1 .. Len(trace) - 1 : trace'[k] = trace[k]
    BY BacktrackCall, Shape DEF Simulating, IInv
  <2> QED BY <2>1
<1> QED BY <1>1, <1>3, <1>4, <1>5, <1>6 DEF Calm, LiveSyms, H, G

LEMMA UndoIsCalm ==
  ASSUME Simulating, undo_set_input
  PROVE  /\ Calm /\ Len(history_choice') = Len(history_choice) - 1
         /\ history_choice' = Front(history_choice) /\ history_choice # <<>>
<1> DEFINE H == history_choice
           G == history_choice'
<1>1. G = Front(H) /\ UNCHANGED syms /\ Pending /\ trace' = trace
  BY DEF undo_set_input, names
<1>2. H \in Seq(ChoiceItem) /\ H # <<>>
  BY <1>1 DEF Simulating, IInv, TypeOK, Pending
<1> HIDE DEF H, G
<1>3. /\ G \in Seq(ChoiceItem) /\ Len(G) = Len(H) - 1 /\ Len(H) \in Nat
      /\ \A j \in 1 .. Len(H) - 1 : G[j] = H[j]
  BY <1>1, <1>2, FrontType
<1>4. \A j \in 1 .. Len(H) : j <= Len(G) => SameChoice(H[j], G[j])
  BY <1>3 DEF SameChoice
<1>5. Len(G) <= Len(H) /\ \A j \in 1 .. Len(G) : SameChoice(H[j], G[j])
  BY <1>3, <1>4
<1>6. SymsOfChoices(G) \subseteq SymsOfChoices(H)
  BY <1>2, <1>3, <1>5, FewerChoices
<1> QED BY <1>1, <1>2, <1>3, <1>4, <1>6 DEF Calm, LiveSyms, H, G

\* The choice that set_input adds.
LEMMA InputIsCalm ==
  ASSUME Simulating, NEW s, Follows(s), set_input(InputAssignment(s), ChoiceAssumptions(s))
  PROVE  /\ Calm /\ Len(history_choice) \in Nat
         /\ Len(history_choice') = Len(history_choice) + 1
         /\ history_choice'[Len(history_choice) + 1].assumptions = ChoiceAssumptions(s)
         /\ ChosenBy(history_choice'[Len(history_choice) + 1].var_assign, s)
<1> DEFINE H == history_choice
           given == InputAssignment(s)
           pre == ChoiceAssumptions(s)
           missing == Unassigned(InVars, given)
           inputs == Complete(InVars, given)
           c == [assumptions |-> pre, var_assign |-> inputs, UsedInSim |-> FALSE,
                 assmpt_len |-> Len(Last(history_assumptions))]
           new == {free_make_symbol(v) : v \in missing}
<1>0. given \in Given(InVars) /\ pre \in PreLists
  BY InputsAreGiven, FormulasAreGiven
<1> HIDE DEF given, pre
<1>1. /\ CanMint(missing) /\ history_choice' = Append(H, c) /\ new_var(missing) /\ trace' = trace
  BY DEF set_input, given, pre
<1>2. /\ c.assumptions = pre /\ c.var_assign = inputs
  OBVIOUS
<1>3. name_cnt \in [Vars -> 0 .. MaxCnt] /\ syms \subseteq Sym /\ H \in Seq(ChoiceItem)
  BY DEF Simulating, IInv, TypeOK
<1>4. missing \in SUBSET Vars /\ InVars \in SUBSET Vars
  BY DEF Unassigned, Vars
<1>5. syms \subseteq syms' /\ new \subseteq syms' /\ new \cap syms = {} /\ new \subseteq Sym
  <2> HIDE DEF missing
  <2> QED BY <1>1, <1>3, <1>4, NewVarType
<1>6. SymsOf(inputs) \subseteq new
  BY <1>0, <1>4, CompleteSyms
<1>7. ChosenBy(inputs, s)
  <2> SUFFICES ASSUME NEW v \in InVars
               PROVE  IF v \in DOMAIN given THEN inputs[v] = given[v] ELSE inputs[v] \in Sym
    BY DEF ChosenBy, given
  <2>1. inputs[v] = IF v \in DOMAIN given THEN given[v] ELSE free_make_symbol(v)
    BY DEF Complete
  <2>2. v \notin DOMAIN given => free_make_symbol(v) \in new
    BY DEF Unassigned
  <2> HIDE DEF inputs, new
  <2> QED BY <1>5, <2>1, <2>2
<1> HIDE DEF c, inputs, new, missing
<1> DEFINE G == history_choice'
<1>8. /\ Len(H) \in Nat /\ Len(G) = Len(H) + 1 /\ G[Len(H) + 1] = c
      /\ \A j \in 1 .. Len(H) : G[j] = H[j]
  BY <1>1, <1>3
<1>9. \A j \in 1 .. Len(H) : SameChoice(H[j], G[j])
  BY <1>8 DEF SameChoice
<1>10. LiveSyms' \subseteq LiveSyms \cup (syms' \ syms)
  <2> SUFFICES ASSUME NEW i \in 1 .. Len(G)
               PROVE  SymsOf(G[i].var_assign) \subseteq LiveSyms \cup (syms' \ syms)
    BY DEF LiveSyms, SymsOfChoices
  <2>1. CASE i = Len(H) + 1
    BY <1>2, <1>5, <1>6, <1>8, <2>1
  <2>2. CASE i # Len(H) + 1
    <3>1. i \in 1 .. Len(H)
      BY <1>8, <2>2
    <3> QED BY <1>8, <3>1 DEF LiveSyms, SymsOfChoices
  <2> QED BY <2>1, <2>2
<1>11. Calm
  BY <1>1, <1>5, <1>9, <1>10 DEF Calm
<1> QED BY <1>2, <1>7, <1>8, <1>11 DEF given, pre
-----------------------------------------------------------------------------
(***************************************************************************)
(* States copied from frames.                                              *)
(***************************************************************************)

\* s was copied from a frame with the assignments p, with one more input that has
\* symbols of S but not of F; a single input does not decide where it is.
Copied(d, S, F, s, p, P) ==
  /\ \E e \in [InVars -> Sym] : /\ SymsOf(e) \subseteq S \ F
                                /\ Described(s, Append(p, e), P)
                                /\ Steady(d, Append(p, e), P)
  /\ NodesOf(d, s) # {}

LEMMA CopiedStays ==
  ASSUME NEW d, NEW S, NEW F, NEW s, NEW p, NEW P, Copied(d, S, F, s, p, P),
         NEW S2, NEW F2, S \subseteq S2, F2 \cap S \subseteq F
  PROVE  Copied(d, S2, F2, s, p, P)
<1>1. PICK e \in [InVars -> Sym] : /\ SymsOf(e) \subseteq S \ F
                                   /\ Described(s, Append(p, e), P)
                                   /\ Steady(d, Append(p, e), P)
  BY DEF Copied
<1>2. SymsOf(e) \subseteq S2 \ F2
  BY <1>1
<1> QED BY <1>1, <1>2 DEF Copied

\* A path that a frame and one more input make.
LEMMA CopyPath ==
  ASSUME Simulating, RootGiven, NEW k \in 1 .. Len(trace), NEW e \in [InVars -> Sym]
  PROVE  /\ Len(Append(trace[k], e)) = k + 1
         /\ Append(trace[k], e)[1] = trace[1][1]
         /\ \A i \in 2 .. k : Append(trace[k], e)[i] = history_choice[i - 1].var_assign
         /\ Append(trace[k], e)[k + 1] = e
<1> DEFINE f == trace[k]
<1>1. /\ f \in Seq(Assignment) /\ Len(f) = k /\ f[1] = trace[1][1]
      /\ \A i \in 2 .. k : f[i] = history_choice[i - 1].var_assign
  BY FramesAre DEF Simulating, RootGiven
<1>2. e \in Assignment
  BY DEF Assignment
<1>3. k \in Nat \ {0}
  OBVIOUS
<1> HIDE DEF f
<1>4. /\ Len(Append(f, e)) = k + 1 /\ \A i \in 1 .. k : Append(f, e)[i] = f[i]
      /\ Append(f, e)[k + 1] = e
  BY <1>1, <1>2, AppendType
<1>5. \A i \in 2 .. k : i \in 1 .. k
  BY <1>3
<1> QED BY <1>1, <1>3, <1>4, <1>5 DEF f

LEMMA PlanIs ==
  ASSUME NEW n \in Nat \ {0}, NEW pre
  PROVE  /\ \A i \in 2 .. n : PlanAt(n, pre)[i] = ToSet(history_choice[i - 1].assumptions)
         /\ PlanAt(n, pre)[n + 1] = ToSet(pre)
<1>1. \A i \in 2 .. n : i \in 2 .. n + 1 /\ i <= n
  OBVIOUS
<1>2. n + 1 \in 2 .. n + 1 /\ ~ (n + 1 <= n)
  OBVIOUS
<1> QED BY <1>1, <1>2 DEF PlanAt

\* Frames and plans stay.
LEMMA PlanStays ==
  ASSUME Calm, NEW n \in Nat \ {0}, n - 1 <= Len(history_choice), n - 1 <= Len(history_choice'),
         NEW pre, Len(history_choice) \in Nat
  PROVE  PlanAt(n, pre)' = PlanAt(n, pre)
<1>1. ASSUME NEW i \in 2 .. n + 1
      PROVE  ToSet(IF i <= n THEN history_choice'[i - 1].assumptions ELSE pre)
               = ToSet(IF i <= n THEN history_choice[i - 1].assumptions ELSE pre)
  <2>1. CASE i <= n
    <3>1. i - 1 \in 1 .. Len(history_choice) /\ i - 1 <= Len(history_choice')
      BY <2>1
    <3>2. SameChoice(history_choice[i - 1], history_choice'[i - 1])
      BY <3>1 DEF Calm
    <3> QED BY <2>1, <3>2 DEF SameChoice
  <2>2. CASE ~ (i <= n)
    BY <2>2
  <2> QED BY <2>1, <2>2
<1> QED BY <1>1 DEF PlanAt
-----------------------------------------------------------------------------
(***************************************************************************)
(* The choices of a state, and what they have led to.                      *)
(***************************************************************************)

LEMMA SameIsCalm ==
  ASSUME UNCHANGED vars
  PROVE  /\ Calm /\ LiveSyms' = LiveSyms /\ history_choice' = history_choice
         /\ syms' = syms /\ trace' = trace /\ ret' = ret
<1>1. /\ history_choice' = history_choice /\ syms' = syms /\ trace' = trace
      /\ ret' = ret
  BY DEF vars
<1>2. LiveSyms' = LiveSyms
  BY <1>1 DEF LiveSyms, SymsOfChoices
<1> QED BY <1>1, <1>2 DEF Calm, SameChoice

\* There is a choice between each frame and the next one.
LEMMA FramesAndChoices ==
  ASSUME Simulating
  PROVE  /\ Len(trace) \in Nat \ {0} /\ Len(history_choice) \in Nat
         /\ Len(trace) = Len(history_choice) + (IF Pending THEN 0 ELSE 1)
         /\ Len(trace) - 1 <= Len(history_choice)
BY Shape DEF Simulating, IInv, StacksAligned

\* The symbols of an input in force are live.
LEMMA ChoiceIsLive ==
  ASSUME NEW i \in 1 .. Len(history_choice)
  PROVE  SymsOf(history_choice[i].var_assign) \subseteq LiveSyms
BY DEF LiveSyms, SymsOfChoices

\* A frame goes on where the one below it stops.
LEMMA NextOnBranch ==
  ASSUME Simulating, RootGiven, NEW k \in 1 .. Len(trace), k + 1 = Len(trace),
         NEW i \in [InVars -> Sym], NEW e \in [InVars -> Sym], NEW pre
  PROVE  GoesOn(Append(trace[k], i), PlanAt(k, pre),
                Append(trace[k + 1], e), PlanAt(k + 1, <<>>))
<1>1. k \in Nat \ {0} /\ k + 1 \in Nat \ {0} /\ k + 1 \in 1 .. Len(trace)
  BY FramesAndChoices
<1> DEFINE q == Append(trace[k], i)
           p == Append(trace[k + 1], e)
           Q == PlanAt(k, pre)
           P == PlanAt(k + 1, <<>>)
<1>2. /\ Len(q) = k + 1 /\ q[1] = trace[1][1]
      /\ \A j \in 2 .. k : q[j] = history_choice[j - 1].var_assign
  BY CopyPath
<1>3. /\ Len(p) = (k + 1) + 1 /\ p[1] = trace[1][1] /\ p[(k + 1) + 1] = e
      /\ \A j \in 2 .. k + 1 : p[j] = history_choice[j - 1].var_assign
  BY <1>1, CopyPath
<1>4. \A j \in 2 .. k : Q[j] = ToSet(history_choice[j - 1].assumptions)
  BY <1>1, PlanIs
<1>5. /\ \A j \in 2 .. k + 1 : P[j] = ToSet(history_choice[j - 1].assumptions)
      /\ P[(k + 1) + 1] = ToSet(<<>>)
  BY <1>1, PlanIs
<1>6. ToSet(<<>>) = {}
  BY DEF ToSet
<1> HIDE DEF q, p, Q, P
<1>7. \A j \in 2 .. Len(q) - 1 : j \in 2 .. k /\ j \in 2 .. k + 1
  BY <1>1, <1>2
<1>8. \A j \in 2 .. Len(q) - 1 : p[j] = q[j] /\ P[j] = Q[j]
  BY <1>2, <1>3, <1>4, <1>5, <1>7
<1>9. Len(p) = Len(q) + 1
  BY <1>1, <1>2, <1>3
<1>10. GoesOn(q, Q, p, P)
  BY <1>2, <1>3, <1>5, <1>6, <1>8, <1>9 DEF GoesOn
<1> QED BY <1>10 DEF q, p, Q, P

\* A state copied from a frame further down asks no more than its choice does.
LEMMA BelowOnBranch ==
  ASSUME Simulating, RootGiven, NEW j \in 1 .. Len(trace), NEW k \in 1 .. Len(trace), j < k,
         NEW i \in [InVars -> Sym], NEW e \in [InVars -> Sym],
         NEW pre, ToSet(pre) \subseteq ToSet(history_choice[j].assumptions), NEW post
  PROVE  Looser(Append(trace[j], i), PlanAt(j, pre), Append(trace[k], e), PlanAt(k, post))
<1>1. j \in Nat \ {0} /\ k \in Nat \ {0}
  BY FramesAndChoices
<1> DEFINE q == Append(trace[j], i)
           p == Append(trace[k], e)
           Q == PlanAt(j, pre)
           P == PlanAt(k, post)
<1>2. /\ Len(q) = j + 1 /\ q[1] = trace[1][1] /\ q[j + 1] = i
      /\ \A x \in 2 .. j : q[x] = history_choice[x - 1].var_assign
  BY CopyPath
<1>3. /\ Len(p) = k + 1 /\ p[1] = trace[1][1]
      /\ \A x \in 2 .. k : p[x] = history_choice[x - 1].var_assign
  BY CopyPath
<1>4. /\ \A x \in 2 .. j : Q[x] = ToSet(history_choice[x - 1].assumptions)
      /\ Q[j + 1] = ToSet(pre)
  BY <1>1, PlanIs
<1>5. \A x \in 2 .. k : P[x] = ToSet(history_choice[x - 1].assumptions)
  BY <1>1, PlanIs
<1> HIDE DEF q, p, Q, P
<1>6. ASSUME NEW x \in 2 .. Len(q)
      PROVE  Q[x] \subseteq P[x] /\ \A c \in Cell : Fits(p[x], c) => Fits(q[x], c)
  <2>1. CASE x \in 2 .. j
    <3>1. x \in 2 .. k
      BY <1>1, <2>1
    <3>2. q[x] = p[x] /\ Q[x] = P[x]
      BY <1>2, <1>3, <1>4, <1>5, <2>1, <3>1
    <3> QED BY <3>2
  <2>2. CASE x = j + 1
    <3>1. j + 1 \in 2 .. k /\ (j + 1) - 1 = j
      BY <1>1
    <3>2. P[j + 1] = ToSet(history_choice[j].assumptions)
      BY <1>5, <3>1
    <3>3. \A c : Fits(q[x], c)
      BY <1>2, <2>2, SymbolsFit
    <3> QED BY <1>4, <2>2, <3>2, <3>3
  <2>3. x \in 2 .. j \/ x = j + 1
    BY <1>1, <1>2
  <2> QED BY <2>1, <2>2, <2>3
<1>7. Len(q) <= Len(p)
  BY <1>1, <1>2, <1>3
<1>8. Looser(q, Q, p, P)
  BY <1>2, <1>3, <1>6, <1>7 DEF Looser
<1> QED BY <1>8 DEF q, p, Q, P

\* The state that was just copied, with the symbols of its last input: these are
\* of no choice.
RetIs(e) ==
  /\ e \in [InVars -> Sym] /\ SymsOf(e) \subseteq syms \ LiveSyms
  /\ Described(ret, Append(trace[Len(trace)], e), PlanAt(Len(trace), <<>>))

\* The cells of the node that were passed lead to nodes of R, if they are admitted.
Explored(d, C, s, R) ==
  \A x \in NodesOf(d, C) : \A a \in d.allowed[x] :
    /\ ToSet(Assumptions) \subseteq d.holds[x][a]
    /\ d.allowed[d.next[x][a]] # {}
    /\ \E comb : Combines(d, x, a, comb) /\ (s.no_next_choice \/ Before(comb, Prefix(s)))
    => d.next[x][a] \in R

\* All cells were passed.
Closed(d, C, R) ==
  \A x \in NodesOf(d, C) : \A a \in d.allowed[x] :
    ToSet(Assumptions) \subseteq d.holds[x][a] /\ d.allowed[d.next[x][a]] # {}
      => d.next[x][a] \in R

\* The input of the choice c is the one s stands for.
Chosen(c, s) ==
  ChosenBy(c.var_assign, s) /\ c.assumptions = ChoiceAssumptions(s)

LEMMA ExploredMore ==
  ASSUME NEW d, NEW C, NEW s, NEW R, Explored(d, C, s, R), NEW R2, R \subseteq R2
  PROVE  Explored(d, C, s, R2)
BY DEF Explored

LEMMA ClosedMore ==
  ASSUME NEW d, NEW C, NEW R, Closed(d, C, R), NEW R2, R \subseteq R2
  PROVE  Closed(d, C, R2)
BY DEF Closed

\* A new stack has passed nothing.
LEMMA NewExplored ==
  ASSUME NEW d, NEW C, NEW R
  PROVE  Explored(d, C, NewPerStateStack, R)
<1>1. Prefix(NewPerStateStack) = <<>> /\ Len(<<>>) = 0 /\ ~ NewPerStateStack.no_next_choice
  BY DEF Prefix, NewPerStateStack
<1>2. \A comb : ~ Before(comb, <<>>)
  BY <1>1 DEF Before
<1> QED BY <1>1, <1>2 DEF Explored

\* A deeper choice passes nothing.
LEMMA DeeperPasses ==
  ASSUME NEW s, Follows(s), ~ s.no_next_choice, CanDeepen(s),
         NEW comb \in Cells, Before(comb, Prefix(deeper_choice(s)))
  PROVE  Before(comb, Prefix(s))
<1> DEFINE t == deeper_choice(s)
           n == Len(s.stack)
<1>1. /\ Follows(t) /\ n \in Nat /\ n + 1 \in Levels /\ Len(t.stack) = n + 1
      /\ t.stack[n + 1].value = 0 /\ \A i \in 1 .. n : t.stack[i] = s.stack[i]
  BY DeeperChoice
<1> HIDE DEF t
<1>2. /\ Len(Prefix(s)) = n /\ \A i \in 1 .. n : Prefix(s)[i] = s.stack[i].value
  BY PrefixFacts
<1>3. /\ Len(Prefix(t)) = n + 1 /\ \A i \in 1 .. n + 1 : Prefix(t)[i] = t.stack[i].value
  BY <1>1, PrefixFacts
<1> HIDE DEF n
<1>4. PICK i \in 1 .. n + 1 : comb[i] < Prefix(t)[i] /\ \A j \in 1 .. i - 1 : comb[j] = Prefix(t)[j]
  BY <1>3 DEF Before, t
<1>5. i # n + 1
  <2> SUFFICES ASSUME i = n + 1 PROVE FALSE
    OBVIOUS
  <2>1. n + 1 \in 1 .. Len(t.stack)
    BY <1>1
  <2>2. comb[n + 1] \in Nat
    BY <1>1, <2>1, CellFacts
  <2>3. n + 1 \in 1 .. n + 1
    BY <1>1
  <2>4. comb[n + 1] < Prefix(t)[n + 1] /\ Prefix(t)[n + 1] = 0
    BY <1>1, <1>3, <1>4, <2>3
  <2> QED BY <2>2, <2>4
<1>6. i \in 1 .. n /\ \A j \in 1 .. i - 1 : j \in 1 .. n /\ j \in 1 .. n + 1
  BY <1>1, <1>4, <1>5
<1>7. \A j \in 1 .. n : Prefix(t)[j] = Prefix(s)[j]
  <2>1. \A j \in 1 .. n : j \in 1 .. n + 1
    BY <1>1
  <2> QED BY <1>1, <1>2, <1>3, <2>1
<1> QED BY <1>2, <1>4, <1>6, <1>7 DEF Before

LEMMA DeeperExplored ==
  ASSUME NEW d, NEW C, NEW s, NEW R, Follows(s), ~ s.no_next_choice, CanDeepen(s),
         Explored(d, C, s, R)
  PROVE  Explored(d, C, deeper_choice(s), R)
<1> DEFINE t == deeper_choice(s)
<1>1. t.no_next_choice = FALSE
  BY DeeperChoice
<1>2. \A x, a, comb : Combines(d, x, a, comb) /\ Before(comb, Prefix(t)) => Before(comb, Prefix(s))
  BY DeeperPasses DEF Combines
<1> HIDE DEF t
<1>3. Explored(d, C, t, R)
  BY <1>1, <1>2 DEF Explored
<1> QED BY <1>3 DEF t
-----------------------------------------------------------------------------
\* A node a state stands for is one of the design.
LEMMA NodesAreNodes ==
  ASSUME NEW d, IsDesign(d), NEW s, NEW p, NEW P, Described(s, p, P)
  PROVE  NodesOf(d, s) \subseteq Nodes
<1> SUFFICES ASSUME NEW x \in NodesOf(d, s) PROVE x \in Nodes
  OBVIOUS
<1>1. PICK c, g : Way(d, p, P, c, g) /\ g[Len(p) - 1] = x
  BY NodesEndWays
<1>2. Len(p) \in Nat /\ Len(p) > 1
  BY ClearFacts DEF Described
<1>3. Len(p) - 1 \in 1 .. Len(p) - 1
  BY <1>2
<1>4. g \in [1 .. Len(p) - 1 -> Nodes]
  BY <1>1 DEF Way
<1> QED BY <1>1, <1>3, <1>4

\* With no choice left, all cells were passed.
LEMMA AllPassed ==
  ASSUME PointsDecide, NEW d \in Designs, NEW C, NodesOf(d, C) \subseteq Nodes, NEW s,
         s.no_next_choice, NEW R, Explored(d, C, s, R)
  PROVE  Closed(d, C, R)
<1> SUFFICES ASSUME NEW x \in NodesOf(d, C), NEW a \in d.allowed[x],
                    ToSet(Assumptions) \subseteq d.holds[x][a],
                    d.allowed[d.next[x][a]] # {}
             PROVE  d.next[x][a] \in R
  BY DEF Closed
<1>1. x \in Nodes
  OBVIOUS
<1>2. \E comb : Combines(d, x, a, comb)
  BY <1>1, CellCombines
<1> QED BY <1>2 DEF Explored

\* The state C that the choice s was taken in, and the state it has led to.
Tried(C, k, i, pre, s, e) ==
  /\ k \in 1 .. Len(trace) /\ k + 1 = Len(trace) /\ i \in [InVars -> Sym]
  /\ Described(C, Append(trace[k], i), PlanAt(k, pre))
  /\ ToSet(pre) \subseteq ToSet(Assumptions)
  /\ Follows(s) /\ has_valid_choice(s) /\ Chosen(history_choice[k], s)
  /\ RetIs(e)

\* The second path has the choice in the place of the last input of the first.
Links(C, s, q, Q, p, P) ==
  /\ Described(C, q, Q) /\ Described(ret, p, P) /\ GoesOn(q, Q, p, P)
  /\ Looser(q, Q, p, P) /\ Len(p) = Len(q) + 1
  /\ ChosenBy(p[Len(q)], s) /\ P[Len(q)] = ToSet(ChoiceAssumptions(s))

LEMMA TriedPath ==
  ASSUME Simulating, RootGiven, NEW C, NEW k, NEW i, NEW pre, NEW s, NEW e,
         Tried(C, k, i, pre, s, e)
  PROVE  Links(C, s, Append(trace[k], i), PlanAt(k, pre),
               Append(trace[k + 1], e), PlanAt(k + 1, <<>>))
<1> DEFINE q == Append(trace[k], i)
           p == Append(trace[k + 1], e)
           Q == PlanAt(k, pre)
           P == PlanAt(k + 1, <<>>)
<1>1. /\ k \in 1 .. Len(trace) /\ k + 1 = Len(trace) /\ i \in [InVars -> Sym]
      /\ e \in [InVars -> Sym] /\ k \in Nat \ {0} /\ k + 1 \in Nat \ {0}
      /\ k + 1 \in 1 .. Len(trace) /\ k < k + 1
  BY FramesAndChoices DEF Tried, RetIs
<1>2. Described(C, q, Q) /\ Described(ret, p, P)
  BY <1>1 DEF Tried, RetIs
<1>3. GoesOn(q, Q, p, P)
  BY <1>1, NextOnBranch
<1>4. /\ history_choice[k].assumptions = ChoiceAssumptions(s)
      /\ ChosenBy(history_choice[k].var_assign, s)
  BY DEF Tried, Chosen
<1>5. ToSet(pre) \subseteq ToSet(history_choice[k].assumptions)
  <2>1. \A f \in ToSet(Assumptions) : f \in ToSet(ChoiceAssumptions(s))
    BY ChoiceElements DEF Tried
  <2> QED BY <1>4, <2>1 DEF Tried
<1>6. Looser(q, Q, p, P)
  BY <1>1, <1>5, BelowOnBranch
<1>7. Len(q) = k + 1 /\ k + 1 \in 2 .. k + 1
  BY <1>1, CopyPath
<1>8. p[k + 1] = history_choice[(k + 1) - 1].var_assign
  BY <1>1, <1>7, CopyPath
<1>9. P[k + 1] = ToSet(history_choice[(k + 1) - 1].assumptions)
  BY <1>1, <1>7, PlanIs
<1>10. (k + 1) - 1 = k
  BY <1>1
<1> HIDE DEF q, p, Q, P
<1>11. Links(C, s, q, Q, p, P)
  BY <1>2, <1>3, <1>4, <1>6, <1>7, <1>8, <1>9, <1>10 DEF GoesOn, Links
<1> QED BY <1>11 DEF q, p, Q, P

\* Going on to the next choice passes the cells that fit this one; all of them lead
\* to the state that was reached.
LEMMA ChoicePassed ==
  ASSUME Simulating, RootGiven, IsDesign(design), NEW C, NEW k, NEW i, NEW pre, NEW s, NEW e,
         Tried(C, k, i, pre, s, e), NEW R, NodesOf(design, ret) \subseteq R,
         Explored(design, C, s, R)
  PROVE  Explored(design, C, next_choice(s), R)
<1> DEFINE d == design
           t == next_choice(s)
<1> SUFFICES ASSUME NEW x \in NodesOf(d, C), NEW a \in d.allowed[x],
                    ToSet(Assumptions) \subseteq d.holds[x][a],
                    d.allowed[d.next[x][a]] # {},
                    NEW comb, Combines(d, x, a, comb),
                    t.no_next_choice \/ Before(comb, Prefix(t))
             PROVE  d.next[x][a] \in R
  BY DEF Explored
<1>1. Follows(s) /\ ~ s.no_next_choice /\ comb \in Cells
  BY DEF Tried, Combines, has_valid_choice
<1>2. Before(comb, Prefix(s)) \/ Covers(Prefix(s), comb)
  BY <1>1, PassesCovered
<1>3. CASE Before(comb, Prefix(s))
  BY <1>3 DEF Explored
<1>4. CASE Covers(Prefix(s), comb)
  <2> DEFINE q == Append(trace[k], i)
             p == Append(trace[k + 1], e)
             Q == PlanAt(k, pre)
             P == PlanAt(k + 1, <<>>)
  <2>0. Links(C, s, q, Q, p, P)
    BY TriedPath
  <2> HIDE DEF q, p, Q, P
  <2>1. /\ Described(C, q, Q) /\ Described(ret, p, P) /\ GoesOn(q, Q, p, P)
        /\ ChosenBy(p[Len(q)], s) /\ P[Len(q)] = ToSet(ChoiceAssumptions(s))
    BY <2>0 DEF Links
  <2>2. x \in Nodes
    BY <2>1, NodesAreNodes
  <2>3. a \in Cell
    BY <2>2 DEF IsDesign
  <2>4. Fits(p[Len(q)], a) /\ P[Len(q)] \subseteq d.holds[x][a]
    BY <1>1, <1>4, <2>1, <2>3, CoveredFits
  <2>5. d.next[x][a] \in NodesOf(d, ret)
    BY <2>1, <2>4, ChoiceLeadsOn
  <2> QED BY <2>5
<1> QED BY <1>2, <1>3, <1>4

\* With all values chosen, a state that a single input still decides on is reached
\* from one whose next node the branching points do not determine.
LEMMA ChoiceLeftOpen ==
  ASSUME Simulating, RootGiven, PointsDecide, design \in Designs,
         NEW C, NEW k, NEW i, NEW pre, NEW s, NEW e, Tried(C, k, i, pre, s, e),
         Steady(design, Append(trace[k], i), PlanAt(k, pre)),
         ~ Steady(design, Append(trace[k + 1], e), PlanAt(k + 1, <<>>)), ~ CanDeepen(s)
  PROVE  \E x \in NodesOf(design, C) : Undetermined(x)
<1> DEFINE d == design
           q == Append(trace[k], i)
           p == Append(trace[k + 1], e)
           Q == PlanAt(k, pre)
           P == PlanAt(k + 1, <<>>)
<1>0. IsDesign(d)
  BY ExplorationAssumption
<1>01. Links(C, s, q, Q, p, P)
  BY TriedPath
<1>2. Steady(d, q, Q) /\ ~ Steady(d, p, P)
  OBVIOUS
<1> HIDE DEF q, p, Q, P
<1>1. /\ Described(C, q, Q) /\ Described(ret, p, P) /\ Looser(q, Q, p, P)
      /\ Len(p) = Len(q) + 1
      /\ ChosenBy(p[Len(q)], s) /\ P[Len(q)] = ToSet(ChoiceAssumptions(s))
  BY <1>01 DEF Links
<1>3. PICK x \in NodesOf(d, C) : \E a, b \in d.allowed[x] :
        /\ Fits(p[Len(q)], a) /\ P[Len(q)] \subseteq d.holds[x][a]
        /\ Fits(p[Len(q)], b) /\ P[Len(q)] \subseteq d.holds[x][b]
        /\ d.next[x][a] # d.next[x][b]
  BY <1>0, <1>1, <1>2, ChoiceLeavesOpen
<1>4. PICK a, b \in d.allowed[x] :
        /\ Fits(p[Len(q)], a) /\ P[Len(q)] \subseteq d.holds[x][a]
        /\ Fits(p[Len(q)], b) /\ P[Len(q)] \subseteq d.holds[x][b]
        /\ d.next[x][a] # d.next[x][b]
  BY <1>3
<1>5. x \in Nodes
  BY <1>0, <1>1, NodesAreNodes
<1>6. Follows(s)
  BY DEF Tried
<1>7. \A v \in ToSet(BranchingPoint) : \A value \in Values(v.v_width) :
        HasValue(d, x, a, v, value) <=> HasValue(d, x, b, v, value)
  BY <1>1, <1>4, <1>5, <1>6, FullChoiceDecides
<1>8. ToSet(Assumptions) \subseteq ToSet(ChoiceAssumptions(s))
  BY <1>6, ChoiceElements
<1>9. a \in Admitted(x) /\ b \in Admitted(x)
  BY <1>1, <1>4, <1>8 DEF Admitted
<1> QED BY <1>4, <1>7, <1>9 DEF Undetermined
-----------------------------------------------------------------------------
\* The first state stands for the root.
LEMMA FirstNodesAre ==
  ASSUME NEW d, IsDesign(d), NEW s, NEW p, NEW P, Described(s, p, P)
  PROVE  Len(p) = 2 => NodesOf(d, s) \subseteq {p[1][StateVar]}
<1>1. \A n \in NodesOf(d, s) : \E c, g : Way(d, p, P, c, g) /\ g[Len(p) - 1] = n
  BY NodesEndWays
<1>2. \A c, g : Way(d, p, P, c, g) => g[1] = p[1][StateVar]
  BY DEF Way
<1>3. Len(p) = 2 => Len(p) - 1 = 1
  OBVIOUS
<1> QED BY <1>1, <1>2, <1>3

\* A caller that leaves nothing to a symbol gives the root.
LEMMA RootIsGiven ==
  ASSUME RootsGiven, IInv, trace = <<>>, NEW given \in Roots, init(given)
  PROVE  RootGiven' /\ trace'[1][1] \in [StateVars -> Nodes]
<1>1. given \in Given(StateVars) /\ Range(given) \subseteq Nodes /\ DOMAIN given = StateVars
  BY ExplorationAssumption DEF RootsGiven
<1>2. Complete(StateVars, given) = [v \in StateVars |-> given[v]]
  BY <1>1 DEF Complete
<1>3. trace' = <<<<Complete(StateVars, given)>>>>
  BY DEF init
<1>4. \A v \in StateVars : given[v] \in Nodes
  BY <1>1 DEF Range
<1>5. trace'[1][1] = [v \in StateVars |-> given[v]] /\ Len(trace'[1]) = 1
  BY <1>2, <1>3
<1>6. trace'[1][1] \in [StateVars -> Nodes]
  BY <1>4, <1>5
<1>7. trace'[1][1][StateVar] \in Nodes
  BY <1>6, StateVarIs
<1> QED BY <1>5, <1>6, <1>7 DEF RootGiven

\* The design's symbols: none is made up for a state variable that was given.
LEMMA RootInitial ==
  ASSUME RootGiven
  PROVE  Root \in Nodes /\ Root = trace[1][1][StateVar] /\ InitialNodes = {Root}
BY DEF RootGiven, Root, StateVar, InitialNodes
-----------------------------------------------------------------------------
LEMMA ApartInvariance == Spec => []SymbolsApart
BY InitApart, NextApart, Invariance, PTL DEF Spec

LEMMA ReachableHasNodes ==
  ASSUME NEW d, NEW s
  PROVE  check_reachable(d, s) <=> NodesOf(d, s) # {}
BY DEF check_reachable, NodesOf

\* What the comparison of a state with one of those it is compared with tells.
Comparable(d, r, s) ==
  CommonModels(d, r, s) # {} /\ (abs_eq(d, r, s) => NodesOf(d, s) \subseteq NodesOf(d, r))

\* The comparisons of record_state do not throw, and a state that is known stands
\* for no node that was not recorded.
LEMMA VerdictIs ==
  ASSUME NEW d, NEW A, Len(A) \in Nat, NEW s,
         \A m \in 1 .. Len(A) : Comparable(d, A[m], s)
  PROVE  /\ record_verdict(d, A, s) \in {"new", "known"}
         /\ record_verdict(d, A, s) = "known" =>
              \E m \in 1 .. Len(A) : NodesOf(d, s) \subseteq NodesOf(d, A[m])
<1> DEFINE decisive == {m \in 1 .. Len(A) : abs_eq(d, A[m], s)}
<1>1. CASE decisive = {}
  BY <1>1 DEF record_verdict
<1>2. CASE decisive # {}
  <2>0. decisive \in SUBSET Nat
    OBVIOUS
  <2>1. Min(decisive) \in decisive
    <3> HIDE DEF decisive
    <3> QED BY <1>2, <2>0, MinOfNats
  <2>2. Comparable(d, A[Min(decisive)], s) /\ abs_eq(d, A[Min(decisive)], s)
    BY <2>1
  <2>3. record_verdict(d, A, s) = "known"
    BY <1>2, <2>2 DEF record_verdict, Comparable
  <2> QED BY <2>1, <2>2, <2>3 DEF Comparable
<1> QED BY <1>1, <1>2

\* A state of nodes, whose path has symbols of S but not of F only.
Known(d, S, F, s) ==
  /\ \E q, Q : Described(s, q, Q) /\ \A i \in 2 .. Len(q) : SymsOf(q[i]) \subseteq S \ F
  /\ NodesOf(d, s) # {}

LEMMA KnownStays ==
  ASSUME NEW d, NEW S, NEW F, NEW s, Known(d, S, F, s), NEW S2, NEW F2, S \subseteq S2, F2 \cap S \subseteq F
  PROVE  Known(d, S2, F2, s)
<1>1. PICK q, Q : Described(s, q, Q) /\ \A i \in 2 .. Len(q) : SymsOf(q[i]) \subseteq S \ F
  BY DEF Known
<1>2. \A i \in 2 .. Len(q) : SymsOf(q[i]) \subseteq S2 \ F2
  BY <1>1
<1> QED BY <1>1, <1>2 DEF Known

LEMMA KnownIsComparable ==
  ASSUME NEW d, IsDesign(d), NEW S, NEW F, NEW r, Known(d, S, F, r),
         NEW s, NEW p, NEW P, Described(s, p, P), NodesOf(d, s) # {},
         \A i \in 2 .. Len(p) : SymsOf(p[i]) \subseteq F
  PROVE  Comparable(d, r, s)
<1>1. PICK q, Q : Described(r, q, Q) /\ \A i \in 2 .. Len(q) : SymsOf(q[i]) \subseteq S \ F
  BY DEF Known
<1>2. \A i \in 2 .. Len(q), j \in 2 .. Len(p) : SymsOf(q[i]) \cap SymsOf(p[j]) = {}
  BY <1>1
<1>3. NodesOf(d, r) # {}
  BY DEF Known
<1>4. /\ CommonModels(d, r, s) # {}
      /\ abs_eq(d, r, s) => NodesOf(d, s) \subseteq NodesOf(d, r)
  BY <1>1, <1>2, <1>3, ComparedApart
<1> QED BY <1>4 DEF Comparable

AllKnown(d, S, F, A) == \A m \in 1 .. Len(A) : Known(d, S, F, A[m])

LEMMA AllKnownStay ==
  ASSUME NEW d, NEW S, NEW F, NEW A, AllKnown(d, S, F, A),
         NEW S2, NEW F2, S \subseteq S2, F2 \cap S \subseteq F
  PROVE  AllKnown(d, S2, F2, A)
BY KnownStays DEF AllKnown

\* The symbols of the path of the state that was just copied.
LEMMA RetSyms ==
  ASSUME Simulating, RootGiven, NEW e, RetIs(e), ~ Pending
  PROVE  \A i \in 2 .. Len(trace) + 1 :
           SymsOf(Append(trace[Len(trace)], e)[i]) \subseteq LiveSyms \cup SymsOf(e)
<1> SUFFICES ASSUME NEW i \in 2 .. Len(trace) + 1
             PROVE  SymsOf(Append(trace[Len(trace)], e)[i]) \subseteq LiveSyms \cup SymsOf(e)
  OBVIOUS
<1> DEFINE n == Len(trace)
           p == Append(trace[n], e)
<1>1. n \in Nat \ {0} /\ n \in 1 .. n /\ Len(history_choice) = n - 1 /\ e \in [InVars -> Sym]
  BY FramesAndChoices DEF RetIs
<1>2. /\ \A j \in 2 .. n : p[j] = history_choice[j - 1].var_assign
      /\ p[n + 1] = e
  BY <1>1, CopyPath
<1> HIDE DEF p
<1>3. CASE i = n + 1
  BY <1>2, <1>3 DEF p
<1>4. CASE i \in 2 .. n
  <2>1. i - 1 \in 1 .. Len(history_choice)
    BY <1>1, <1>4
  <2>2. SymsOf(history_choice[i - 1].var_assign) \subseteq LiveSyms
    BY <2>1, ChoiceIsLive
  <2>3. p[i] = history_choice[i - 1].var_assign
    BY <1>2, <1>4
  <2> QED BY <2>2, <2>3 DEF p
<1>5. i = n + 1 \/ i \in 2 .. n
  BY <1>1
<1> QED BY <1>3, <1>4, <1>5

\* A concrete state is steady, and the other way round.
LEMMA RetConcrete ==
  ASSUME Simulating, SymbolsApart, RootGiven, ~ Pending, IsDesign(design), NEW e, e \in [InVars -> Sym],
         NEW P, Described(ret, Append(trace[Len(trace)], e), P)
  PROVE  check_concrete_enough(design, ret, Xvar)
           <=> Steady(design, Append(trace[Len(trace)], e), P)
<1> DEFINE n == Len(trace)
           f == trace[n]
           p == Append(f, e)
<1>1. /\ n \in Nat \ {0} /\ n \in 1 .. n /\ IInv /\ trace # <<>> /\ Last(trace) = f
      /\ trace \in Seq(Path)
  BY FramesAndChoices, Shape DEF Simulating, IInv, TypeOK
<1>2. f \in Seq(Assignment) /\ Len(f) = n
  BY <1>1, FramesAre DEF RootGiven
<1>3. \A i \in 2 .. Len(f) : SymsOf(f[i]) \subseteq Xvar
  BY <1>1, LiveLast DEF Apart
<1>4. e \in Assignment
  BY DEF Assignment
<1> HIDE DEF f
<1>5. Len(p) = n + 1 /\ \A i \in 1 .. n : p[i] = f[i]
  BY <1>2, <1>4, AppendType
<1> HIDE DEF p, n
<1>6. \A i \in 2 .. Len(p) - 1 : i \in 2 .. Len(f) /\ i \in 1 .. n
  BY <1>1, <1>2, <1>5
<1>7. \A i \in 2 .. Len(p) - 1 : SymsOf(p[i]) \subseteq Xvar
  BY <1>3, <1>5, <1>6
<1>8. Described(ret, p, P)
  BY DEF p, f, n
<1>9. check_concrete_enough(design, ret, Xvar) <=> Steady(design, p, P)
  BY <1>7, <1>8, ConcreteIsSteady, SteadyIsConcrete
<1> QED BY <1>9 DEF p, f, n
-----------------------------------------------------------------------------
(***************************************************************************)
(* traverse_one_step returns all successors.  While the first state is on  *)
(* the branch, all admitted cells its stack of choices has passed lead to  *)
(* recorded nodes.                                                         *)
(***************************************************************************)
OLoop == {"head", "sim", "snap", "check", "act", "undo"}

\* The first state, and what its choices have passed.
FirstExplored(s) ==
  /\ abs_state # <<>>
  /\ Copied(design, syms, {}, abs_state[1], trace[1], PlanAt(1, Assumptions))
  /\ Explored(design, abs_state[1], s, RecordedNodes)

\* The state that was reached was decided on.
Decided(e) ==
  /\ RetIs(e)
  /\ IF tried = "not concrete"
     THEN ~ Steady(design, Append(trace[2], e), PlanAt(2, <<>>))
     ELSE NodesOf(design, ret) \subseteq RecordedNodes

OFinding ==
  /\ design \in Designs
  /\ loc # "boot" => RootGiven /\ LiveSyms \subseteq syms
  /\ loc \in {"boot", "start", "entry"} => abs_state = <<>> /\ init_choice = NewPerStateStack
  /\ loc = "entry" => \E e \in [InVars -> Sym] :
       SymsOf(e) \subseteq syms /\ Described(ret, Append(trace[1], e), PlanAt(1, Assumptions))
  /\ loc \in OLoop => FirstExplored(init_choice)
  /\ loc \in {"head", "sim", "snap"} => AllKnown(design, syms, LiveSyms, abs_state)
  /\ loc = "check" =>
       \E e : RetIs(e) /\ AllKnown(design, syms, LiveSyms \cup SymsOf(e), abs_state)
  /\ loc \in {"act", "undo"} => AllKnown(design, syms, {}, abs_state)
  /\ loc \in {"sim", "snap", "check", "act"} => Chosen(history_choice[1], init_choice)
  /\ loc = "act" => \E e : Decided(e)
  /\ loc = "done" => {Root} \cup AdmittedSuccessors(Root) \subseteq RecordedNodes
  /\ loc = "thrown" => Undetermined(Root)

OBase == OInv /\ Orderly /\ SymbolsApart /\ ORecorded

LEMMA FirstPlan == \A pre : PlanAt(1, pre)' = PlanAt(1, pre)
<1>1. \A i \in 2 .. 1 + 1 : ~ (i <= 1)
  OBVIOUS
<1> QED BY <1>1 DEF PlanAt

LEMMA RecordedGrow ==
  ASSUME design' = design, abs_state \in Seq(StateAsmpt),
         \/ abs_state' = abs_state
         \/ abs_state' = Append(abs_state, ret) /\ ret \in StateAsmpt
  PROVE  /\ RecordedNodes \subseteq RecordedNodes'
         /\ abs_state' = Append(abs_state, ret) => NodesOf(design, ret) \subseteq RecordedNodes'
<1>1. CASE abs_state' = abs_state
  <2>1. abs_state' # Append(abs_state, ret) \/ Append(abs_state, ret) = abs_state
    BY <1>1
  <2>2. Append(abs_state, ret) # abs_state
    <3>1. Len(Append(abs_state, ret)) = Len(abs_state) + 1 /\ Len(abs_state) \in Nat
      OBVIOUS
    <3> QED BY <3>1
  <2> QED BY <1>1, <2>1, <2>2 DEF RecordedNodes
<1>2. CASE abs_state' = Append(abs_state, ret) /\ ret \in StateAsmpt
  <2>1. /\ Len(abs_state') = Len(abs_state) + 1 /\ Len(abs_state) \in Nat
        /\ \A i \in 1 .. Len(abs_state) : abs_state'[i] = abs_state[i]
        /\ abs_state'[Len(abs_state) + 1] = ret
    BY <1>2, AppendType
  <2>2. /\ \A i \in 1 .. Len(abs_state) : i \in 1 .. Len(abs_state')
        /\ Len(abs_state) + 1 \in 1 .. Len(abs_state')
    BY <2>1
  <2>3. RecordedNodes' = UNION {NodesOf(design, abs_state'[i]) : i \in 1 .. Len(abs_state')}
    BY DEF RecordedNodes
  <2> QED BY <2>1, <2>2, <2>3 DEF RecordedNodes
<1> QED BY <1>1, <1>2

\* What the choices of the first state have passed stays passed.
LEMMA FirstStays ==
  ASSUME NEW s, FirstExplored(s), abs_state \in Seq(StateAsmpt),
         syms \subseteq syms', trace'[1] = trace[1], design' = design,
         \/ abs_state' = abs_state
         \/ abs_state' = Append(abs_state, ret) /\ ret \in StateAsmpt
  PROVE  /\ abs_state' # <<>> /\ abs_state'[1] = abs_state[1]
         /\ Copied(design', syms', {}, abs_state'[1], trace'[1], PlanAt(1, Assumptions)')
         /\ Explored(design', abs_state'[1], s, RecordedNodes')
<1>1. abs_state # <<>> /\ Len(abs_state) \in Nat /\ 1 \in 1 .. Len(abs_state)
  BY DEF FirstExplored
<1>2. abs_state' # <<>> /\ abs_state'[1] = abs_state[1]
  BY <1>1, AppendType
<1>3. RecordedNodes \subseteq RecordedNodes'
  BY RecordedGrow
<1>4. Explored(design, abs_state[1], s, RecordedNodes')
  BY <1>3, ExploredMore DEF FirstExplored
<1>5. PlanAt(1, Assumptions)' = PlanAt(1, Assumptions)
  BY FirstPlan
<1>6. Copied(design, syms', {}, abs_state[1], trace[1], PlanAt(1, Assumptions))
  <2> DEFINE P == PlanAt(1, Assumptions)
  <2>1. Copied(design, syms, {}, abs_state[1], trace[1], P)
    BY DEF FirstExplored
  <2> HIDE DEF P
  <2>2. Copied(design, syms', {}, abs_state[1], trace[1], P)
    BY <2>1, CopiedStays
  <2> QED BY <2>2 DEF P
<1> QED BY <1>2, <1>4, <1>5, <1>6

LEMMA FirstIsRoot ==
  ASSUME Simulating, RootGiven, design \in Designs, abs_state \in Seq(StateAsmpt),
         NEW s, FirstExplored(s)
  PROVE  NodesOf(design, abs_state[1]) = {Root} /\ Root \in RecordedNodes
<1> DEFINE P == PlanAt(1, Assumptions)
<1>1. PICK e \in [InVars -> Sym] : Described(abs_state[1], Append(trace[1], e), P)
  BY DEF FirstExplored, Copied
<1>2. 1 \in 1 .. Len(trace)
  BY FramesAndChoices
<1> HIDE DEF P
<1>3. Len(Append(trace[1], e)) = 2 /\ Append(trace[1], e)[1] = trace[1][1]
  BY <1>2, CopyPath
<1>4. IsDesign(design)
  BY ExplorationAssumption
<1> DEFINE p == Append(trace[1], e)
<1>5. Described(abs_state[1], p, P) /\ Len(p) = 2 /\ p[1][StateVar] = Root
  BY <1>1, <1>3, RootInitial
<1> HIDE DEF p
<1>6. NodesOf(design, abs_state[1]) \subseteq {Root}
  BY <1>4, <1>5, FirstNodesAre
<1>7. NodesOf(design, abs_state[1]) # {} /\ abs_state # <<>>
  BY DEF FirstExplored, Copied
<1>8. NodesOf(design, abs_state[1]) = {Root}
  BY <1>6, <1>7
<1>9. 1 \in 1 .. Len(abs_state)
  BY <1>7
<1> QED BY <1>8, <1>9 DEF RecordedNodes
-----------------------------------------------------------------------------
LEMMA NothingLive ==
  ASSUME Len(history_choice) = 0
  PROVE  LiveSyms = {}
BY DEF LiveSyms, SymsOfChoices

\* What every call of the simulator keeps.
LEMMA RootedStays ==
  ASSUME RootGiven, LiveSyms \subseteq syms, Calm, trace'[1] = trace[1]
  PROVE  /\ RootGiven' /\ LiveSyms' \subseteq syms' /\ syms \subseteq syms'
         /\ LiveSyms' \cap syms \subseteq LiveSyms /\ Root' = Root
BY DEF RootGiven, Calm, Root

LEMMA OBootFinds ==
  ASSUME RootsGiven, OBase, OFinding, OBoot
  PROVE  OFinding'
<1>1. /\ loc = "boot" /\ loc' = "start" /\ IInv /\ trace = <<>>
      /\ UNCHANGED <<design, abs_state, init_choice>>
  BY DEF OBoot, GoTo, OBase, OInv
<1>2. PICK given \in Roots : init(given)
  BY DEF OBoot
<1>3. RootGiven'
  BY <1>1, <1>2, RootIsGiven
<1>4. history_choice' = <<>>
  BY <1>1, <1>2 DEF IInv, StacksAligned, init
<1>5. LiveSyms' = {}
  <2>1. Len(<<>>) = 0
    OBVIOUS
  <2> QED BY <1>4, <2>1 DEF LiveSyms, SymsOfChoices
<1> QED BY <1>1, <1>3, <1>5 DEF OFinding, OLoop

LEMMA OEnterFinds ==
  ASSUME OBase, OFinding, OEnter
  PROVE  OFinding'
<1>1. /\ loc = "start" /\ loc' = "entry" /\ get_curr_state(Assumptions)
      /\ UNCHANGED <<design, abs_state, init_choice>>
  BY DEF OEnter, GoTo
<1>2. /\ Simulating /\ Orderly /\ SymbolsApart /\ ~ Pending /\ Len(trace) = 1
      /\ RootGiven /\ LiveSyms \subseteq syms
  BY <1>1 DEF OBase, OInv, OSearching, Trying, OFinding
<1>3. Calm /\ LiveSyms' = LiveSyms /\ trace' = trace
  BY <1>1, <1>2, AssumptionsAreGiven, CopyIsCalm, CopyCall
<1>4. RootGiven' /\ LiveSyms' \subseteq syms'
  BY <1>2, <1>3, RootedStays
<1>5. \E e \in [InVars -> Sym] :
        /\ Own(InVars, e) /\ SymsOf(e) \subseteq syms' /\ SymsOf(e) \cap syms = {}
        /\ Described(ret', Append(trace[Len(trace)], e), PlanAt(Len(trace), Assumptions))
  BY <1>1, <1>2, AssumptionsAreGiven, CopyDescribes
<1>6. PlanAt(1, Assumptions)' = PlanAt(1, Assumptions)
  BY FirstPlan
<1>7. \E e \in [InVars -> Sym] :
        /\ SymsOf(e) \subseteq syms'
        /\ Described(ret', Append(trace'[1], e), PlanAt(1, Assumptions)')
  BY <1>2, <1>3, <1>5, <1>6
<1> QED BY <1>1, <1>4, <1>7 DEF OFinding, OLoop

LEMMA OEnterUnreachableFinds ==
  ASSUME OBase, OFinding, OEnterUnreachable
  PROVE  OFinding'
<1>1. /\ loc = "entry" /\ loc' = "skipped" /\ UNCHANGED vars
      /\ UNCHANGED <<design, abs_state, init_choice>>
  BY DEF OEnterUnreachable, GoTo
<1>2. RootGiven' /\ LiveSyms' \subseteq syms'
  BY <1>1, SameIsCalm, RootedStays DEF OFinding
<1> QED BY <1>1, <1>2 DEF OFinding, OLoop

LEMMA OEnterReachableFinds ==
  ASSUME OBase, OFinding, OEnterReachable
  PROVE  OFinding'
<1>1. /\ loc = "entry" /\ loc' = "head" /\ UNCHANGED vars /\ UNCHANGED <<design, init_choice>>
      /\ check_reachable(design, ret) /\ check_concrete_enough(design, ret, Xvar)
      /\ abs_state' = Append(abs_state, ret) /\ ret' = ret
  BY SameIsCalm DEF OEnterReachable, GoTo
<1>2. /\ Simulating /\ SymbolsApart /\ ~ Pending /\ Len(trace) = 1 /\ IsDesign(design)
      /\ RootGiven /\ LiveSyms \subseteq syms /\ ret \in StateAsmpt /\ design \in Designs
      /\ abs_state = <<>> /\ init_choice = NewPerStateStack
  BY <1>1, ExplorationAssumption DEF OBase, OInv, OSearching, Trying, OFinding, ORecorded, JustCopied
<1>3. Calm /\ LiveSyms' = LiveSyms /\ trace' = trace /\ syms' = syms
  BY <1>1, SameIsCalm
<1>4. RootGiven' /\ LiveSyms' \subseteq syms'
  BY <1>2, <1>3, RootedStays
<1>5. abs_state' = <<ret>> /\ Len(abs_state') = 1 /\ abs_state'[1] = ret /\ abs_state' # <<>>
  BY <1>1, <1>2
<1> DEFINE P == PlanAt(1, Assumptions)
<1>6. PICK e \in [InVars -> Sym] : SymsOf(e) \subseteq syms /\ Described(ret, Append(trace[1], e), P)
  BY <1>1 DEF OFinding
<1>7. P' = P
  BY FirstPlan
<1>8. Steady(design, Append(trace[1], e), P)
  <2> HIDE DEF P
  <2>1. Described(ret, Append(trace[Len(trace)], e), P)
    BY <1>2, <1>6
  <2>2. Steady(design, Append(trace[Len(trace)], e), P)
    BY <1>1, <1>2, <1>6, <2>1, RetConcrete
  <2> QED BY <1>2, <2>2
<1>9. NodesOf(design, ret) # {}
  BY <1>1, ReachableHasNodes
<1>10. Copied(design', syms', {}, abs_state'[1], trace'[1], P')
  <2> HIDE DEF P
  <2>1. SymsOf(e) \subseteq syms \ {}
    BY <1>6
  <2>2. Copied(design, syms, {}, ret, trace[1], P)
    BY <1>6, <1>8, <1>9, <2>1 DEF Copied
  <2> QED BY <1>1, <1>3, <1>5, <1>7, <2>2
<1>11. Explored(design', abs_state'[1], init_choice', RecordedNodes')
  BY <1>1, <1>2, NewExplored
<1>12. FirstExplored(init_choice)'
  BY <1>5, <1>10, <1>11 DEF FirstExplored
<1>13. Known(design, syms, {}, ret)
  <2> DEFINE q == Append(trace[1], e)
  <2>1. 1 \in 1 .. Len(trace)
    BY <1>2
  <2>2. Len(q) = 1 + 1 /\ q[1 + 1] = e
    BY <1>2, <2>1, CopyPath
  <2>3. Described(ret, q, P)
    BY <1>6
  <2> HIDE DEF q, P
  <2>4. \A i \in 2 .. Len(q) : i = 1 + 1
    BY <2>2
  <2>5. \A i \in 2 .. Len(q) : SymsOf(q[i]) \subseteq syms \ {}
    BY <1>6, <2>2, <2>4
  <2> QED BY <1>9, <2>3, <2>5 DEF Known
<1>14. LiveSyms' = {}
  <2>1. Len(history_choice) = 0
    BY <1>2, FramesAndChoices
  <2> QED BY <1>3, <2>1, NothingLive
<1>15. AllKnown(design', syms', LiveSyms', abs_state')
  <2>1. \A m \in 1 .. Len(abs_state') : m = 1
    BY <1>5
  <2> QED BY <1>1, <1>3, <1>5, <1>13, <1>14, <2>1 DEF AllKnown
<1> QED BY <1>1, <1>2, <1>4, <1>12, <1>15 DEF OFinding, OLoop

LEMMA FinishFinds ==
  ASSUME PointsDecide, OBase, OFinding, Finish
  PROVE  OFinding'
<1>1. /\ loc = "head" /\ loc' = "done" /\ UNCHANGED vars
      /\ UNCHANGED <<design, abs_state, init_choice>> /\ init_choice.no_next_choice
  BY DEF Finish, GoTo, has_valid_choice
<1>2. /\ Simulating /\ RootGiven /\ design \in Designs /\ FirstExplored(init_choice)
      /\ abs_state \in Seq(StateAsmpt) /\ LiveSyms \subseteq syms /\ IsDesign(design)
  BY <1>1, ExplorationAssumption DEF OBase, OInv, OFinding, OLoop, ORecorded, Recorded
<1>3. Calm /\ LiveSyms' = LiveSyms /\ trace' = trace /\ syms' = syms
  BY <1>1, SameIsCalm
<1>4. RootGiven' /\ LiveSyms' \subseteq syms' /\ Root' = Root
  BY <1>2, <1>3, RootedStays
<1>5. NodesOf(design, abs_state[1]) = {Root} /\ Root \in RecordedNodes
  BY <1>2, FirstIsRoot
<1>6. Root \in Nodes
  BY <1>2, RootInitial
<1>7. Closed(design, abs_state[1], RecordedNodes)
  <2>1. Explored(design, abs_state[1], init_choice, RecordedNodes)
    BY <1>2 DEF FirstExplored
  <2>2. NodesOf(design, abs_state[1]) \subseteq Nodes
    BY <1>5, <1>6
  <2> QED BY <1>1, <1>2, <2>1, <2>2, AllPassed
<1>8. AdmittedSuccessors(Root) \subseteq RecordedNodes
  BY <1>5, <1>7 DEF Closed, AdmittedSuccessors, Admitted, Live
<1>9. RecordedNodes' = RecordedNodes /\ AdmittedSuccessors(Root)' = AdmittedSuccessors(Root)
  BY <1>1, <1>4 DEF RecordedNodes, AdmittedSuccessors, Admitted, Live
<1>10. ({Root} \cup AdmittedSuccessors(Root) \subseteq RecordedNodes)'
  BY <1>4, <1>5, <1>8, <1>9
<1> QED BY <1>1, <1>2, <1>4, <1>10 DEF OFinding, OLoop
-----------------------------------------------------------------------------
LEMMA OTryChoiceFinds ==
  ASSUME OBase, OFinding, OTryChoice
  PROVE  OFinding'
<1>1. /\ loc = "head" /\ loc' = "sim" /\ UNCHANGED <<design, abs_state, init_choice>>
      /\ set_input(InputAssignment(init_choice), ChoiceAssumptions(init_choice))
  BY DEF OTryChoice, GoTo
<1>2. /\ Simulating /\ ~ Pending /\ Len(trace) = 1 /\ Follows(init_choice)
      /\ RootGiven /\ LiveSyms \subseteq syms /\ design \in Designs
      /\ FirstExplored(init_choice) /\ AllKnown(design, syms, LiveSyms, abs_state)
      /\ abs_state \in Seq(StateAsmpt)
  BY <1>1 DEF OBase, OInv, OSearching, Trying, OFinding, OLoop, ORecorded, Recorded
<1>3. trace' = trace
  BY <1>1, <1>2, InputCall, InputsAreGiven, FormulasAreGiven
<1>4. /\ Calm /\ Len(history_choice') = Len(history_choice) + 1
      /\ history_choice'[Len(history_choice) + 1].assumptions = ChoiceAssumptions(init_choice)
      /\ ChosenBy(history_choice'[Len(history_choice) + 1].var_assign, init_choice)
  BY <1>1, <1>2, InputIsCalm
<1>5. Len(history_choice) = 0
  BY <1>2, FramesAndChoices
<1>6. Chosen(history_choice'[1], init_choice)
  BY <1>4, <1>5 DEF Chosen
<1>7. Chosen(history_choice[1], init_choice)'
  BY <1>1, <1>6
<1>8. /\ RootGiven' /\ LiveSyms' \subseteq syms' /\ syms \subseteq syms'
      /\ LiveSyms' \cap syms \subseteq LiveSyms
  BY <1>2, <1>3, <1>4, RootedStays
<1>9. AllKnown(design, syms', LiveSyms', abs_state)
  BY <1>2, <1>8, AllKnownStay
<1>10. FirstExplored(init_choice)'
  <2>1. /\ abs_state' # <<>>
        /\ Copied(design', syms', {}, abs_state'[1], trace'[1], PlanAt(1, Assumptions)')
        /\ Explored(design', abs_state'[1], init_choice, RecordedNodes')
    BY <1>1, <1>2, <1>3, <1>8, FirstStays
  <2> QED BY <1>1, <2>1 DEF FirstExplored
<1> QED BY <1>1, <1>2, <1>7, <1>8, <1>9, <1>10 DEF OFinding, OLoop

LEMMA OSimulateFinds ==
  ASSUME OBase, OFinding, OSimulate
  PROVE  OFinding'
<1>1. /\ loc = "sim" /\ loc' = "snap" /\ UNCHANGED <<design, abs_state, init_choice>>
      /\ sim_one_step
  BY DEF OSimulate, GoTo
<1>2. /\ Simulating /\ Pending /\ Len(trace) = 1
      /\ RootGiven /\ LiveSyms \subseteq syms /\ design \in Designs
      /\ FirstExplored(init_choice) /\ AllKnown(design, syms, LiveSyms, abs_state)
      /\ abs_state \in Seq(StateAsmpt) /\ Chosen(history_choice[1], init_choice)
  BY <1>1 DEF OBase, OInv, OSearching, Trying, OFinding, OLoop, ORecorded, Recorded
<1>3. trace'[1] = trace[1]
  BY <1>1, <1>2, RootStays
<1>4. Calm /\ LiveSyms' = LiveSyms /\ Len(history_choice') = Len(history_choice)
  BY <1>1, <1>2, StepIsCalm
<1>5. SameChoice(history_choice[1], history_choice'[1])
  <2>1. Len(history_choice) = 1
    BY <1>2, FramesAndChoices
  <2> QED BY <1>4, <2>1 DEF Calm
<1>6. Chosen(history_choice[1], init_choice)'
  <2>1. Chosen(history_choice'[1], init_choice)
    BY <1>2, <1>5 DEF Chosen, SameChoice
  <2> QED BY <1>1, <2>1
<1>7. /\ RootGiven' /\ LiveSyms' \subseteq syms' /\ syms \subseteq syms'
      /\ LiveSyms' \cap syms \subseteq LiveSyms
  BY <1>2, <1>3, <1>4, RootedStays
<1>8. AllKnown(design, syms', LiveSyms', abs_state)
  BY <1>2, <1>7, AllKnownStay
<1>9. FirstExplored(init_choice)'
  <2>1. /\ abs_state' # <<>>
        /\ Copied(design', syms', {}, abs_state'[1], trace'[1], PlanAt(1, Assumptions)')
        /\ Explored(design', abs_state'[1], init_choice, RecordedNodes')
    BY <1>1, <1>2, <1>3, <1>7, FirstStays
  <2> QED BY <1>1, <2>1 DEF FirstExplored
<1> QED BY <1>1, <1>2, <1>6, <1>7, <1>8, <1>9 DEF OFinding, OLoop

LEMMA OSnapFinds ==
  ASSUME OBase, OFinding, OSnap
  PROVE  OFinding'
<1>1. /\ loc = "snap" /\ loc' = "check" /\ UNCHANGED <<design, abs_state, init_choice>>
      /\ get_curr_state(<<>>)
  BY DEF OSnap, GoTo
<1>2. /\ Simulating /\ Orderly /\ SymbolsApart /\ ~ Pending /\ Len(trace) = 2
      /\ RootGiven /\ LiveSyms \subseteq syms /\ design \in Designs
      /\ FirstExplored(init_choice) /\ AllKnown(design, syms, LiveSyms, abs_state)
      /\ abs_state \in Seq(StateAsmpt) /\ Chosen(history_choice[1], init_choice)
  BY <1>1 DEF OBase, OInv, OSearching, Trying, OFinding, OLoop, ORecorded, Recorded
<1>3. trace' = trace /\ history_choice' = history_choice
  BY <1>1, <1>2, CopyCall, AssumptionsAreGiven
<1>4. Calm /\ LiveSyms' = LiveSyms
  BY <1>1, <1>2, CopyIsCalm, AssumptionsAreGiven
<1>5. PICK e \in [InVars -> Sym] :
        /\ SymsOf(e) \subseteq syms' /\ SymsOf(e) \cap syms = {}
        /\ Described(ret', Append(trace[Len(trace)], e), PlanAt(Len(trace), <<>>))
  BY <1>1, <1>2, AssumptionsAreGiven, CopyDescribes
<1>6. /\ RootGiven' /\ LiveSyms' \subseteq syms' /\ syms \subseteq syms'
      /\ LiveSyms' \cap syms \subseteq LiveSyms
  BY <1>2, <1>3, <1>4, RootedStays
<1>7. SymsOf(e) \subseteq syms' \ LiveSyms'
  BY <1>2, <1>4, <1>5
<1>8. PlanAt(Len(trace), <<>>)' = PlanAt(Len(trace), <<>>)
  BY <1>3 DEF PlanAt
<1>9. Described(ret', Append(trace'[Len(trace')], e), PlanAt(Len(trace), <<>>)')
  BY <1>3, <1>5, <1>8
<1>10. RetIs(e)'
  BY <1>5, <1>7, <1>9 DEF RetIs
<1>11. AllKnown(design, syms', LiveSyms' \cup SymsOf(e), abs_state)
  <2>1. (LiveSyms' \cup SymsOf(e)) \cap syms \subseteq LiveSyms
    BY <1>5, <1>6
  <2> QED BY <1>2, <1>6, <2>1, AllKnownStay
<1>12. \E x : RetIs(x)' /\ AllKnown(design', syms', LiveSyms' \cup SymsOf(x), abs_state')
  BY <1>1, <1>10, <1>11
<1>13. FirstExplored(init_choice)'
  <2>1. /\ abs_state' # <<>>
        /\ Copied(design', syms', {}, abs_state'[1], trace'[1], PlanAt(1, Assumptions)')
        /\ Explored(design', abs_state'[1], init_choice, RecordedNodes')
    BY <1>1, <1>2, <1>3, <1>6, FirstStays
  <2> QED BY <1>1, <2>1 DEF FirstExplored
<1>14. Chosen(history_choice[1], init_choice)'
  BY <1>1, <1>2, <1>3
<1> QED BY <1>1, <1>2, <1>6, <1>12, <1>13, <1>14 DEF OFinding, OLoop

\* The verdict on the state that a choice has led to.
LEMMA OCheckFinds ==
  ASSUME OBase, OFinding, OCheck
  PROVE  OFinding'
<1>1. /\ loc = "check" /\ UNCHANGED vars /\ UNCHANGED <<design, init_choice>>
      /\ tried' = IF ~ check_reachable(design, ret) THEN "unreachable"
                  ELSE IF ~ check_concrete_enough(design, ret, Xvar) THEN "not concrete"
                  ELSE record_verdict(design, abs_state, ret)
      /\ abs_state' = IF tried' = "new" THEN Append(abs_state, ret) ELSE abs_state
      /\ loc' = IF tried' = "overly constrained" THEN "thrown" ELSE "act"
  BY DEF OCheck
<1>2. /\ Simulating /\ SymbolsApart /\ ~ Pending /\ Len(trace) = 2 /\ IsDesign(design)
      /\ RootGiven /\ LiveSyms \subseteq syms /\ design \in Designs
      /\ FirstExplored(init_choice) /\ ret \in StateAsmpt
      /\ abs_state \in Seq(StateAsmpt) /\ Chosen(history_choice[1], init_choice)
  <2>0. loc = "check"
    BY <1>1
  <2>1. OInv /\ SymbolsApart /\ ORecorded
    BY DEF OBase
  <2>2. Simulating /\ ~ Pending /\ Len(trace) = 2
    BY <2>0, <2>1 DEF OInv, OSearching, Trying
  <2>3. ret \in StateAsmpt /\ abs_state \in Seq(StateAsmpt)
    BY <2>0, <2>1 DEF ORecorded, Recorded, JustCopied
  <2>4. /\ RootGiven /\ LiveSyms \subseteq syms /\ design \in Designs
        /\ FirstExplored(init_choice) /\ Chosen(history_choice[1], init_choice)
    BY <2>0 DEF OFinding, OLoop
  <2>5. IsDesign(design)
    BY <2>4, ExplorationAssumption
  <2> QED BY <2>1, <2>2, <2>3, <2>4, <2>5
<1>3. /\ Calm /\ LiveSyms' = LiveSyms /\ trace' = trace /\ syms' = syms /\ ret' = ret
      /\ history_choice' = history_choice
  BY <1>1, SameIsCalm
<1>4. RootGiven' /\ LiveSyms' \subseteq syms'
  BY <1>2, <1>3, RootedStays
<1>5. PICK e : RetIs(e) /\ AllKnown(design, syms, LiveSyms \cup SymsOf(e), abs_state)
  BY <1>1 DEF OFinding
<1> DEFINE p == Append(trace[2], e)
           P == PlanAt(2, <<>>)
<1>6. Described(ret, p, P) /\ e \in [InVars -> Sym] /\ SymsOf(e) \subseteq syms
  BY <1>2, <1>5 DEF RetIs
<1>7. Len(p) = 2 + 1 /\ \A i \in 2 .. 2 + 1 : SymsOf(p[i]) \subseteq LiveSyms \cup SymsOf(e)
  <2>1. 2 \in 1 .. Len(trace)
    BY <1>2
  <2>2. Len(p) = 2 + 1
    BY <1>2, <1>6, <2>1, CopyPath
  <2> QED BY <1>2, <1>5, <2>2, RetSyms
<1>8. check_concrete_enough(design, ret, Xvar) <=> Steady(design, p, P)
  <2> HIDE DEF P
  <2>1. Described(ret, Append(trace[Len(trace)], e), P)
    BY <1>2, <1>6
  <2>2. check_concrete_enough(design, ret, Xvar)
          <=> Steady(design, Append(trace[Len(trace)], e), P)
    BY <1>2, <1>6, <2>1, RetConcrete
  <2> QED BY <1>2, <2>2
<1>9. check_reachable(design, ret) <=> NodesOf(design, ret) # {}
  BY ReachableHasNodes
<1>10. Len(abs_state) \in Nat
  BY <1>2
<1>11. NodesOf(design, ret) # {} => \A m \in 1 .. Len(abs_state) : Comparable(design, abs_state[m], ret)
  <2> SUFFICES ASSUME NodesOf(design, ret) # {}, NEW m \in 1 .. Len(abs_state)
               PROVE  Comparable(design, abs_state[m], ret)
    OBVIOUS
  <2> HIDE DEF p, P
  <2>1. Known(design, syms, LiveSyms \cup SymsOf(e), abs_state[m])
    BY <1>5 DEF AllKnown
  <2> DEFINE F == LiveSyms \cup SymsOf(e)
             r == abs_state[m]
  <2>2. Known(design, syms, F, r) /\ \A i \in 2 .. Len(p) : SymsOf(p[i]) \subseteq F
    BY <1>7, <2>1
  <2> HIDE DEF F, r
  <2>3. Comparable(design, r, ret)
    BY <1>2, <1>6, <2>2, KnownIsComparable
  <2> QED BY <2>3 DEF r
<1>12. NodesOf(design, ret) # {} =>
         /\ record_verdict(design, abs_state, ret) \in {"new", "known"}
         /\ record_verdict(design, abs_state, ret) = "known" =>
              \E m \in 1 .. Len(abs_state) : NodesOf(design, ret) \subseteq NodesOf(design, abs_state[m])
  BY <1>10, <1>11, VerdictIs
<1>13. tried' # "overly constrained" /\ loc' = "act"
  BY <1>1, <1>9, <1>12
<1>14. \/ abs_state' = abs_state /\ tried' # "new"
       \/ abs_state' = Append(abs_state, ret) /\ tried' = "new" /\ NodesOf(design, ret) # {}
  BY <1>1, <1>9
<1>15. /\ RecordedNodes \subseteq RecordedNodes'
       /\ abs_state' = Append(abs_state, ret) => NodesOf(design, ret) \subseteq RecordedNodes'
  BY <1>1, <1>2, <1>14, RecordedGrow
<1>16. IF tried' = "not concrete" THEN ~ Steady(design, p, P)
       ELSE NodesOf(design, ret) \subseteq RecordedNodes'
  <2>1. CASE tried' = "unreachable"
    <3>1. NodesOf(design, ret) = {}
      BY <1>1, <1>8, <1>9, <1>12, <2>1
    <3> QED BY <2>1, <3>1
  <2>2. CASE tried' = "not concrete"
    BY <1>1, <1>8, <1>9, <1>12, <2>2
  <2>3. CASE tried' = "new"
    BY <1>14, <1>15, <2>3
  <2>4. CASE tried' = "known"
    <3>1. NodesOf(design, ret) # {} /\ record_verdict(design, abs_state, ret) = "known"
      BY <1>1, <1>9, <2>4
    <3>2. NodesOf(design, ret) \subseteq RecordedNodes
      BY <1>12, <3>1 DEF RecordedNodes
    <3> QED BY <1>15, <2>4, <3>2
  <2> QED BY <1>1, <1>9, <1>12, <2>1, <2>2, <2>3, <2>4
<1>17. RetIs(e)'
  <2>1. PlanAt(Len(trace), <<>>)' = PlanAt(Len(trace), <<>>)
    BY <1>3 DEF PlanAt
  <2>2. e \in [InVars -> Sym] /\ SymsOf(e) \subseteq syms \ LiveSyms
        /\ Described(ret, Append(trace[Len(trace)], e), PlanAt(Len(trace), <<>>))
    BY <1>5 DEF RetIs
  <2> HIDE DEF p, P
  <2>3. Described(ret', Append(trace'[Len(trace')], e), PlanAt(Len(trace), <<>>)')
    BY <1>3, <2>1, <2>2
  <2> QED BY <1>3, <2>2, <2>3 DEF RetIs
<1>18. Decided(e)'
  <2>1. PlanAt(2, <<>>)' = PlanAt(2, <<>>)
    BY <1>3 DEF PlanAt
  <2>2. IF tried' = "not concrete"
        THEN ~ Steady(design', Append(trace'[2], e), PlanAt(2, <<>>)')
        ELSE NodesOf(design', ret') \subseteq RecordedNodes'
    BY <1>1, <1>3, <1>16, <2>1
  <2> QED BY <1>17, <2>2 DEF Decided
<1>19. FirstExplored(init_choice)'
  <2>1. /\ abs_state' # <<>>
        /\ Copied(design', syms', {}, abs_state'[1], trace'[1], PlanAt(1, Assumptions)')
        /\ Explored(design', abs_state'[1], init_choice, RecordedNodes')
    BY <1>1, <1>2, <1>3, <1>14, FirstStays
  <2> QED BY <1>1, <2>1 DEF FirstExplored
<1>20. AllKnown(design, syms, {}, abs_state')
  <2>1. AllKnown(design, syms, {}, abs_state)
    BY <1>5, AllKnownStay
  <2>2. CASE abs_state' = abs_state
    BY <2>1, <2>2
  <2>3. CASE abs_state' = Append(abs_state, ret) /\ NodesOf(design, ret) # {}
    <3>1. /\ Len(abs_state') = Len(abs_state) + 1
          /\ \A i \in 1 .. Len(abs_state) : abs_state'[i] = abs_state[i]
          /\ abs_state'[Len(abs_state) + 1] = ret
      BY <1>2, <2>3, AppendType
    <3>2. Known(design, syms, {}, ret)
      <4> HIDE DEF p, P
      <4>1. \A i \in 2 .. Len(p) : SymsOf(p[i]) \subseteq syms \ {}
        BY <1>2, <1>6, <1>7
      <4> QED BY <1>6, <2>3, <4>1 DEF Known
    <3>3. \A m \in 1 .. Len(abs_state') : m \in 1 .. Len(abs_state) \/ m = Len(abs_state) + 1
      BY <1>10, <3>1
    <3> QED BY <2>1, <3>1, <3>2, <3>3 DEF AllKnown
  <2> QED BY <1>14, <2>2, <2>3
<1>21. AllKnown(design', syms', {}, abs_state')
  BY <1>1, <1>3, <1>20
<1>22. Chosen(history_choice[1], init_choice)'
  BY <1>1, <1>2, <1>3
<1>23. (\E x : Decided(x))'
  BY <1>18
<1> QED BY <1>1, <1>2, <1>4, <1>13, <1>19, <1>21, <1>22, <1>23 DEF OFinding, OLoop
-----------------------------------------------------------------------------
\* Where a choice was decided on.
LEMMA ActFacts ==
  ASSUME OBase, OFinding, loc = "act"
  PROVE  /\ Simulating /\ ~ Pending /\ Len(trace) = 2 /\ IsDesign(design)
         /\ RootGiven /\ LiveSyms \subseteq syms /\ design \in Designs
         /\ FirstExplored(init_choice) /\ abs_state \in Seq(StateAsmpt)
         /\ Follows(init_choice) /\ has_valid_choice(init_choice)
         /\ \E i, e : /\ Tried(abs_state[1], 1, i, Assumptions, init_choice, e) /\ Decided(e)
                      /\ Steady(design, Append(trace[1], i), PlanAt(1, Assumptions))
<1>1. OInv /\ SymbolsApart /\ ORecorded
  BY DEF OBase
<1>2. /\ Simulating /\ ~ Pending /\ Len(trace) = 2
      /\ Follows(init_choice) /\ has_valid_choice(init_choice)
  BY <1>1 DEF OInv, OSearching, Trying
<1>3. abs_state \in Seq(StateAsmpt)
  BY <1>1 DEF ORecorded, Recorded
<1>4. /\ RootGiven /\ LiveSyms \subseteq syms /\ design \in Designs
      /\ FirstExplored(init_choice) /\ Chosen(history_choice[1], init_choice)
  BY DEF OFinding, OLoop
<1>5. IsDesign(design)
  BY <1>4, ExplorationAssumption
<1>6. PICK e : Decided(e)
  BY DEF OFinding
<1>7. PICK i \in [InVars -> Sym] :
        /\ Described(abs_state[1], Append(trace[1], i), PlanAt(1, Assumptions))
        /\ Steady(design, Append(trace[1], i), PlanAt(1, Assumptions))
  BY <1>4 DEF FirstExplored, Copied
<1>8. Tried(abs_state[1], 1, i, Assumptions, init_choice, e)
  <2>1. 1 \in 1 .. Len(trace) /\ 1 + 1 = Len(trace)
    BY <1>2
  <2> QED BY <1>2, <1>4, <1>6, <1>7, <2>1 DEF Tried, Decided
<1> QED BY <1>2, <1>3, <1>4, <1>5, <1>6, <1>7, <1>8

LEMMA ORunOutFinds ==
  ASSUME PointsDecide, OBase, OFinding, ORunOutOfChoices
  PROVE  OFinding'
<1>1. /\ loc = "act" /\ loc' = "thrown" /\ UNCHANGED <<design, abs_state, init_choice>>
      /\ tried = "not concrete" /\ ~ CanDeepen(init_choice) /\ get_curr_state(<<>>)
  BY DEF ORunOutOfChoices, GoTo
<1>2. /\ Simulating /\ IsDesign(design) /\ RootGiven /\ LiveSyms \subseteq syms
      /\ design \in Designs /\ FirstExplored(init_choice) /\ abs_state \in Seq(StateAsmpt)
  BY <1>1, ActFacts
<1>3. PICK i, e : /\ Tried(abs_state[1], 1, i, Assumptions, init_choice, e) /\ Decided(e)
                  /\ Steady(design, Append(trace[1], i), PlanAt(1, Assumptions))
  BY <1>1, ActFacts
<1>4. ~ Steady(design, Append(trace[1 + 1], e), PlanAt(1 + 1, <<>>))
  <2>1. 1 + 1 = 2
    OBVIOUS
  <2> QED BY <1>1, <1>3, <2>1 DEF Decided
<1>5. \E x \in NodesOf(design, abs_state[1]) : Undetermined(x)
  BY <1>1, <1>2, <1>3, <1>4, ChoiceLeftOpen
<1>6. Undetermined(Root)
  BY <1>2, <1>5, FirstIsRoot
<1>7. trace' = trace /\ Calm
  BY <1>1, <1>2, CopyCall, CopyIsCalm, AssumptionsAreGiven
<1>8. RootGiven' /\ LiveSyms' \subseteq syms' /\ Root' = Root
  BY <1>2, <1>7, RootedStays
<1>9. Undetermined(Root)'
  BY <1>1, <1>6, <1>8 DEF Undetermined, Admitted
<1> QED BY <1>1, <1>2, <1>8, <1>9 DEF OFinding, OLoop

LEMMA OChooseAgainFinds ==
  ASSUME OBase, OFinding, OTryNextChoice \/ OTryDeeperChoice
  PROVE  OFinding'
<1>1. /\ loc = "act" /\ loc' = "undo" /\ UNCHANGED <<design, abs_state>> /\ backtrack
      /\ \/ init_choice' = next_choice(init_choice) /\ tried # "not concrete"
         \/ init_choice' = deeper_choice(init_choice) /\ CanDeepen(init_choice)
  BY DEF OTryNextChoice, OTryDeeperChoice, GoTo
<1>2. /\ Simulating /\ ~ Pending /\ Len(trace) = 2 /\ IsDesign(design)
      /\ RootGiven /\ LiveSyms \subseteq syms /\ design \in Designs
      /\ FirstExplored(init_choice) /\ abs_state \in Seq(StateAsmpt)
      /\ Follows(init_choice) /\ ~ init_choice.no_next_choice
  BY <1>1, ActFacts DEF has_valid_choice
<1>3. PICK i, e : Tried(abs_state[1], 1, i, Assumptions, init_choice, e) /\ Decided(e)
  BY <1>1, ActFacts
<1>4. trace'[1] = trace[1] /\ Calm
  BY <1>1, <1>2, RootStays, BacktrackIsCalm
<1>5. RootGiven' /\ LiveSyms' \subseteq syms' /\ syms \subseteq syms'
  BY <1>2, <1>4, RootedStays
<1>6. Explored(design, abs_state[1], init_choice', RecordedNodes)
  <2>1. Explored(design, abs_state[1], init_choice, RecordedNodes)
    BY <1>2 DEF FirstExplored
  <2>2. CASE init_choice' = next_choice(init_choice) /\ tried # "not concrete"
    <3>1. NodesOf(design, ret) \subseteq RecordedNodes
      BY <1>3, <2>2 DEF Decided
    <3>2. Explored(design, abs_state[1], next_choice(init_choice), RecordedNodes)
      BY <1>2, <1>3, <2>1, <3>1, ChoicePassed
    <3> QED BY <2>2, <3>2
  <2>3. CASE init_choice' = deeper_choice(init_choice) /\ CanDeepen(init_choice)
    <3>1. Explored(design, abs_state[1], deeper_choice(init_choice), RecordedNodes)
      BY <1>2, <2>1, <2>3, DeeperExplored
    <3> QED BY <2>3, <3>1
  <2> QED BY <1>1, <2>2, <2>3
<1>7. FirstExplored(init_choice')
  BY <1>2, <1>6 DEF FirstExplored
<1>8. FirstExplored(init_choice)'
  <2>1. /\ abs_state' # <<>>
        /\ Copied(design', syms', {}, abs_state'[1], trace'[1], PlanAt(1, Assumptions)')
        /\ Explored(design', abs_state'[1], init_choice', RecordedNodes')
    BY <1>1, <1>2, <1>4, <1>5, <1>7, FirstStays
  <2> QED BY <2>1 DEF FirstExplored
<1>9. AllKnown(design, syms', {}, abs_state)
  <2>1. AllKnown(design, syms, {}, abs_state)
    BY <1>1 DEF OFinding
  <2> QED BY <1>5, <2>1, AllKnownStay
<1> QED BY <1>1, <1>2, <1>5, <1>8, <1>9 DEF OFinding, OLoop

LEMMA OUndoFinds ==
  ASSUME OBase, OFinding, OUndo
  PROVE  OFinding'
<1>1. /\ loc = "undo" /\ loc' = "head" /\ UNCHANGED <<design, abs_state, init_choice>>
      /\ undo_set_input
  BY DEF OUndo, GoTo
<1>2. /\ Simulating /\ Pending /\ Len(trace) = 1
      /\ RootGiven /\ LiveSyms \subseteq syms /\ design \in Designs
      /\ FirstExplored(init_choice) /\ AllKnown(design, syms, {}, abs_state)
      /\ abs_state \in Seq(StateAsmpt)
  BY <1>1 DEF OBase, OInv, OSearching, Trying, OFinding, OLoop, ORecorded, Recorded
<1>3. trace' = trace
  BY <1>1, <1>2, UndoCall
<1>4. Calm /\ Len(history_choice') = Len(history_choice) - 1
  BY <1>1, <1>2, UndoIsCalm
<1>5. /\ RootGiven' /\ LiveSyms' \subseteq syms' /\ syms \subseteq syms'
  BY <1>2, <1>3, <1>4, RootedStays
<1>6. LiveSyms' = {}
  <2>1. Len(history_choice) = 1
    BY <1>2, FramesAndChoices
  <2>2. Len(history_choice') = 0
    BY <1>4, <2>1
  <2> QED BY <2>2 DEF LiveSyms, SymsOfChoices
<1>7. AllKnown(design, syms', LiveSyms', abs_state)
  <2>1. LiveSyms' \cap syms \subseteq {}
    BY <1>6
  <2> QED BY <1>2, <1>5, <2>1, AllKnownStay
<1>8. FirstExplored(init_choice)'
  <2>1. /\ abs_state' # <<>>
        /\ Copied(design', syms', {}, abs_state'[1], trace'[1], PlanAt(1, Assumptions)')
        /\ Explored(design', abs_state'[1], init_choice, RecordedNodes')
    BY <1>1, <1>2, <1>3, <1>5, FirstStays
  <2> QED BY <1>1, <2>1 DEF FirstExplored
<1> QED BY <1>1, <1>2, <1>5, <1>7, <1>8 DEF OFinding, OLoop

LEMMA OIdleFinds ==
  ASSUME OFinding, UNCHANGED ovars
  PROVE  OFinding'
<1>1. /\ UNCHANGED vars /\ UNCHANGED <<design, loc, abs_state, init_choice, tried>>
  BY DEF ovars
<1>2. /\ Calm /\ LiveSyms' = LiveSyms /\ trace' = trace /\ syms' = syms /\ ret' = ret
      /\ history_choice' = history_choice
  BY <1>1, SameIsCalm
<1>3. \A n, pre : PlanAt(n, pre)' = PlanAt(n, pre)
  BY <1>2 DEF PlanAt
<1>4. RootGiven' = RootGiven /\ Root' = Root /\ RecordedNodes' = RecordedNodes
  BY <1>1, <1>2 DEF RootGiven, Root, RecordedNodes
<1>5. \A e : (RetIs(e)' <=> RetIs(e))
  BY <1>2 DEF RetIs, PlanAt
<1>6. FirstExplored(init_choice)' <=> FirstExplored(init_choice)
  BY <1>1, <1>2, <1>4, FirstPlan DEF FirstExplored
<1>7. \A e : (Decided(e)' <=> Decided(e))
  BY <1>1, <1>2, <1>3, <1>4, <1>5 DEF Decided
<1>8. /\ Undetermined(Root)' <=> Undetermined(Root)
      /\ AdmittedSuccessors(Root)' = AdmittedSuccessors(Root)
  BY <1>1, <1>4 DEF Undetermined, AdmittedSuccessors, Admitted, Live
<1>9. loc = "entry" => (\E e \in [InVars -> Sym] :
       SymsOf(e) \subseteq syms /\ Described(ret, Append(trace[1], e), PlanAt(1, Assumptions)))'
  BY <1>2, FirstPlan DEF OFinding
<1> QED BY <1>1, <1>2, <1>4, <1>5, <1>6, <1>7, <1>8, <1>9 DEF OFinding
-----------------------------------------------------------------------------
LEMMA ONextFinds ==
  ASSUME RootsGiven, PointsDecide, OBase, OFinding, [ONext]_ovars
  PROVE  OFinding'
<1>1. CASE UNCHANGED ovars \/ OStopped
  BY <1>1, OIdleFinds DEF OStopped
<1>2. CASE OBoot \/ OEnter \/ OEnterUnreachable \/ OEnterReachable \/ Finish \/ OCheck
  BY <1>2, OBootFinds, OEnterFinds, OEnterUnreachableFinds, OEnterReachableFinds,
     FinishFinds, OCheckFinds
<1>3. CASE OTryChoice \/ OSimulate \/ OSnap \/ ORunOutOfChoices
  BY <1>3, OTryChoiceFinds, OSimulateFinds, OSnapFinds, ORunOutFinds
<1>4. CASE OTryNextChoice \/ OTryDeeperChoice \/ OUndo
  BY <1>4, OChooseAgainFinds, OUndoFinds
<1> QED BY <1>1, <1>2, <1>3, <1>4 DEF ONext

LEMMA InitOFinding == OInit => OFinding
BY DEF OInit, OFinding, OLoop

\* What the typing of traverse_one_step adds to that of the simulator.
OneStepTypes ==
  tried \in {"none", "unreachable", "not concrete", "new", "known", "overly constrained"}

LEMMA OneStepTyped == OSpec => []OneStepTypes
<1>1. OInit => OneStepTypes
  BY DEF OInit, OneStepTypes
<1>2. OneStepTypes /\ [ONext]_ovars => OneStepTypes'
  <2> SUFFICES ASSUME OneStepTypes, [ONext]_ovars PROVE OneStepTypes'
    OBVIOUS
  <2>1. CASE OCheck
    BY <2>1 DEF OCheck, record_verdict, OneStepTypes
  <2>2. CASE ~ OCheck
    BY <2>2 DEF OneStepTypes, ONext, ovars, OBoot, OEnter, OEnterUnreachable, OEnterReachable, Finish,
                OTryChoice, OSimulate, OSnap, OTryNextChoice, OTryDeeperChoice,
                ORunOutOfChoices, OUndo, OStopped
  <2> QED BY <2>1, <2>2
<1> QED BY <1>1, <1>2, PTL DEF OSpec

\* When traverse_one_step returns from a state, it has recorded the node that state
\* stands for and all nodes one admitted step away; and it only gives up where the
\* branching points do not determine the next node.
THEOREM AllSuccessorsAreRecorded ==
  ASSUME RootsGiven, PointsDecide
  PROVE  OSpec => []FindsSuccessors
<1>1. OSpec => []OBase
  <2>1. OSpec => Spec
    BY OneStepUsesSimulatorAsDocumented
  <2>2. OSpec => []Orderly
    BY <2>1, OrderlyInvariance, PTL
  <2>3. OSpec => []SymbolsApart
    BY <2>1, ApartInvariance, PTL
  <2>4. OInv /\ Orderly /\ SymbolsApart /\ ORecorded => OBase
    BY DEF OBase
  <2> QED BY <2>2, <2>3, <2>4, OInvariance, ORecordedInvariance, PTL
<1>2. OBase /\ OFinding /\ [ONext]_ovars => OFinding'
  BY ONextFinds
<1>3. OSpec => []OFinding
  BY <1>1, <1>2, InitOFinding, PTL DEF OSpec
<1>4. OBase /\ OFinding /\ OneStepTypes /\ (loc \in {"skipped", "done"} => SimulatorRestored)
        => FindsSuccessors
  <2>1. OBase /\ OneStepTypes => OTypeOK
    BY ExplorationAssumption
       DEF OTypeOK, OBase, OInv, OSearching, Follows, ORecorded, Recorded, OneStepTypes
  <2> QED BY <2>1 DEF OFinding, FindsSuccessors
<1> QED BY <1>1, <1>3, <1>4, OneStepTyped, OneStepRestoresSimulator, PTL
-----------------------------------------------------------------------------
(***************************************************************************)
(* traverse records all nodes that can be reached.  The states on the      *)
(* branch are what the simulator has in its frames, so a state that is     *)
(* compared with them is found only if it is one of them; the states that  *)
(* were left are closed: all admitted cells lead from them to recorded     *)
(* nodes.                                                                  *)
(***************************************************************************)
\* The assumptions a state was copied under.
PreOf(j) == IF j = 1 THEN Assumptions ELSE <<>>

\* The states on the branch were copied from the frames of the simulator, with
\* symbols that are not in F.
OnBranch(F) ==
  \A j \in 1 .. Len(curr_branch) :
    Copied(design, syms, F, curr_branch[j], trace[j], PlanAt(j, PreOf(j)))

\* What is asked of a state one choice s, and one free input, above the frame k.
LeftPlan(k, s) ==
  [i \in 2 .. k + 2 |-> IF i <= k THEN ToSet(history_choice[i - 1].assumptions)
                        ELSE IF i = k + 1 THEN ToSet(ChoiceAssumptions(s)) ELSE {}]

IsRecorded(r) == \E m \in 1 .. Len(abs_state) : abs_state[m] = r

\* L was left; it was copied from a frame that the choice on top had led to, with
\* the inputs a.
IsLeft(F, L, a) ==
  /\ Last(all_branches) = Append(curr_branch, L) /\ IsRecorded(L) /\ L \in StateAsmpt
  /\ a \in [InVars -> Val \cup Sym] /\ ChosenBy(a, Top) /\ SymsOf(a) \subseteq syms \ F
  /\ Copied(design, syms, F, L, Append(trace[Len(curr_branch)], a),
            LeftPlan(Len(curr_branch), Top))

Left(F) == \E L, a : IsLeft(F, L, a)

\* What the choices of the states on the branch have passed is recorded, and
\* states that are not on it are closed.
Progress ==
  /\ Root \in RecordedNodes
  /\ \A j \in 1 .. Len(curr_branch) :
       /\ IsRecorded(curr_branch[j])
       /\ Explored(design, curr_branch[j], stack_per_state[j], RecordedNodes)
  /\ \A m \in 1 .. Len(abs_state) :
       \/ \E j \in 1 .. Len(curr_branch) : curr_branch[j] = abs_state[m]
       \/ Closed(design, abs_state[m], RecordedNodes)

\* The inputs of the simulator are those of the choices on the branch.
ChosenUpTo(n) ==
  \A j \in 1 .. Len(stack_per_state) : j <= n => Chosen(history_choice[j], stack_per_state[j])

\* The state that was reached was decided on.
TDecided(e) ==
  /\ RetIs(e)
  /\ verdict \in {"unreachable", "known"} => NodesOf(design, ret) \subseteq RecordedNodes
  /\ verdict = "not concrete" =>
       ~ Steady(design, Append(trace[Len(trace)], e), PlanAt(Len(trace), <<>>))
  /\ verdict = "new" =>
       /\ Steady(design, Append(trace[Len(trace)], e), PlanAt(Len(trace), <<>>))
       /\ NodesOf(design, ret) # {}

Choosing == {"sim", "snap", "check", "act"}

TFinding ==
  /\ design \in Designs
  /\ loc # "boot" => RootGiven /\ LiveSyms \subseteq syms
  /\ loc \in {"boot", "start", "entry"} =>
       abs_state = <<>> /\ curr_branch = <<>> /\ ~ branch_end_flag
  /\ loc = "entry" => \E e \in [InVars -> Sym] :
       SymsOf(e) \subseteq syms /\ Described(ret, Append(trace[1], e), PlanAt(1, Assumptions))
  /\ loc \in InLoop =>
       Progress /\ ChosenUpTo(Len(stack_per_state) - (IF loc \in Choosing THEN 0 ELSE 1))
  /\ loc \in InLoop \ {"check"} => OnBranch(LiveSyms)
  /\ loc \in {"head", "branch", "sim", "snap"} /\ branch_end_flag => Left(LiveSyms)
  /\ loc = "undo" /\ branch_end_flag => Left(SymsOfChoices(Front(history_choice)))
  /\ loc = "check" => \E e :
       /\ RetIs(e) /\ OnBranch(LiveSyms \cup SymsOf(e))
       /\ branch_end_flag => Left(LiveSyms \cup SymsOf(e))
  /\ loc = "act" => ~ branch_end_flag /\ \E e : TDecided(e)
  /\ loc = "done" => /\ Root \in RecordedNodes
                     /\ \A m \in 1 .. Len(abs_state) : Closed(design, abs_state[m], RecordedNodes)
  /\ loc = "thrown" => \E n \in RecordedNodes : Undetermined(n)

TBase == TInv /\ Orderly /\ SymbolsApart /\ Recorded
-----------------------------------------------------------------------------
\* The numbers of frames, states and stacks.
LEMMA LoopFacts ==
  ASSUME TBase, TFinding, loc \in InLoop
  PROVE  /\ Simulating /\ Orderly /\ SymbolsApart /\ RootGiven /\ LiveSyms \subseteq syms
         /\ design \in Designs /\ IsDesign(design)
         /\ Len(curr_branch) \in Nat \ {0} /\ Len(stack_per_state) = Len(curr_branch)
         /\ Len(trace) = Len(curr_branch) + Trying
         /\ Pending <=> loc \in {"sim", "undo"}
         /\ Follows(Top) /\ Top = stack_per_state[Len(curr_branch)]
         /\ abs_state \in Seq(StateAsmpt) /\ curr_branch \in Seq(StateAsmpt)
         /\ all_branches \in Seq(Seq(StateAsmpt)) /\ branch_end_flag \in BOOLEAN
         /\ Progress
<1>1. TInv /\ Orderly /\ SymbolsApart
  BY DEF TBase
<1>2. /\ Simulating /\ Searching /\ FramesAligned
      /\ Len(stack_per_state) \in Nat \ {0} /\ Top = stack_per_state[Len(stack_per_state)]
      /\ Follows(Top)
  BY <1>1, TopFollows
<1>3. /\ Len(stack_per_state) = Len(curr_branch) /\ Len(trace) = Len(curr_branch) + Trying
      /\ Pending <=> loc \in {"sim", "undo"}
  BY <1>2 DEF FramesAligned
<1>4. /\ abs_state \in Seq(StateAsmpt) /\ curr_branch \in Seq(StateAsmpt)
      /\ all_branches \in Seq(Seq(StateAsmpt)) /\ branch_end_flag \in BOOLEAN
  BY <1>2 DEF Searching, TTypeOK
<1>5. design \in Designs /\ RootGiven /\ LiveSyms \subseteq syms /\ Progress
  BY DEF TFinding, InLoop
<1>6. IsDesign(design)
  BY <1>5, ExplorationAssumption
<1> QED BY <1>1, <1>2, <1>3, <1>4, <1>5, <1>6

\* OnBranch, Left and ChosenUpTo after a step, for symbols F.
BranchAgain(F) ==
  \A j \in 1 .. Len(curr_branch') :
    Copied(design', syms', F, curr_branch'[j], trace'[j], PlanAt(j, PreOf(j))')

IsLeftAgain(F, L, a) ==
  /\ Last(all_branches') = Append(curr_branch', L) /\ IsRecorded(L)' /\ L \in StateAsmpt
  /\ a \in [InVars -> Val \cup Sym] /\ ChosenBy(a, Top') /\ SymsOf(a) \subseteq syms' \ F
  /\ Copied(design', syms', F, L, Append(trace'[Len(curr_branch')], a),
            LeftPlan(Len(curr_branch), Top)')

LeftAgain(F) == \E L, a : IsLeftAgain(F, L, a)

ChosenAgain(n) ==
  \A j \in 1 .. Len(stack_per_state') : j <= n => Chosen(history_choice'[j], stack_per_state'[j])

\* While the search stays as it is, calls of the simulator leave the states on the
\* branch copies of its frames.
LEMMA BranchStays ==
  ASSUME NEW F, OnBranch(F), Calm, design' = design, curr_branch' = curr_branch,
         Len(curr_branch) \in Nat, Len(history_choice) \in Nat,
         Len(curr_branch) <= Len(trace), Len(curr_branch) <= Len(trace'),
         Len(curr_branch) - 1 <= Len(history_choice),
         Len(curr_branch) - 1 <= Len(history_choice'),
         NEW F2, F2 \cap syms \subseteq F
  PROVE  BranchAgain(F2)
<1> SUFFICES ASSUME NEW j \in 1 .. Len(curr_branch)
             PROVE  Copied(design, syms', F2, curr_branch[j], trace'[j], PlanAt(j, PreOf(j))')
  BY DEF BranchAgain
<1>1. trace'[j] = trace[j]
  <2>1. Len(trace) \in Int \/ Len(trace) \notin Int
    OBVIOUS
  <2>2. j \in 1 .. Len(trace) /\ j <= Len(trace')
    OBVIOUS
  <2> QED BY <2>2 DEF Calm
<1>2. PlanAt(j, PreOf(j))' = PlanAt(j, PreOf(j))
  <2>1. j \in Nat \ {0} /\ j - 1 <= Len(history_choice) /\ j - 1 <= Len(history_choice')
    OBVIOUS
  <2>2. \A pre : PlanAt(j, pre)' = PlanAt(j, pre)
    BY <2>1, PlanStays
  <2> QED BY <2>2 DEF PreOf
<1>3. Copied(design, syms, F, curr_branch[j], trace[j], PlanAt(j, PreOf(j)))
  BY DEF OnBranch
<1> DEFINE C == curr_branch[j]
           p == trace[j]
           P == PlanAt(j, PreOf(j))
<1>4. syms \subseteq syms'
  BY DEF Calm
<1>5. Copied(design, syms, F, C, p, P)
  BY <1>3
<1> HIDE DEF C, p, P
<1>6. Copied(design, syms', F2, C, p, P)
  BY <1>4, <1>5, CopiedStays
<1> QED BY <1>1, <1>2, <1>6 DEF C, p, P

LEMMA LeftPlanStays ==
  ASSUME Calm, curr_branch' = curr_branch, Top' = Top,
         Len(curr_branch) \in Nat \ {0}, Len(history_choice) \in Nat,
         Len(curr_branch) - 1 <= Len(history_choice),
         Len(curr_branch) - 1 <= Len(history_choice')
  PROVE  LeftPlan(Len(curr_branch), Top)' = LeftPlan(Len(curr_branch), Top)
<1> DEFINE k == Len(curr_branch)
           A == ToSet(ChoiceAssumptions(Top))
<1>1. ASSUME NEW i \in 2 .. k + 2
      PROVE  (IF i <= k THEN ToSet(history_choice'[i - 1].assumptions)
              ELSE IF i = k + 1 THEN A ELSE {})
             = (IF i <= k THEN ToSet(history_choice[i - 1].assumptions)
                ELSE IF i = k + 1 THEN A ELSE {})
  <2> HIDE DEF A
  <2>1. CASE i <= k
    <3>1. i - 1 \in 1 .. Len(history_choice) /\ i - 1 <= Len(history_choice')
      BY <2>1
    <3>2. SameChoice(history_choice[i - 1], history_choice'[i - 1])
      BY <3>1 DEF Calm
    <3> QED BY <2>1, <3>2 DEF SameChoice
  <2>2. CASE ~ (i <= k)
    BY <2>2
  <2> QED BY <2>1, <2>2
<1>2. /\ Len(curr_branch') = k
      /\ ToSet(ChoiceAssumptions(Top')) = A
  OBVIOUS
<1>3. LeftPlan(Len(curr_branch), Top)'
        = [i \in 2 .. k + 2 |-> IF i <= k THEN ToSet(history_choice'[i - 1].assumptions)
                                ELSE IF i = k + 1 THEN A ELSE {}]
  BY <1>2 DEF LeftPlan
<1>4. LeftPlan(Len(curr_branch), Top)
        = [i \in 2 .. k + 2 |-> IF i <= k THEN ToSet(history_choice[i - 1].assumptions)
                                ELSE IF i = k + 1 THEN A ELSE {}]
  BY DEF LeftPlan
<1> HIDE DEF k, A
<1> QED BY <1>1, <1>3, <1>4

\* The same for the state that was left.
LEMMA LeftStays ==
  ASSUME NEW F, NEW L, NEW a, IsLeft(F, L, a), Calm, design' = design,
         curr_branch' = curr_branch, Top' = Top, abs_state' = abs_state,
         all_branches' = all_branches,
         Len(curr_branch) \in Nat \ {0}, Len(history_choice) \in Nat,
         Len(curr_branch) <= Len(trace), Len(curr_branch) <= Len(trace'),
         Len(curr_branch) - 1 <= Len(history_choice),
         Len(curr_branch) - 1 <= Len(history_choice'),
         NEW F2, F2 \cap syms \subseteq F
  PROVE  IsLeftAgain(F2, L, a)
<1>1. trace'[Len(curr_branch)] = trace[Len(curr_branch)]
  <2>1. Len(curr_branch) \in 1 .. Len(trace)
    OBVIOUS
  <2> QED BY <2>1 DEF Calm
<1>2. LeftPlan(Len(curr_branch), Top)' = LeftPlan(Len(curr_branch), Top)
  BY LeftPlanStays
<1>3. syms \subseteq syms'
  BY DEF Calm
<1> DEFINE p == Append(trace[Len(curr_branch)], a)
           P == LeftPlan(Len(curr_branch), Top)
<1>4. Copied(design, syms, F, L, p, P)
  BY DEF IsLeft
<1> HIDE DEF p, P
<1>5. Copied(design, syms', F2, L, p, P)
  BY <1>3, <1>4, CopiedStays
<1>6. IsRecorded(L)'
  BY DEF IsLeft, IsRecorded
<1>7. SymsOf(a) \subseteq syms' \ F2
  BY <1>3 DEF IsLeft
<1> QED BY <1>1, <1>2, <1>5, <1>6, <1>7 DEF IsLeft, IsLeftAgain, p, P

LEMMA ProgressStays ==
  ASSUME Progress, Root' = Root, design' = design, abs_state' = abs_state,
         curr_branch' = curr_branch, stack_per_state' = stack_per_state
  PROVE  Progress' /\ RecordedNodes' = RecordedNodes
<1>1. RecordedNodes' = RecordedNodes
  BY DEF RecordedNodes
<1>2. \A r : IsRecorded(r)' <=> IsRecorded(r)
  BY DEF IsRecorded
<1> QED BY <1>1, <1>2 DEF Progress

\* The choices below stay.
LEMMA ChosenStay ==
  ASSUME NEW n \in Int, Calm, Len(stack_per_state) \in Nat,
         Len(history_choice) \in Nat, Len(history_choice') \in Nat,
         n <= Len(history_choice), n <= Len(history_choice'),
         ChosenUpTo(n), stack_per_state' = stack_per_state
  PROVE  ChosenAgain(n)
<1> SUFFICES ASSUME NEW j \in 1 .. Len(stack_per_state), j <= n
             PROVE  Chosen(history_choice'[j], stack_per_state[j])
  BY DEF ChosenAgain
<1>1. j \in 1 .. Len(history_choice) /\ j <= Len(history_choice')
  OBVIOUS
<1>2. SameChoice(history_choice[j], history_choice'[j])
  BY <1>1 DEF Calm
<1> QED BY <1>2 DEF ChosenUpTo, Chosen, SameChoice
-----------------------------------------------------------------------------
\* Calls of the simulator in the loop, that leave the frames of the branch alone.
LEMMA CallFinds ==
  ASSUME TBase, TFinding, loc \in InLoop, loc' \in Locations, UNCHANGED <<design, search>>,
         Calm, trace'[1] = trace[1], Len(curr_branch) <= Len(trace'),
         Len(history_choice') \in Nat, Len(curr_branch) - 1 <= Len(history_choice')
  PROVE  /\ RootGiven' /\ LiveSyms' \subseteq syms' /\ LiveSyms' \cap syms \subseteq LiveSyms
         /\ syms \subseteq syms' /\ Progress' /\ Top' = Top
         /\ Len(history_choice) \in Nat /\ Len(curr_branch) - 1 <= Len(history_choice)
         /\ Len(curr_branch) \in Nat \ {0} /\ Len(stack_per_state) = Len(curr_branch)
         /\ \A n \in Int : n <= Len(history_choice) /\ n <= Len(history_choice') /\ ChosenUpTo(n)
              => ChosenAgain(n)
         /\ \A F, F2 : OnBranch(F) /\ F2 \cap syms \subseteq F => BranchAgain(F2)
         /\ \A F, F2 : Left(F) /\ F2 \cap syms \subseteq F => LeftAgain(F2)
<1>1. /\ Simulating /\ RootGiven /\ LiveSyms \subseteq syms /\ Progress
      /\ Len(curr_branch) \in Nat \ {0} /\ Len(stack_per_state) = Len(curr_branch)
      /\ Len(trace) = Len(curr_branch) + Trying
  BY LoopFacts
<1>2. /\ RootGiven' /\ LiveSyms' \subseteq syms' /\ LiveSyms' \cap syms \subseteq LiveSyms
      /\ syms \subseteq syms' /\ Root' = Root
  BY <1>1, RootedStays
<1>3. TTypeOK
  BY DEF TBase, TInv, Searching
<1>4. /\ Top' = Top /\ stack_per_state' = stack_per_state /\ curr_branch' = curr_branch
      /\ design' = design /\ abs_state' = abs_state /\ all_branches' = all_branches
  BY <1>3, SearchStays DEF search
<1>5. Progress'
  BY <1>1, <1>2, <1>4, ProgressStays
<1>6. /\ Len(history_choice) \in Nat /\ Len(trace) - 1 <= Len(history_choice)
      /\ Len(trace) \in Nat \ {0}
  BY <1>1, FramesAndChoices
<1>7. Len(curr_branch) <= Len(trace) /\ Len(curr_branch) - 1 <= Len(history_choice)
  <2>1. Trying \in {0, 1}
    BY DEF Trying
  <2> QED BY <1>1, <1>6, <2>1
<1>8. ASSUME NEW n \in Int, n <= Len(history_choice), n <= Len(history_choice'), ChosenUpTo(n)
      PROVE  ChosenAgain(n)
  <2>1. Len(stack_per_state) \in Nat
    BY <1>1
  <2> QED BY <1>4, <1>6, <1>8, <2>1, ChosenStay
<1>9. ASSUME NEW F, NEW F2, OnBranch(F), F2 \cap syms \subseteq F
      PROVE  BranchAgain(F2)
  <2>1. Len(curr_branch) \in Nat
    BY <1>1
  <2> QED BY <1>4, <1>6, <1>7, <1>9, <2>1, BranchStays
<1>10. ASSUME NEW F, NEW F2, Left(F), F2 \cap syms \subseteq F
       PROVE  LeftAgain(F2)
  <2>1. PICK L, a : IsLeft(F, L, a)
    BY <1>10 DEF Left
  <2>2. IsLeftAgain(F2, L, a)
    BY <1>1, <1>4, <1>6, <1>7, <1>10, <2>1, LeftStays
  <2> QED BY <2>2 DEF LeftAgain
<1> QED BY <1>1, <1>2, <1>4, <1>5, <1>6, <1>7, <1>8, <1>9, <1>10

LEMMA CopyHeadFinds ==
  ASSUME TBase, TFinding, CopyHead
  PROVE  TFinding'
<1>1. /\ loc = "head" /\ loc' = "branch" /\ get_curr_state(<<>>) /\ UNCHANGED <<design, search>>
  BY DEF CopyHead, GoTo
<1>2. loc \in InLoop /\ loc' \in Locations
  BY <1>1 DEF InLoop, Locations
<1>3. Simulating /\ design \in Designs /\ Len(trace) = Len(curr_branch) + Trying
  BY <1>2, LoopFacts
<1>4. trace' = trace /\ history_choice' = history_choice /\ Calm /\ LiveSyms' = LiveSyms
  BY <1>1, <1>3, CopyCall, CopyIsCalm, AssumptionsAreGiven
<1>5. Trying = 0
  BY <1>1 DEF Trying
<1>6. Len(history_choice) \in Nat /\ Len(trace) \in Nat \ {0} /\ Len(trace) - 1 <= Len(history_choice)
  BY <1>3, FramesAndChoices
<1>7. /\ trace'[1] = trace[1] /\ Len(curr_branch) <= Len(trace')
      /\ Len(history_choice') \in Nat /\ Len(curr_branch) - 1 <= Len(history_choice')
  BY <1>3, <1>4, <1>5, <1>6
<1>8. /\ RootGiven' /\ LiveSyms' \subseteq syms' /\ LiveSyms' \cap syms \subseteq LiveSyms /\ Progress'
      /\ Len(curr_branch) - 1 <= Len(history_choice)
      /\ Len(curr_branch) \in Nat \ {0} /\ Len(stack_per_state) = Len(curr_branch)
      /\ \A n \in Int : n <= Len(history_choice) /\ n <= Len(history_choice') /\ ChosenUpTo(n)
              => ChosenAgain(n)
      /\ \A F, F2 : OnBranch(F) /\ F2 \cap syms \subseteq F => BranchAgain(F2)
      /\ \A F, F2 : Left(F) /\ F2 \cap syms \subseteq F => LeftAgain(F2)
  BY <1>1, <1>2, <1>4, <1>7, CallFinds
<1>9. ChosenUpTo(Len(stack_per_state) - 1) /\ OnBranch(LiveSyms) /\ (branch_end_flag => Left(LiveSyms))
  BY <1>1 DEF TFinding, InLoop, Choosing
<1>10. ChosenAgain(Len(stack_per_state) - 1)
  BY <1>4, <1>6, <1>8, <1>9
<1>11. BranchAgain(LiveSyms') /\ (branch_end_flag => LeftAgain(LiveSyms'))
  BY <1>8, <1>9
<1>12. stack_per_state' = stack_per_state /\ design' = design /\ branch_end_flag' = branch_end_flag
  BY <1>1 DEF search
<1>13. ChosenUpTo(Len(stack_per_state) - 1)'
  BY <1>10, <1>12 DEF ChosenUpTo, ChosenAgain
<1>14. OnBranch(LiveSyms)' /\ (branch_end_flag' => Left(LiveSyms)')
  BY <1>11, <1>12 DEF OnBranch, BranchAgain, Left, IsLeft, LeftAgain, IsLeftAgain
<1> QED BY <1>1, <1>3, <1>8, <1>12, <1>13, <1>14 DEF TFinding, InLoop, Choosing
-----------------------------------------------------------------------------
LEMMA TryChoiceFinds ==
  ASSUME TBase, TFinding, TryChoice
  PROVE  TFinding'
<1>1. /\ loc = "branch" /\ loc' = "sim" /\ UNCHANGED <<design, search>>
      /\ set_input(InputAssignment(Top), ChoiceAssumptions(Top))
  BY DEF TryChoice, GoTo
<1>2. loc \in InLoop /\ loc' \in Locations
  BY <1>1 DEF InLoop, Locations
<1>3. /\ Simulating /\ design \in Designs /\ Len(trace) = Len(curr_branch) + Trying
      /\ Follows(Top) /\ ~ Pending /\ Top = stack_per_state[Len(curr_branch)]
  BY <1>1, <1>2, LoopFacts
<1>4. trace' = trace
  BY <1>1, <1>3, InputCall, InputsAreGiven, FormulasAreGiven
<1>5. /\ Calm /\ Len(history_choice) \in Nat /\ Len(history_choice') = Len(history_choice) + 1
      /\ history_choice'[Len(history_choice) + 1].assumptions = ChoiceAssumptions(Top)
      /\ ChosenBy(history_choice'[Len(history_choice) + 1].var_assign, Top)
  BY <1>1, <1>3, InputIsCalm
<1>6. Trying = 0
  BY <1>1 DEF Trying
<1>7. Len(trace) \in Nat \ {0} /\ Len(trace) = Len(history_choice) + 1
  BY <1>3, FramesAndChoices
<1>8. /\ trace'[1] = trace[1] /\ Len(curr_branch) <= Len(trace')
      /\ Len(history_choice') \in Nat /\ Len(curr_branch) - 1 <= Len(history_choice')
      /\ Len(curr_branch) = Len(history_choice) + 1
  BY <1>3, <1>4, <1>5, <1>6, <1>7
<1>9. /\ RootGiven' /\ LiveSyms' \subseteq syms' /\ LiveSyms' \cap syms \subseteq LiveSyms /\ Progress'
      /\ Len(curr_branch) \in Nat \ {0} /\ Len(stack_per_state) = Len(curr_branch)
      /\ \A n \in Int : n <= Len(history_choice) /\ n <= Len(history_choice') /\ ChosenUpTo(n)
              => ChosenAgain(n)
      /\ \A F, F2 : OnBranch(F) /\ F2 \cap syms \subseteq F => BranchAgain(F2)
      /\ \A F, F2 : Left(F) /\ F2 \cap syms \subseteq F => LeftAgain(F2)
  BY <1>1, <1>2, <1>5, <1>8, CallFinds
<1>10. ChosenUpTo(Len(stack_per_state) - 1) /\ OnBranch(LiveSyms) /\ (branch_end_flag => Left(LiveSyms))
  BY <1>1 DEF TFinding, InLoop, Choosing
<1>11. ChosenAgain(Len(stack_per_state) - 1)
  BY <1>5, <1>8, <1>9, <1>10
<1>12. BranchAgain(LiveSyms') /\ (branch_end_flag => LeftAgain(LiveSyms'))
  BY <1>9, <1>10
<1>13. stack_per_state' = stack_per_state /\ design' = design /\ branch_end_flag' = branch_end_flag
  BY <1>1 DEF search
<1>14. Chosen(history_choice'[Len(stack_per_state)], stack_per_state[Len(stack_per_state)])
  BY <1>3, <1>5, <1>8, <1>9 DEF Chosen
<1>15. ChosenAgain(Len(stack_per_state))
  <2>1. \A j \in 1 .. Len(stack_per_state) : j <= Len(stack_per_state) - 1 \/ j = Len(stack_per_state)
    BY <1>9
  <2> QED BY <1>11, <1>13, <1>14, <2>1 DEF ChosenAgain
<1>16. ChosenUpTo(Len(stack_per_state) - 0)'
  <2>1. Len(stack_per_state) - 0 = Len(stack_per_state)
    BY <1>9
  <2> QED BY <1>13, <1>15, <2>1 DEF ChosenUpTo, ChosenAgain
<1>17. OnBranch(LiveSyms)' /\ (branch_end_flag' => Left(LiveSyms)')
  BY <1>12, <1>13 DEF OnBranch, BranchAgain, Left, IsLeft, LeftAgain, IsLeftAgain
<1> QED BY <1>1, <1>3, <1>9, <1>13, <1>16, <1>17 DEF TFinding, InLoop, Choosing

LEMMA SimulateFinds ==
  ASSUME TBase, TFinding, Simulate
  PROVE  TFinding'
<1>1. /\ loc = "sim" /\ loc' = "snap" /\ UNCHANGED <<design, search>> /\ sim_one_step
  BY DEF Simulate, GoTo
<1>2. loc \in InLoop /\ loc' \in Locations
  BY <1>1 DEF InLoop, Locations
<1>3. /\ Simulating /\ design \in Designs /\ Len(trace) = Len(curr_branch) + Trying /\ Pending
  BY <1>1, <1>2, LoopFacts
<1>4. /\ Len(trace') = Len(trace) + 1 /\ \A k \in 1 .. Len(trace) : trace'[k] = trace[k]
  BY <1>1, <1>3, StepCall
<1>5. Calm /\ Len(history_choice') = Len(history_choice)
  BY <1>1, <1>3, StepIsCalm
<1>6. Trying = 0
  BY <1>1 DEF Trying
<1>7. Len(trace) \in Nat \ {0} /\ Len(trace) = Len(history_choice) /\ Len(history_choice) \in Nat
  BY <1>3, FramesAndChoices
<1>8. /\ trace'[1] = trace[1] /\ Len(curr_branch) <= Len(trace')
      /\ Len(history_choice') \in Nat /\ Len(curr_branch) - 1 <= Len(history_choice')
      /\ Len(curr_branch) = Len(history_choice)
  BY <1>3, <1>4, <1>5, <1>6, <1>7
<1>9. /\ RootGiven' /\ LiveSyms' \subseteq syms' /\ LiveSyms' \cap syms \subseteq LiveSyms /\ Progress'
      /\ Len(curr_branch) \in Nat \ {0} /\ Len(stack_per_state) = Len(curr_branch)
      /\ \A n \in Int : n <= Len(history_choice) /\ n <= Len(history_choice') /\ ChosenUpTo(n)
              => ChosenAgain(n)
      /\ \A F, F2 : OnBranch(F) /\ F2 \cap syms \subseteq F => BranchAgain(F2)
      /\ \A F, F2 : Left(F) /\ F2 \cap syms \subseteq F => LeftAgain(F2)
  BY <1>1, <1>2, <1>5, <1>8, CallFinds
<1>10. /\ ChosenUpTo(Len(stack_per_state) - 0) /\ OnBranch(LiveSyms)
       /\ branch_end_flag => Left(LiveSyms)
  BY <1>1 DEF TFinding, InLoop, Choosing
<1>11. ChosenAgain(Len(stack_per_state) - 0)
  BY <1>5, <1>8, <1>9, <1>10
<1>12. BranchAgain(LiveSyms') /\ (branch_end_flag => LeftAgain(LiveSyms'))
  BY <1>9, <1>10
<1>13. stack_per_state' = stack_per_state /\ design' = design /\ branch_end_flag' = branch_end_flag
  BY <1>1 DEF search
<1>14. ChosenUpTo(Len(stack_per_state) - 0)'
  BY <1>11, <1>13 DEF ChosenUpTo, ChosenAgain
<1>15. OnBranch(LiveSyms)' /\ (branch_end_flag' => Left(LiveSyms)')
  BY <1>12, <1>13 DEF OnBranch, BranchAgain, Left, IsLeft, LeftAgain, IsLeftAgain
<1> QED BY <1>1, <1>3, <1>9, <1>13, <1>14, <1>15 DEF TFinding, InLoop, Choosing

LEMMA SnapFinds ==
  ASSUME TBase, TFinding, Snap
  PROVE  TFinding'
<1>1. /\ loc = "snap" /\ loc' = "check" /\ UNCHANGED <<design, search>> /\ get_curr_state(<<>>)
  BY DEF Snap, GoTo
<1>2. loc \in InLoop /\ loc' \in Locations
  BY <1>1 DEF InLoop, Locations
<1>3. /\ Simulating /\ Orderly /\ SymbolsApart /\ RootGiven /\ LiveSyms \subseteq syms
      /\ design \in Designs /\ Len(trace) = Len(curr_branch) + Trying /\ ~ Pending
  BY <1>1, <1>2, LoopFacts
<1>4. trace' = trace /\ history_choice' = history_choice /\ Calm /\ LiveSyms' = LiveSyms
  BY <1>1, <1>3, CopyCall, CopyIsCalm, AssumptionsAreGiven
<1>5. Trying = 1
  BY <1>1 DEF Trying
<1>6. Len(history_choice) \in Nat /\ Len(trace) \in Nat \ {0} /\ Len(trace) = Len(history_choice) + 1
  BY <1>3, FramesAndChoices
<1>7. /\ trace'[1] = trace[1] /\ Len(curr_branch) <= Len(trace')
      /\ Len(history_choice') \in Nat /\ Len(curr_branch) - 1 <= Len(history_choice')
  BY <1>3, <1>4, <1>5, <1>6
<1>8. /\ RootGiven' /\ LiveSyms' \subseteq syms' /\ LiveSyms' \cap syms \subseteq LiveSyms /\ Progress'
      /\ Len(curr_branch) - 1 <= Len(history_choice)
      /\ Len(curr_branch) \in Nat \ {0} /\ Len(stack_per_state) = Len(curr_branch)
      /\ \A n \in Int : n <= Len(history_choice) /\ n <= Len(history_choice') /\ ChosenUpTo(n)
              => ChosenAgain(n)
      /\ \A F, F2 : OnBranch(F) /\ F2 \cap syms \subseteq F => BranchAgain(F2)
      /\ \A F, F2 : Left(F) /\ F2 \cap syms \subseteq F => LeftAgain(F2)
  BY <1>1, <1>2, <1>4, <1>7, CallFinds
<1>9. /\ ChosenUpTo(Len(stack_per_state) - 0) /\ OnBranch(LiveSyms)
      /\ branch_end_flag => Left(LiveSyms)
  BY <1>1 DEF TFinding, InLoop, Choosing
<1>10. ChosenAgain(Len(stack_per_state) - 0)
  BY <1>3, <1>4, <1>5, <1>6, <1>8, <1>9
<1>11. PICK e \in [InVars -> Sym] :
         /\ SymsOf(e) \subseteq syms' /\ SymsOf(e) \cap syms = {}
         /\ Described(ret', Append(trace[Len(trace)], e), PlanAt(Len(trace), <<>>))
  BY <1>1, <1>3, AssumptionsAreGiven, CopyDescribes
<1>12. SymsOf(e) \subseteq syms' \ LiveSyms'
  BY <1>3, <1>4, <1>11
<1>13. PlanAt(Len(trace), <<>>)' = PlanAt(Len(trace), <<>>)
  BY <1>4 DEF PlanAt
<1>14. Described(ret', Append(trace'[Len(trace')], e), PlanAt(Len(trace), <<>>)')
  BY <1>4, <1>11, <1>13
<1>15. RetIs(e)'
  BY <1>11, <1>12, <1>14 DEF RetIs
<1> DEFINE F2 == LiveSyms' \cup SymsOf(e)
<1>16. F2 \cap syms \subseteq LiveSyms
  BY <1>8, <1>11
<1>17. BranchAgain(F2) /\ (branch_end_flag => LeftAgain(F2))
  BY <1>8, <1>9, <1>16
<1>18. stack_per_state' = stack_per_state /\ design' = design /\ branch_end_flag' = branch_end_flag
  BY <1>1 DEF search
<1>19. ChosenUpTo(Len(stack_per_state) - 0)'
  BY <1>10, <1>18 DEF ChosenUpTo, ChosenAgain
<1>20. OnBranch(LiveSyms \cup SymsOf(e))' /\ (branch_end_flag' => Left(LiveSyms \cup SymsOf(e))')
  BY <1>17, <1>18 DEF OnBranch, BranchAgain, Left, IsLeft, LeftAgain, IsLeftAgain
<1>21. (\E x : /\ RetIs(x) /\ OnBranch(LiveSyms \cup SymsOf(x))
               /\ branch_end_flag => Left(LiveSyms \cup SymsOf(x)))'
  BY <1>15, <1>20
<1> QED BY <1>1, <1>3, <1>8, <1>18, <1>19, <1>21 DEF TFinding, InLoop, Choosing

LEMMA UndoFinds ==
  ASSUME TBase, TFinding, Undo
  PROVE  TFinding'
<1>1. /\ loc = "undo" /\ loc' = "head" /\ UNCHANGED <<design, search>> /\ undo_set_input
  BY DEF Undo, GoTo
<1>2. loc \in InLoop /\ loc' \in Locations
  BY <1>1 DEF InLoop, Locations
<1>3. /\ Simulating /\ design \in Designs /\ Len(trace) = Len(curr_branch) + Trying /\ Pending
      /\ LiveSyms \subseteq syms
  BY <1>1, <1>2, LoopFacts
<1>4. trace' = trace
  BY <1>1, <1>3, UndoCall
<1>5. /\ Calm /\ Len(history_choice') = Len(history_choice) - 1
      /\ history_choice' = Front(history_choice)
  BY <1>1, <1>3, UndoIsCalm
<1>6. Trying = 0
  BY <1>1 DEF Trying
<1>7. Len(history_choice) \in Nat /\ Len(trace) \in Nat \ {0} /\ Len(trace) = Len(history_choice)
  BY <1>3, FramesAndChoices
<1>8. /\ trace'[1] = trace[1] /\ Len(curr_branch) <= Len(trace')
      /\ Len(history_choice') \in Nat /\ Len(curr_branch) - 1 <= Len(history_choice')
      /\ Len(curr_branch) = Len(history_choice)
  BY <1>3, <1>4, <1>5, <1>6, <1>7
<1>9. /\ RootGiven' /\ LiveSyms' \subseteq syms' /\ LiveSyms' \cap syms \subseteq LiveSyms /\ Progress'
      /\ Len(curr_branch) \in Nat \ {0} /\ Len(stack_per_state) = Len(curr_branch)
      /\ \A n \in Int : n <= Len(history_choice) /\ n <= Len(history_choice') /\ ChosenUpTo(n)
              => ChosenAgain(n)
      /\ \A F, F2 : OnBranch(F) /\ F2 \cap syms \subseteq F => BranchAgain(F2)
      /\ \A F, F2 : Left(F) /\ F2 \cap syms \subseteq F => LeftAgain(F2)
  BY <1>1, <1>2, <1>5, <1>8, CallFinds
<1>10. LiveSyms' = SymsOfChoices(Front(history_choice))
  BY <1>5 DEF LiveSyms, SymsOfChoices
<1>11. /\ ChosenUpTo(Len(stack_per_state) - 1) /\ OnBranch(LiveSyms)
       /\ branch_end_flag => Left(LiveSyms')
  BY <1>1, <1>10 DEF TFinding, InLoop, Choosing
<1>12. ChosenAgain(Len(stack_per_state) - 1)
  BY <1>5, <1>7, <1>8, <1>9, <1>11
<1>13. BranchAgain(LiveSyms') /\ (branch_end_flag => LeftAgain(LiveSyms'))
  BY <1>9, <1>11
<1>14. stack_per_state' = stack_per_state /\ design' = design /\ branch_end_flag' = branch_end_flag
  BY <1>1 DEF search
<1>15. ChosenUpTo(Len(stack_per_state) - 1)'
  BY <1>12, <1>14 DEF ChosenUpTo, ChosenAgain
<1>16. OnBranch(LiveSyms)' /\ (branch_end_flag' => Left(LiveSyms)')
  BY <1>13, <1>14 DEF OnBranch, BranchAgain, Left, IsLeft, LeftAgain, IsLeftAgain
<1> QED BY <1>1, <1>3, <1>9, <1>14, <1>15, <1>16 DEF TFinding, InLoop, Choosing
-----------------------------------------------------------------------------
LEMMA BootFinds ==
  ASSUME RootsGiven, TBase, TFinding, Boot
  PROVE  TFinding'
<1>1. loc = "boot" /\ loc' = "start" /\ UNCHANGED <<design, search>>
  BY DEF Boot, GoTo
<1>2. IInv /\ trace = <<>>
  BY <1>1 DEF TBase, TInv
<1>3. PICK given \in Roots : init(given)
  BY DEF Boot
<1>4. RootGiven'
  BY <1>2, <1>3, RootsGiven, RootIsGiven
<1>5. history_choice' = <<>>
  BY <1>2, <1>3 DEF IInv, StacksAligned, init
<1>6. LiveSyms' = {}
  <2>1. Len(<<>>) = 0
    OBVIOUS
  <2> QED BY <1>5, <2>1 DEF LiveSyms, SymsOfChoices
<1>7. /\ design' = design /\ abs_state' = abs_state /\ curr_branch' = curr_branch
      /\ branch_end_flag' = branch_end_flag
  BY <1>1 DEF search
<1> QED BY <1>1, <1>4, <1>6, <1>7 DEF TFinding, InLoop

LEMMA EnterFinds ==
  ASSUME TBase, TFinding, Enter
  PROVE  TFinding'
<1>1. /\ loc = "start" /\ loc' = "entry" /\ get_curr_state(Assumptions)
      /\ UNCHANGED <<design, search>>
  BY DEF Enter, GoTo
<1>2. /\ Simulating /\ Orderly /\ SymbolsApart /\ ~ Pending /\ Len(trace) = 1
      /\ RootGiven /\ LiveSyms \subseteq syms
  BY <1>1 DEF TBase, TInv, Searching, TFinding
<1>3. Calm /\ LiveSyms' = LiveSyms /\ trace' = trace
  BY <1>1, <1>2, AssumptionsAreGiven, CopyIsCalm, CopyCall
<1>4. RootGiven' /\ LiveSyms' \subseteq syms'
  BY <1>2, <1>3, RootedStays
<1>5. \E e \in [InVars -> Sym] :
        /\ Own(InVars, e) /\ SymsOf(e) \subseteq syms' /\ SymsOf(e) \cap syms = {}
        /\ Described(ret', Append(trace[Len(trace)], e), PlanAt(Len(trace), Assumptions))
  BY <1>1, <1>2, AssumptionsAreGiven, CopyDescribes
<1>6. PlanAt(1, Assumptions)' = PlanAt(1, Assumptions)
  BY FirstPlan
<1>7. \E e \in [InVars -> Sym] :
        /\ SymsOf(e) \subseteq syms'
        /\ Described(ret', Append(trace'[1], e), PlanAt(1, Assumptions)')
  BY <1>2, <1>3, <1>5, <1>6
<1>8. /\ design' = design /\ abs_state' = abs_state /\ curr_branch' = curr_branch
      /\ branch_end_flag' = branch_end_flag
  BY <1>1 DEF search
<1> QED BY <1>1, <1>4, <1>7, <1>8 DEF TFinding, InLoop

LEMMA EnterUnreachableFinds ==
  ASSUME TBase, TFinding, EnterUnreachable
  PROVE  TFinding'
<1>1. /\ loc = "entry" /\ loc' = "skipped" /\ UNCHANGED vars /\ design' = design
  BY DEF EnterUnreachable, GoTo
<1>2. RootGiven' /\ LiveSyms' \subseteq syms'
  BY <1>1, SameIsCalm, RootedStays DEF TFinding
<1> QED BY <1>1, <1>2 DEF TFinding, InLoop

LEMMA EnterReachableFinds ==
  ASSUME TBase, TFinding, EnterReachable
  PROVE  TFinding'
<1>1. /\ loc = "entry" /\ loc' = "head" /\ UNCHANGED vars /\ design' = design
      /\ check_reachable(design, ret) /\ check_concrete_enough(design, ret, Xvar)
      /\ abs_state' = Append(abs_state, ret) /\ ret' = ret
      /\ curr_branch' = <<ret>> /\ stack_per_state' = <<NewPerStateStack>>
      /\ branch_end_flag' = branch_end_flag
  BY SameIsCalm DEF EnterReachable, GoTo
<1>2. /\ Simulating /\ SymbolsApart /\ ~ Pending /\ Len(trace) = 1
      /\ RootGiven /\ LiveSyms \subseteq syms /\ ret \in StateAsmpt /\ design \in Designs
      /\ abs_state = <<>> /\ ~ branch_end_flag
  BY <1>1 DEF TBase, TInv, Searching, TFinding, JustCopied
<1>3. IsDesign(design)
  BY <1>2, ExplorationAssumption
<1>4. Calm /\ LiveSyms' = LiveSyms /\ trace' = trace /\ syms' = syms
  BY <1>1, SameIsCalm
<1>5. RootGiven' /\ LiveSyms' \subseteq syms' /\ Root' = Root
  BY <1>2, <1>4, RootedStays
<1>6. abs_state' = <<ret>> /\ Len(abs_state') = 1 /\ abs_state'[1] = ret
  BY <1>1, <1>2
<1>7. Len(curr_branch') = 1 /\ curr_branch'[1] = ret /\ \A j \in 1 .. Len(curr_branch') : j = 1
  BY <1>1
<1>8. /\ Len(stack_per_state') = 1 /\ stack_per_state'[1] = NewPerStateStack
  BY <1>1
<1> DEFINE P == PlanAt(1, Assumptions)
<1>9. PICK e \in [InVars -> Sym] : SymsOf(e) \subseteq syms /\ Described(ret, Append(trace[1], e), P)
  BY <1>1 DEF TFinding
<1>10. P' = P
  BY FirstPlan
<1>11. Steady(design, Append(trace[1], e), P)
  <2> HIDE DEF P
  <2>1. Described(ret, Append(trace[Len(trace)], e), P)
    BY <1>2, <1>9
  <2>2. Steady(design, Append(trace[Len(trace)], e), P)
    BY <1>1, <1>2, <1>3, <1>9, <2>1, RetConcrete
  <2> QED BY <1>2, <2>2
<1>12. NodesOf(design, ret) # {}
  BY <1>1, ReachableHasNodes
<1>13. NodesOf(design, ret) = {Root}
  <2>1. 1 \in 1 .. Len(trace)
    BY <1>2
  <2>2. Len(Append(trace[1], e)) = 1 + 1 /\ Append(trace[1], e)[1] = trace[1][1]
    BY <1>2, <2>1, CopyPath
  <2> DEFINE p == Append(trace[1], e)
  <2>3. Described(ret, p, P) /\ Len(p) = 2 /\ p[1][StateVar] = Root
    BY <1>2, <1>9, <2>2, RootInitial
  <2> HIDE DEF p, P
  <2>4. NodesOf(design, ret) \subseteq {Root}
    BY <1>3, <2>3, FirstNodesAre
  <2> QED BY <1>12, <2>4
<1>14. LiveSyms' = {}
  <2>1. Len(history_choice) = 0
    BY <1>2, FramesAndChoices
  <2> QED BY <1>4, <2>1, NothingLive
<1>15. Copied(design', syms', {}, ret, trace'[1], P')
  <2> HIDE DEF P
  <2>1. SymsOf(e) \subseteq syms \ {}
    BY <1>9
  <2>2. Copied(design, syms, {}, ret, trace[1], P)
    BY <1>9, <1>11, <1>12, <2>1 DEF Copied
  <2> QED BY <1>1, <1>4, <1>10, <2>2
<1>16. OnBranch(LiveSyms)'
  <2>1. BranchAgain({})
    <3> SUFFICES ASSUME NEW j \in 1 .. Len(curr_branch')
                 PROVE  Copied(design', syms', {}, curr_branch'[j], trace'[j], PlanAt(j, PreOf(j))')
      BY DEF BranchAgain
    <3>1. j = 1
      BY <1>7
    <3> QED BY <1>7, <1>15, <3>1 DEF PreOf
  <2> QED BY <1>14, <2>1 DEF OnBranch, BranchAgain
<1>17. Progress'
  <2>1. RecordedNodes' = NodesOf(design, ret)
    BY <1>1, <1>6 DEF RecordedNodes
  <2>2. Explored(design, ret, NewPerStateStack, RecordedNodes')
    BY NewExplored
  <2>3. \A j \in 1 .. Len(curr_branch') :
          /\ \E m \in 1 .. Len(abs_state') : abs_state'[m] = curr_branch'[j]
          /\ Explored(design', curr_branch'[j], stack_per_state'[j], RecordedNodes')
    BY <1>1, <1>6, <1>7, <1>8, <2>2
  <2>4. \A m \in 1 .. Len(abs_state') : \E j \in 1 .. Len(curr_branch') : curr_branch'[j] = abs_state'[m]
    BY <1>6, <1>7
  <2> QED BY <1>5, <1>13, <2>1, <2>3, <2>4 DEF Progress, IsRecorded
<1>18. ChosenUpTo(Len(stack_per_state) - 1)'
  <2>1. \A j \in 1 .. Len(stack_per_state') : ~ (j <= Len(stack_per_state') - 1)
    BY <1>8
  <2> QED BY <2>1 DEF ChosenUpTo
<1> QED BY <1>1, <1>2, <1>5, <1>16, <1>17, <1>18 DEF TFinding, InLoop, Choosing

LEMMA IdleFinds ==
  ASSUME TFinding, UNCHANGED tvars
  PROVE  TFinding'
<1>1. /\ UNCHANGED vars
      /\ UNCHANGED <<design, loc, abs_state, stack_per_state, curr_branch, all_branches,
                     branch_end_flag, verdict>>
  BY DEF tvars, search
<1>2. /\ Calm /\ LiveSyms' = LiveSyms /\ trace' = trace /\ syms' = syms /\ ret' = ret
      /\ history_choice' = history_choice
  BY <1>1, SameIsCalm
<1>3. \A n, pre : PlanAt(n, pre)' = PlanAt(n, pre)
  BY <1>2 DEF PlanAt
<1>4. \A n, s : LeftPlan(n, s)' = LeftPlan(n, s)
  BY <1>2 DEF LeftPlan
<1>5. /\ RootGiven' = RootGiven /\ Root' = Root /\ RecordedNodes' = RecordedNodes
      /\ Top' = Top
  BY <1>1, <1>2 DEF RootGiven, Root, RecordedNodes, Top
<1>6. \A e : (RetIs(e)' <=> RetIs(e))
  BY <1>2 DEF RetIs, PlanAt
<1>7. \A e : (TDecided(e)' <=> TDecided(e))
  BY <1>1, <1>2, <1>3, <1>5, <1>6 DEF TDecided
<1>8. \A r : IsRecorded(r)' <=> IsRecorded(r)
  BY <1>1 DEF IsRecorded
<1>9. Progress' <=> Progress
  BY <1>1, <1>5, <1>8 DEF Progress
<1>10. \A n : ChosenUpTo(n)' <=> ChosenUpTo(n)
  BY <1>1, <1>2 DEF ChosenUpTo
<1>11. \A F : OnBranch(F)' <=> OnBranch(F)
  BY <1>1, <1>2, <1>3 DEF OnBranch, PreOf
<1>12. \A F : Left(F)' <=> Left(F)
  BY <1>1, <1>2, <1>4, <1>5, <1>8 DEF Left, IsLeft
<1>13. \A n : Undetermined(n)' <=> Undetermined(n)
  BY <1>1 DEF Undetermined, Admitted
<1>14. loc = "entry" => (\E e \in [InVars -> Sym] :
       SymsOf(e) \subseteq syms /\ Described(ret, Append(trace[1], e), PlanAt(1, Assumptions)))'
  BY <1>2, FirstPlan DEF TFinding
<1> QED BY <1>1, <1>2, <1>5, <1>6, <1>7, <1>9, <1>10, <1>11, <1>12, <1>13, <1>14 DEF TFinding
-----------------------------------------------------------------------------
\* A state on top that is out of choices is closed.
LEMMA TopCloses ==
  ASSUME PointsDecide, TBase, TFinding, loc = "branch", ~ has_valid_choice(Top)
  PROVE  Closed(design, curr_branch[Len(curr_branch)], RecordedNodes)
<1>1. loc \in InLoop
  BY DEF InLoop
<1>2. /\ Len(curr_branch) \in Nat \ {0} /\ Top = stack_per_state[Len(curr_branch)]
      /\ design \in Designs /\ IsDesign(design) /\ Progress
  BY <1>1, LoopFacts
<1>3. OnBranch(LiveSyms)
  BY DEF TFinding, InLoop
<1> DEFINE k == Len(curr_branch)
           C == curr_branch[k]
<1>4. k \in 1 .. Len(curr_branch)
  BY <1>2
<1>5. Explored(design, C, Top, RecordedNodes)
  BY <1>2, <1>4 DEF Progress
<1>6. \E p, P : Described(C, p, P)
  BY <1>3, <1>4 DEF OnBranch, Copied
<1> HIDE DEF C, k
<1>7. NodesOf(design, C) \subseteq Nodes
  BY <1>2, <1>6, NodesAreNodes
<1>8. Top.no_next_choice
  BY DEF has_valid_choice
<1>9. Closed(design, C, RecordedNodes)
  BY <1>2, <1>5, <1>7, <1>8, AllPassed
<1> QED BY <1>9 DEF C, k

LEMMA LeaveLastFinds ==
  ASSUME PointsDecide, TBase, TFinding, LeaveLast
  PROVE  TFinding'
<1>1. /\ loc = "branch" /\ loc' = "done" /\ UNCHANGED vars /\ design' = design
      /\ abs_state' = abs_state /\ ~ has_valid_choice(Top) /\ Len(stack_per_state) = 1
  BY DEF LeaveLast, GoTo
<1>2. loc \in InLoop
  BY <1>1 DEF InLoop
<1>3. /\ RootGiven /\ LiveSyms \subseteq syms /\ Len(stack_per_state) = Len(curr_branch)
      /\ design \in Designs /\ Progress
  BY <1>2, LoopFacts
<1>4. Calm /\ LiveSyms' = LiveSyms /\ trace' = trace /\ syms' = syms
  BY <1>1, SameIsCalm
<1>5. RootGiven' /\ LiveSyms' \subseteq syms' /\ Root' = Root
  BY <1>3, <1>4, RootedStays
<1>6. RecordedNodes' = RecordedNodes
  BY <1>1 DEF RecordedNodes
<1>7. Closed(design, curr_branch[1], RecordedNodes)
  BY <1>1, <1>3, TopCloses
<1>8. \A m \in 1 .. Len(abs_state) : Closed(design, abs_state[m], RecordedNodes)
  <2>1. Len(curr_branch) = 1
    BY <1>1, <1>3
  <2>2. \A j \in 1 .. Len(curr_branch) : j = 1
    BY <2>1
  <2> QED BY <1>3, <1>7, <2>2 DEF Progress
<1>9. Root' \in RecordedNodes' /\ \A m \in 1 .. Len(abs_state') : Closed(design', abs_state'[m], RecordedNodes')
  BY <1>1, <1>3, <1>5, <1>6, <1>8 DEF Progress
<1> QED BY <1>1, <1>3, <1>5, <1>9 DEF TFinding, InLoop

\* The last input has symbols that those before it do not have.
LEMMA LastIsFresh ==
  ASSUME Simulating, RootGiven, ~ Pending, NEW e \in [InVars -> Sym],
         Clear(Append(trace[Len(trace)], e)), Len(trace) > 1
  PROVE  SymsOf(history_choice[Len(history_choice)].var_assign)
           \cap SymsOfChoices(Front(history_choice)) = {}
<1>1. /\ Len(trace) \in Nat \ {0} /\ Len(history_choice) \in Nat
      /\ Len(trace) = Len(history_choice) + 1
  BY FramesAndChoices
<1> DEFINE n == Len(history_choice)
           p == Append(trace[Len(trace)], e)
           H == history_choice
<1>2. H \in Seq(ChoiceItem) /\ H # <<>> /\ n \in Nat \ {0}
  BY <1>1 DEF Simulating, IInv, TypeOK
<1>3. Len(trace) \in 1 .. Len(trace)
  BY <1>1
<1>4. Len(p) = Len(trace) + 1 /\ \A i \in 2 .. Len(trace) : p[i] = H[i - 1].var_assign
  BY <1>3, CopyPath
<1>5. Clear(p)
  OBVIOUS
<1> HIDE DEF p
<1>6. Len(Front(H)) = n - 1 /\ \A j \in 1 .. n - 1 : Front(H)[j] = H[j]
  BY <1>2, FrontType
<1> SUFFICES ASSUME NEW j \in 1 .. n - 1
             PROVE  SymsOf(H[n].var_assign) \cap SymsOf(H[j].var_assign) = {}
  BY <1>6 DEF SymsOfChoices
<1>7. n + 1 \in 2 .. Len(trace) /\ j + 1 \in 2 .. Len(trace) /\ n + 1 # j + 1
      /\ (n + 1) - 1 = n /\ (j + 1) - 1 = j
  BY <1>1, <1>2
<1>8. p[n + 1] = H[n].var_assign /\ p[j + 1] = H[j].var_assign
  BY <1>4, <1>7
<1>9. n + 1 \in 2 .. Len(p) /\ j + 1 \in 2 .. Len(p)
  BY <1>1, <1>4, <1>7
<1> QED BY <1>5, <1>7, <1>8, <1>9 DEF Clear

\* When the search goes back, the plan of the state that is left has the choice that
\* led to it.
LEMMA PlanIsLeftPlan ==
  ASSUME NEW k \in Nat \ {0}, NEW s, history_choice[k].assumptions = ChoiceAssumptions(s)
  PROVE  PlanAt(k + 1, <<>>) = LeftPlan(k, s)
<1>1. ToSet(<<>>) = {}
  BY DEF ToSet
<1> DEFINE P == PlanAt(k + 1, <<>>)
           Q == LeftPlan(k, s)
<1>2. /\ P = [i \in 2 .. (k + 1) + 1 |->
               ToSet(IF i <= k + 1 THEN history_choice[i - 1].assumptions ELSE <<>>)]
      /\ Q = [i \in 2 .. k + 2 |-> IF i <= k THEN ToSet(history_choice[i - 1].assumptions)
                        ELSE IF i = k + 1 THEN ToSet(ChoiceAssumptions(s)) ELSE {}]
  BY DEF PlanAt, LeftPlan
<1>3. (k + 1) + 1 = k + 2
  OBVIOUS
<1>4. ASSUME NEW i \in 2 .. k + 2
      PROVE  ToSet(IF i <= k + 1 THEN history_choice[i - 1].assumptions ELSE <<>>)
             = (IF i <= k THEN ToSet(history_choice[i - 1].assumptions)
                ELSE IF i = k + 1 THEN ToSet(ChoiceAssumptions(s)) ELSE {})
  <2>1. CASE i <= k
    <3>1. i <= k + 1
      BY <2>1
    <3> QED BY <2>1, <3>1
  <2>2. CASE i = k + 1
    <3>1. i - 1 = k /\ ~ (i <= k) /\ i <= k + 1
      BY <2>2
    <3> QED BY <2>2, <3>1
  <2>3. CASE i = k + 2
    <3>1. ~ (i <= k) /\ ~ (i <= k + 1) /\ i # k + 1
      BY <2>3
    <3> QED BY <1>1, <3>1
  <2>4. i <= k \/ i = k + 1 \/ i = k + 2
    OBVIOUS
  <2> QED BY <2>1, <2>2, <2>3, <2>4
<1> HIDE DEF P, Q
<1>5. P = Q
  BY <1>2, <1>3, <1>4
<1> QED BY <1>5 DEF P, Q

LEMMA FrameAppend ==
  ASSUME Simulating, NEW k \in 1 .. Len(trace) - 1
  PROVE  trace[k + 1] = Append(trace[k], history_choice[k].var_assign)
BY DEF Simulating, IInv, Replay, FramesReplayChoices
-----------------------------------------------------------------------------
\* The search and the simulator around a step back from the state on top.
LEMMA LeaveStateFacts ==
  ASSUME TBase, TFinding, LeaveState
  PROVE  /\ Simulating /\ ~ Pending /\ Len(curr_branch) \in Nat /\ Len(curr_branch) > 1
         /\ Len(trace) = Len(curr_branch) /\ Len(stack_per_state) = Len(curr_branch)
         /\ Len(history_choice) = Len(curr_branch) - 1
         /\ Calm /\ LiveSyms' = LiveSyms /\ Len(history_choice') = Len(history_choice)
         /\ \A j \in 1 .. Len(curr_branch) - 1 : trace'[j] = trace[j]
         /\ Len(curr_branch') = Len(curr_branch) - 1
         /\ Len(stack_per_state') = Len(curr_branch) - 1
         /\ \A j \in 1 .. Len(curr_branch) - 1 : /\ curr_branch'[j] = curr_branch[j]
                                                 /\ stack_per_state'[j] = stack_per_state[j]
         /\ Top' = stack_per_state[Len(curr_branch) - 1]
         /\ Last(all_branches') = Append(curr_branch', curr_branch[Len(curr_branch)])
         /\ curr_branch[Len(curr_branch)] \in StateAsmpt
<1>1. /\ loc = "branch" /\ backtrack
      /\ Len(stack_per_state) > 1 /\ stack_per_state' = Front(stack_per_state)
      /\ all_branches' = Append(all_branches, curr_branch) /\ curr_branch' = Front(curr_branch)
  BY DEF LeaveState, GoTo
<1>2. loc \in InLoop /\ Trying = 0
  BY <1>1 DEF InLoop, Trying
<1>3. /\ Simulating /\ ~ Pending /\ Len(curr_branch) \in Nat \ {0}
      /\ Len(stack_per_state) = Len(curr_branch) /\ Len(trace) = Len(curr_branch) + Trying
      /\ curr_branch \in Seq(StateAsmpt) /\ all_branches \in Seq(Seq(StateAsmpt))
  BY <1>1, <1>2, LoopFacts
<1>4. /\ Len(trace') = Len(trace) - 1 /\ \A j \in 1 .. Len(trace) - 1 : trace'[j] = trace[j]
  BY <1>1, <1>3, BacktrackCall
<1>5. Calm /\ LiveSyms' = LiveSyms /\ Len(history_choice') = Len(history_choice)
  BY <1>1, <1>3, BacktrackIsCalm
<1>6. Len(trace) = Len(history_choice) + 1 /\ Len(history_choice) \in Nat
  BY <1>3, FramesAndChoices
<1>7. Len(trace) = Len(curr_branch) /\ Len(curr_branch) > 1
  BY <1>1, <1>2, <1>3
<1> DEFINE Stacks == [stack : Seq(Node), ptr : Nat, no_next_choice : BOOLEAN]
<1>8. stack_per_state \in Seq(Stacks)
  BY DEF TBase, TInv, Searching, TTypeOK
<1> HIDE DEF Stacks
<1>9. stack_per_state # <<>> /\ curr_branch # <<>>
  BY <1>1, <1>3
<1>10. /\ stack_per_state' \in Seq(Stacks) /\ Len(stack_per_state') = Len(stack_per_state) - 1
       /\ \A j \in 1 .. Len(stack_per_state) - 1 : stack_per_state'[j] = stack_per_state[j]
  BY <1>1, <1>8, <1>9, FrontType
<1>11. /\ curr_branch' \in Seq(StateAsmpt) /\ Len(curr_branch') = Len(curr_branch) - 1
       /\ \A j \in 1 .. Len(curr_branch) - 1 : curr_branch'[j] = curr_branch[j]
  BY <1>1, <1>3, <1>9, FrontType
<1>12. Top' = stack_per_state[Len(curr_branch) - 1]
  <2>1. stack_per_state' # <<>> /\ Len(stack_per_state') = Len(curr_branch) - 1
    BY <1>3, <1>7, <1>10
  <2>2. Last(stack_per_state') = stack_per_state'[Len(stack_per_state')]
    BY <1>10, <2>1, LastType
  <2>3. Top' = Last(stack_per_state')
    BY DEF Top
  <2>4. Len(curr_branch) - 1 \in 1 .. Len(stack_per_state) - 1
    BY <1>3, <1>7
  <2> QED BY <1>10, <2>1, <2>2, <2>3, <2>4
<1> DEFINE L == curr_branch[Len(curr_branch)]
<1>13. L \in StateAsmpt
  BY <1>3
<1>14. Last(all_branches') = Append(curr_branch', L)
  <2>1. Last(all_branches') = curr_branch
    <3>1. /\ all_branches' \in Seq(Seq(StateAsmpt)) /\ all_branches' # <<>>
          /\ Len(all_branches') = Len(all_branches) + 1
          /\ all_branches'[Len(all_branches) + 1] = curr_branch
      BY <1>1, <1>3, AppendType
    <3> QED BY <3>1, LastType
  <2> HIDE DEF L
  <2>2. /\ Append(curr_branch', L) \in Seq(StateAsmpt)
        /\ Len(Append(curr_branch', L)) = Len(curr_branch') + 1
        /\ \A j \in 1 .. Len(curr_branch') : Append(curr_branch', L)[j] = curr_branch'[j]
        /\ Append(curr_branch', L)[Len(curr_branch') + 1] = L
    BY <1>11, <1>13, AppendType
  <2>3. (Len(curr_branch) - 1) + 1 = Len(curr_branch)
    BY <1>3
  <2>4. \A j \in 1 .. Len(curr_branch) : j \in 1 .. Len(curr_branch) - 1 \/ j = Len(curr_branch)
    BY <1>3
  <2>5. \A j \in 1 .. Len(curr_branch) : Append(curr_branch', L)[j] = curr_branch[j]
    BY <1>11, <2>2, <2>3, <2>4 DEF L
  <2>6. curr_branch = Append(curr_branch', L)
    BY <1>3, <1>11, <2>2, <2>3, <2>5, SameSequence
  <2> QED BY <2>1, <2>6
<1>15. \A j \in 1 .. Len(curr_branch) - 1 : trace'[j] = trace[j]
  BY <1>4, <1>7
<1> QED BY <1>3, <1>5, <1>6, <1>7, <1>10, <1>11, <1>12, <1>13, <1>14, <1>15

LEMMA LeaveStateFinds ==
  ASSUME PointsDecide, TBase, TFinding, LeaveState
  PROVE  TFinding'
<1> DEFINE k == Len(curr_branch)
           L == curr_branch[k]
           a == history_choice[k - 1].var_assign
           F == SymsOfChoices(Front(history_choice'))
<1>1. /\ loc = "branch" /\ loc' = "undo" /\ ~ has_valid_choice(Top)
      /\ branch_end_flag' = TRUE /\ design' = design /\ abs_state' = abs_state
  BY DEF LeaveState, GoTo
<1>2. loc \in InLoop
  BY <1>1 DEF InLoop
<1>3. /\ RootGiven /\ LiveSyms \subseteq syms /\ design \in Designs /\ IsDesign(design)
      /\ Progress /\ Orderly /\ SymbolsApart
  BY <1>2, LoopFacts
<1>4. /\ Simulating /\ ~ Pending /\ k \in Nat /\ k > 1
      /\ Len(trace) = k /\ Len(stack_per_state) = k /\ Len(history_choice) = k - 1
      /\ Calm /\ LiveSyms' = LiveSyms /\ Len(history_choice') = Len(history_choice)
      /\ \A j \in 1 .. k - 1 : trace'[j] = trace[j]
      /\ Len(curr_branch') = k - 1 /\ Len(stack_per_state') = k - 1
      /\ \A j \in 1 .. k - 1 : /\ curr_branch'[j] = curr_branch[j]
                               /\ stack_per_state'[j] = stack_per_state[j]
      /\ Top' = stack_per_state[k - 1] /\ Last(all_branches') = Append(curr_branch', L)
      /\ L \in StateAsmpt
  BY LeaveStateFacts
<1>5. ChosenUpTo(Len(stack_per_state) - 1) /\ OnBranch(LiveSyms)
  BY <1>1 DEF TFinding, InLoop, Choosing
<1>6. trace'[1] = trace[1]
  <2>1. 1 \in 1 .. k - 1
    BY <1>4
  <2> QED BY <1>4, <2>1
<1>7. /\ RootGiven' /\ LiveSyms' \subseteq syms' /\ syms \subseteq syms' /\ Root' = Root
  BY <1>3, <1>4, <1>6, RootedStays
<1>8. RecordedNodes' = RecordedNodes
  BY <1>1 DEF RecordedNodes
<1>9. Closed(design, L, RecordedNodes)
  BY <1>1, TopCloses
<1> HIDE DEF k, L, a, F
<1>10. \A j \in 1 .. k - 1 : j \in 1 .. k
  BY <1>4
<1>11. Progress'
  <2>1. ASSUME NEW j \in 1 .. k - 1
        PROVE  /\ \E m \in 1 .. Len(abs_state') : abs_state'[m] = curr_branch'[j]
               /\ Explored(design', curr_branch'[j], stack_per_state'[j], RecordedNodes')
    <3>1. j \in 1 .. Len(curr_branch)
      BY <1>10 DEF k
    <3>2. /\ IsRecorded(curr_branch[j])
          /\ Explored(design, curr_branch[j], stack_per_state[j], RecordedNodes)
      BY <1>3, <3>1 DEF Progress
    <3>3. curr_branch'[j] = curr_branch[j] /\ stack_per_state'[j] = stack_per_state[j]
      BY <1>4
    <3> QED BY <1>1, <1>8, <3>2, <3>3 DEF IsRecorded
  <2>2. ASSUME NEW m \in 1 .. Len(abs_state)
        PROVE  \/ \E j \in 1 .. k - 1 : curr_branch'[j] = abs_state[m]
               \/ Closed(design, abs_state[m], RecordedNodes)
    <3>1. CASE Closed(design, abs_state[m], RecordedNodes)
      BY <3>1
    <3>2. CASE \E j \in 1 .. k : curr_branch[j] = abs_state[m]
      <4>1. PICK j \in 1 .. k : curr_branch[j] = abs_state[m]
        BY <3>2
      <4>2. CASE j = k
        BY <1>9, <4>1, <4>2 DEF L
      <4>3. CASE j # k
        <5>1. j \in 1 .. k - 1
          BY <1>4, <4>3
        <5>2. curr_branch'[j] = abs_state[m]
          BY <1>4, <4>1, <5>1
        <5> QED BY <5>1, <5>2
      <4> QED BY <4>2, <4>3
    <3> QED BY <1>3, <3>1, <3>2 DEF Progress, k
  <2>3. Root \in RecordedNodes
    BY <1>3 DEF Progress
  <2> QED BY <1>1, <1>4, <1>7, <1>8, <2>1, <2>2, <2>3 DEF Progress, IsRecorded
<1>12. \A j \in 1 .. Len(history_choice) : SameChoice(history_choice[j], history_choice'[j])
  <2>1. Len(history_choice) \in Nat
    BY <1>4
  <2>2. \A j \in 1 .. Len(history_choice) : j <= Len(history_choice')
    BY <1>4, <2>1
  <2> QED BY <2>2, <1>4 DEF Calm
<1>13. ChosenUpTo(Len(stack_per_state) - 1)'
  <2> SUFFICES ASSUME NEW j \in 1 .. Len(stack_per_state'), j <= Len(stack_per_state') - 1
               PROVE  Chosen(history_choice'[j], stack_per_state'[j])
    BY DEF ChosenUpTo
  <2>1. j \in 1 .. k - 1 /\ j \in 1 .. Len(stack_per_state) /\ j <= Len(stack_per_state) - 1
        /\ j \in 1 .. Len(history_choice)
    BY <1>4
  <2>2. Chosen(history_choice[j], stack_per_state[j])
    BY <1>5, <2>1 DEF ChosenUpTo
  <2>3. SameChoice(history_choice[j], history_choice'[j]) /\ stack_per_state'[j] = stack_per_state[j]
    BY <1>4, <1>12, <2>1
  <2> QED BY <2>2, <2>3 DEF Chosen, SameChoice
<1>14. OnBranch(LiveSyms)'
  <2>1. LiveSyms' \cap syms \subseteq LiveSyms
    BY <1>4
  <2>2. BranchAgain(LiveSyms')
    <3> SUFFICES ASSUME NEW j \in 1 .. Len(curr_branch')
                 PROVE  Copied(design', syms', LiveSyms', curr_branch'[j], trace'[j], PlanAt(j, PreOf(j))')
      BY DEF BranchAgain
    <3>1. j \in 1 .. k - 1 /\ j \in 1 .. Len(curr_branch) /\ j \in Nat \ {0}
          /\ j - 1 <= Len(history_choice) /\ j - 1 <= Len(history_choice') /\ Len(history_choice) \in Nat
      BY <1>4 DEF k
    <3>2. PlanAt(j, PreOf(j))' = PlanAt(j, PreOf(j))
      <4>1. \A pre : PlanAt(j, pre)' = PlanAt(j, pre)
        BY <1>4, <3>1, PlanStays
      <4> QED BY <4>1 DEF PreOf
    <3> DEFINE C == curr_branch[j]
               p == trace[j]
               P == PlanAt(j, PreOf(j))
    <3>3. Copied(design, syms, LiveSyms, C, p, P)
      BY <1>5, <3>1 DEF OnBranch
    <3> HIDE DEF C, p, P
    <3>4. Copied(design, syms', LiveSyms', C, p, P)
      BY <1>7, <2>1, <3>3, CopiedStays
    <3>5. C = curr_branch'[j] /\ p = trace'[j]
      BY <1>4, <3>1 DEF C, p
    <3> QED BY <1>1, <3>2, <3>4, <3>5 DEF P
  <2> QED BY <2>2 DEF OnBranch, BranchAgain
<1>15. k \in 1 .. Len(curr_branch) /\ k - 1 \in 1 .. Len(history_choice) /\ k - 1 \in Nat \ {0}
       /\ k - 1 \in 1 .. Len(trace) - 1 /\ (k - 1) + 1 = k
  BY <1>4 DEF k
<1>16. Copied(design, syms, LiveSyms, L, trace[k], PlanAt(k, <<>>))
  <2>1. k # 1 /\ PreOf(k) = <<>>
    BY <1>4 DEF PreOf
  <2>2. Copied(design, syms, LiveSyms, curr_branch[k], trace[k], PlanAt(k, PreOf(k)))
    BY <1>5, <1>15 DEF OnBranch
  <2> QED BY <2>1, <2>2 DEF L
<1>17. Chosen(history_choice[k - 1], stack_per_state[k - 1])
  <2>1. k - 1 \in 1 .. Len(stack_per_state) /\ k - 1 <= Len(stack_per_state) - 1
    BY <1>4
  <2> QED BY <1>5, <2>1 DEF ChosenUpTo
<1>18. ChosenBy(a, Top') /\ a \in [InVars -> Val \cup Sym] /\ SymsOf(a) \subseteq syms
  <2>1. ChosenBy(a, Top')
    BY <1>4, <1>17 DEF Chosen, a
  <2>2. Own(InVars, a)
    BY <1>3, <1>15 DEF Orderly, a
  <2>3. SymsOf(a) \subseteq syms
    BY <1>3, <1>15, ChoiceIsLive DEF a
  <2> QED BY <2>1, <2>2, <2>3 DEF Own
<1>19. F = SymsOfChoices(Front(history_choice)) /\ F \subseteq LiveSyms
  <2> DEFINE H == history_choice
             G == history_choice'
  <2>1. Simulating'
    BY <1>1, <1>4, BacktrackCall DEF LeaveState
  <2>2. H \in Seq(ChoiceItem) /\ G \in Seq(ChoiceItem) /\ Len(G) = Len(H) /\ Len(H) \in Nat \ {0}
    BY <1>4, <1>15, <2>1 DEF Simulating, IInv, TypeOK
  <2>3. \A j \in 1 .. Len(H) : SameChoice(H[j], G[j])
    BY <1>12
  <2> HIDE DEF H, G
  <2>4. H # <<>> /\ G # <<>>
    BY <2>2
  <2>5. /\ Front(H) \in Seq(ChoiceItem) /\ Len(Front(H)) = Len(H) - 1
        /\ \A j \in 1 .. Len(H) - 1 : Front(H)[j] = H[j]
    BY <2>2, <2>4, FrontType
  <2>6. /\ Front(G) \in Seq(ChoiceItem) /\ Len(Front(G)) = Len(G) - 1
        /\ \A j \in 1 .. Len(G) - 1 : Front(G)[j] = G[j]
    BY <2>2, <2>4, FrontType
  <2>7. /\ \A j \in 1 .. Len(Front(G)) : /\ SameChoice(Front(H)[j], Front(G)[j])
                                         /\ SameChoice(Front(G)[j], Front(H)[j])
        /\ \A j \in 1 .. Len(Front(H)) : SameChoice(H[j], Front(H)[j])
    <3>1. \A j \in 1 .. Len(H) - 1 : /\ j \in 1 .. Len(H) /\ Front(H)[j] = H[j]
                                     /\ Front(G)[j] = G[j]
      BY <2>2, <2>5, <2>6
    <3>2. \A c, d : SameChoice(c, d) => SameChoice(d, c)
      BY DEF SameChoice
    <3>3. \A c : SameChoice(c, c)
      BY DEF SameChoice
    <3>4. Len(Front(G)) = Len(H) - 1 /\ Len(Front(H)) = Len(H) - 1
      BY <2>2, <2>5, <2>6
    <3> QED BY <2>3, <3>1, <3>2, <3>3, <3>4
  <2>8. Len(Front(G)) = Len(Front(H)) /\ Len(Front(H)) <= Len(H) /\ Len(Front(H)) \in Nat
    BY <2>2, <2>5, <2>6
  <2>9. /\ SymsOfChoices(Front(G)) \subseteq SymsOfChoices(Front(H))
        /\ SymsOfChoices(Front(H)) \subseteq SymsOfChoices(Front(G))
    BY <2>5, <2>6, <2>7, <2>8, FewerChoices
  <2>10. SymsOfChoices(Front(H)) \subseteq SymsOfChoices(H)
    BY <2>2, <2>5, <2>7, <2>8, FewerChoices
  <2> QED BY <2>9, <2>10 DEF F, G, H, LiveSyms
<1>20. SymsOf(a) \cap F = {}
  <2>1. PICK e \in [InVars -> Sym] : Described(L, Append(trace[k], e), PlanAt(k, <<>>))
    BY <1>16 DEF Copied
  <2>2. Clear(Append(trace[Len(trace)], e)) /\ Len(trace) > 1
    BY <1>4, <2>1 DEF Described
  <2>3. SymsOf(history_choice[Len(history_choice)].var_assign)
           \cap SymsOfChoices(Front(history_choice)) = {}
    BY <1>3, <1>4, <2>2, LastIsFresh
  <2> QED BY <1>4, <1>19, <2>3 DEF a
<1>21. Copied(design, syms', F, L, Append(trace[k - 1], a), LeftPlan(k - 1, Top'))
  <2>1. trace[k] = Append(trace[k - 1], a)
    BY <1>4, <1>15, FrameAppend DEF a
  <2>2. history_choice[k - 1].assumptions = ChoiceAssumptions(Top')
    BY <1>4, <1>17 DEF Chosen
  <2>3. PlanAt(k, <<>>) = LeftPlan(k - 1, Top')
    BY <1>15, <2>2, PlanIsLeftPlan
  <2>4. F \cap syms \subseteq LiveSyms
    BY <1>19
  <2> QED BY <1>7, <1>16, <2>1, <2>3, <2>4, CopiedStays
<1>22. LeftPlan(Len(curr_branch), Top)' = LeftPlan(k - 1, Top')
  <2>1. \A i \in 2 .. (k - 1) + 2 : i <= k - 1 =>
          ToSet(history_choice'[i - 1].assumptions) = ToSet(history_choice[i - 1].assumptions)
    <3> SUFFICES ASSUME NEW i \in 2 .. (k - 1) + 2, i <= k - 1
                 PROVE  ToSet(history_choice'[i - 1].assumptions)
                          = ToSet(history_choice[i - 1].assumptions)
      OBVIOUS
    <3>1. i - 1 \in 1 .. Len(history_choice)
      BY <1>4
    <3>2. SameChoice(history_choice[i - 1], history_choice'[i - 1])
      BY <1>12, <3>1
    <3> QED BY <3>2 DEF SameChoice
  <2> DEFINE A == ToSet(ChoiceAssumptions(Top'))
             n == k - 1
  <2>2. LeftPlan(Len(curr_branch), Top)'
          = [i \in 2 .. n + 2 |-> IF i <= n THEN ToSet(history_choice'[i - 1].assumptions)
                                  ELSE IF i = n + 1 THEN A ELSE {}]
    BY <1>4 DEF LeftPlan
  <2>3. LeftPlan(n, Top')
          = [i \in 2 .. n + 2 |-> IF i <= n THEN ToSet(history_choice[i - 1].assumptions)
                                  ELSE IF i = n + 1 THEN A ELSE {}]
    BY DEF LeftPlan
  <2>4. \A i \in 2 .. n + 2 :
          (IF i <= n THEN ToSet(history_choice'[i - 1].assumptions)
           ELSE IF i = n + 1 THEN A ELSE {})
          = (IF i <= n THEN ToSet(history_choice[i - 1].assumptions)
             ELSE IF i = n + 1 THEN A ELSE {})
    BY <2>1
  <2> HIDE DEF A
  <2> QED BY <2>2, <2>3, <2>4
<1>23. LeftAgain(F)
  <2>1. trace'[Len(curr_branch')] = trace[k - 1]
    <3>1. k - 1 \in 1 .. k - 1
      BY <1>15
    <3> QED BY <1>4, <3>1
  <2>2. SymsOf(a) \subseteq syms' \ F
    BY <1>7, <1>18, <1>20
  <2>3. Copied(design', syms', F, L, Append(trace'[Len(curr_branch')], a),
               LeftPlan(Len(curr_branch), Top)')
    BY <1>1, <1>21, <1>22, <2>1
  <2>4. \E m \in 1 .. Len(abs_state') : abs_state'[m] = L
    BY <1>1, <1>3, <1>15 DEF Progress, IsRecorded, L
  <2> QED BY <1>4, <1>18, <2>2, <2>3, <2>4 DEF LeftAgain, IsLeftAgain, IsRecorded
<1>24. Left(SymsOfChoices(Front(history_choice)))'
  BY <1>23 DEF Left, IsLeft, LeftAgain, IsLeftAgain, F
<1> QED BY <1>1, <1>3, <1>7, <1>11, <1>13, <1>14, <1>24 DEF TFinding, InLoop, Choosing
-----------------------------------------------------------------------------
\* Where a choice was decided on.
LEMMA TActFacts ==
  ASSUME TBase, TFinding, loc = "act"
  PROVE  /\ Simulating /\ ~ Pending /\ IsDesign(design) /\ RootGiven /\ LiveSyms \subseteq syms
         /\ design \in Designs /\ Progress /\ Follows(Top) /\ has_valid_choice(Top)
         /\ Len(curr_branch) \in Nat \ {0} /\ Len(stack_per_state) = Len(curr_branch)
         /\ Len(trace) = Len(curr_branch) + 1 /\ Len(history_choice) = Len(curr_branch)
         /\ Top = stack_per_state[Len(curr_branch)] /\ ~ branch_end_flag
         /\ ChosenUpTo(Len(curr_branch)) /\ OnBranch(LiveSyms)
         /\ NodesOf(design, curr_branch[Len(curr_branch)]) \subseteq RecordedNodes
         /\ \E i, e : /\ Tried(curr_branch[Len(curr_branch)], Len(curr_branch), i,
                               PreOf(Len(curr_branch)), Top, e)
                      /\ TDecided(e)
                      /\ Steady(design, Append(trace[Len(curr_branch)], i),
                                PlanAt(Len(curr_branch), PreOf(Len(curr_branch))))
<1>1. loc \in InLoop /\ Trying = 1
  BY DEF InLoop, Trying
<1>2. /\ Simulating /\ IsDesign(design) /\ RootGiven /\ LiveSyms \subseteq syms
      /\ design \in Designs /\ Progress /\ Follows(Top) /\ ~ Pending
      /\ Len(curr_branch) \in Nat \ {0} /\ Len(stack_per_state) = Len(curr_branch)
      /\ Len(trace) = Len(curr_branch) + Trying
      /\ Top = stack_per_state[Len(curr_branch)]
  BY <1>1, LoopFacts
<1>3. has_valid_choice(Top)
  BY DEF TBase, TInv, Searching
<1>4. Len(trace) = Len(history_choice) + 1 /\ Len(history_choice) \in Nat
  BY <1>2, FramesAndChoices
<1>5. Len(trace) = Len(curr_branch) + 1 /\ Len(history_choice) = Len(curr_branch)
  BY <1>1, <1>2, <1>4
<1>6. ChosenUpTo(Len(stack_per_state) - 0) /\ OnBranch(LiveSyms) /\ ~ branch_end_flag
  BY DEF TFinding, InLoop, Choosing
<1>7. ChosenUpTo(Len(curr_branch))
  <2>1. Len(stack_per_state) - 0 = Len(curr_branch)
    BY <1>2
  <2> QED BY <1>6, <2>1
<1>8. PICK e : TDecided(e)
  BY DEF TFinding
<1> DEFINE k == Len(curr_branch)
           C == curr_branch[k]
<1>9. k \in 1 .. Len(curr_branch) /\ k \in 1 .. Len(stack_per_state) /\ k \in 1 .. Len(trace)
      /\ k + 1 = Len(trace) /\ k <= k
  BY <1>2, <1>5
<1>10. Chosen(history_choice[k], Top)
  BY <1>2, <1>7, <1>9 DEF ChosenUpTo
<1>11. PICK i \in [InVars -> Sym] :
         /\ Described(C, Append(trace[k], i), PlanAt(k, PreOf(k)))
         /\ Steady(design, Append(trace[k], i), PlanAt(k, PreOf(k)))
  BY <1>6, <1>9 DEF OnBranch, Copied
<1>12. ToSet(PreOf(k)) \subseteq ToSet(Assumptions)
  BY DEF PreOf, ToSet
<1>13. NodesOf(design, C) \subseteq RecordedNodes
  BY <1>2, <1>9 DEF Progress, IsRecorded, RecordedNodes
<1> HIDE DEF C, k
<1>14. Tried(C, k, i, PreOf(k), Top, e)
  BY <1>2, <1>3, <1>8, <1>9, <1>10, <1>11, <1>12 DEF Tried, TDecided
<1> QED BY <1>2, <1>3, <1>5, <1>6, <1>7, <1>8, <1>11, <1>13, <1>14 DEF C, k

LEMMA RunOutFinds ==
  ASSUME PointsDecide, TBase, TFinding, RunOutOfChoices
  PROVE  TFinding'
<1>1. /\ loc = "act" /\ loc' = "thrown" /\ design' = design /\ abs_state' = abs_state
      /\ verdict = "not concrete" /\ ~ CanDeepen(Top) /\ get_curr_state(<<>>)
  BY DEF RunOutOfChoices, GoTo, search
<1> DEFINE k == Len(curr_branch)
           C == curr_branch[k]
           P == PlanAt(k, PreOf(k))
<1>2. /\ Simulating /\ IsDesign(design) /\ RootGiven /\ LiveSyms \subseteq syms
      /\ design \in Designs /\ Len(trace) = k + 1 /\ NodesOf(design, C) \subseteq RecordedNodes
  BY <1>1, TActFacts
<1>3. PICK i, e : /\ Tried(C, k, i, PreOf(k), Top, e) /\ TDecided(e)
                  /\ Steady(design, Append(trace[k], i), P)
  BY <1>1, TActFacts
<1>4. ~ Steady(design, Append(trace[k + 1], e), PlanAt(k + 1, <<>>))
  BY <1>1, <1>2, <1>3 DEF TDecided
<1> HIDE DEF C
<1>5. \E x \in NodesOf(design, C) : Undetermined(x)
  BY <1>1, <1>2, <1>3, <1>4, ChoiceLeftOpen
<1>6. PICK x \in RecordedNodes : Undetermined(x)
  BY <1>2, <1>5
<1>7. trace' = trace /\ Calm
  BY <1>1, <1>2, CopyCall, CopyIsCalm, AssumptionsAreGiven
<1>8. RootGiven' /\ LiveSyms' \subseteq syms'
  BY <1>2, <1>7, RootedStays
<1>9. RecordedNodes' = RecordedNodes /\ (Undetermined(x)' <=> Undetermined(x))
  BY <1>1 DEF RecordedNodes, Undetermined, Admitted
<1>10. \E n \in RecordedNodes' : Undetermined(n)'
  BY <1>6, <1>9
<1>11. (\E n \in RecordedNodes : Undetermined(n))'
  BY <1>10
<1> QED BY <1>1, <1>2, <1>8, <1>11 DEF TFinding, InLoop

\* Going on to another choice of the same state.
LEMMA OtherChoiceFinds ==
  ASSUME TBase, TFinding, loc = "act", loc' = "undo", NEW s, Follows(s), ReplaceTop(s), backtrack,
         UNCHANGED <<design, abs_state, curr_branch, all_branches, branch_end_flag, verdict>>,
         Explored(design, curr_branch[Len(curr_branch)], s, RecordedNodes)
  PROVE  TFinding'
<1> DEFINE k == Len(curr_branch)
<1>1. /\ design' = design /\ abs_state' = abs_state /\ curr_branch' = curr_branch
      /\ branch_end_flag' = branch_end_flag
  OBVIOUS
<1>2. /\ Simulating /\ ~ Pending /\ RootGiven /\ LiveSyms \subseteq syms
      /\ design \in Designs /\ Progress /\ k \in Nat \ {0} /\ Len(stack_per_state) = k
      /\ Len(trace) = k + 1 /\ Len(history_choice) = k /\ ~ branch_end_flag
      /\ ChosenUpTo(k) /\ OnBranch(LiveSyms)
  BY TActFacts
<1>3. /\ Len(trace') = Len(trace) - 1 /\ \A j \in 1 .. Len(trace) - 1 : trace'[j] = trace[j]
  BY <1>2, BacktrackCall
<1>4. Calm /\ LiveSyms' = LiveSyms /\ Len(history_choice') = Len(history_choice)
  BY <1>2, BacktrackIsCalm
<1> DEFINE Stacks == [stack : Seq(Node), ptr : Nat, no_next_choice : BOOLEAN]
           f == Front(stack_per_state)
<1>5. stack_per_state \in Seq(Stacks) /\ s \in Stacks /\ stack_per_state # <<>>
  BY <1>2 DEF TBase, TInv, Searching, TTypeOK, Follows
<1> HIDE DEF Stacks, k
<1>6. /\ f \in Seq(Stacks) /\ Len(f) = k - 1 /\ stack_per_state' = Append(f, s)
      /\ \A j \in 1 .. k - 1 : f[j] = stack_per_state[j]
  BY <1>2, <1>5, FrontType DEF ReplaceTop
<1> HIDE DEF f
<1>7. /\ Len(stack_per_state') = k /\ stack_per_state'[k] = s
      /\ \A j \in 1 .. k - 1 : stack_per_state'[j] = stack_per_state[j]
  <2>1. (k - 1) + 1 = k
    BY <1>2
  <2>2. /\ Len(Append(f, s)) = k /\ Append(f, s)[k] = s
        /\ \A j \in 1 .. k - 1 : Append(f, s)[j] = f[j]
    BY <1>5, <1>6, <2>1, AppendType
  <2> QED BY <1>6, <2>2
<1>8. trace'[1] = trace[1] /\ 1 \in 1 .. Len(trace) - 1
  <2>1. 1 \in 1 .. Len(trace) - 1
    BY <1>2
  <2> QED BY <1>3, <2>1
<1>9. /\ RootGiven' /\ LiveSyms' \subseteq syms' /\ syms \subseteq syms' /\ Root' = Root
  BY <1>2, <1>4, <1>8, RootedStays
<1>10. RecordedNodes' = RecordedNodes
  BY <1>1 DEF RecordedNodes
<1>11. Progress'
  <2>1. ASSUME NEW j \in 1 .. Len(curr_branch)
        PROVE  /\ \E m \in 1 .. Len(abs_state') : abs_state'[m] = curr_branch'[j]
               /\ Explored(design', curr_branch'[j], stack_per_state'[j], RecordedNodes')
    <3>1. /\ IsRecorded(curr_branch[j])
          /\ Explored(design, curr_branch[j], stack_per_state[j], RecordedNodes)
      BY <1>2 DEF Progress
    <3>2. Explored(design, curr_branch[j], stack_per_state'[j], RecordedNodes)
      <4>1. CASE j = k
        BY <1>7, <4>1 DEF k
      <4>2. CASE j # k
        <5>1. j \in 1 .. k - 1
          BY <1>2, <4>2 DEF k
        <5> QED BY <1>7, <3>1, <5>1
      <4> QED BY <4>1, <4>2
    <3> QED BY <1>1, <1>10, <3>1, <3>2 DEF IsRecorded
  <2>2. Root \in RecordedNodes
    BY <1>2 DEF Progress
  <2>3. \A m \in 1 .. Len(abs_state) :
          \/ \E j \in 1 .. Len(curr_branch) : curr_branch[j] = abs_state[m]
          \/ Closed(design, abs_state[m], RecordedNodes)
    BY <1>2 DEF Progress
  <2> QED BY <1>1, <1>9, <1>10, <2>1, <2>2, <2>3 DEF Progress, IsRecorded
<1>12. ChosenUpTo(Len(stack_per_state) - 1)'
  <2> SUFFICES ASSUME NEW j \in 1 .. Len(stack_per_state'), j <= Len(stack_per_state') - 1
               PROVE  Chosen(history_choice'[j], stack_per_state'[j])
    BY DEF ChosenUpTo
  <2>1. j \in 1 .. k - 1 /\ j \in 1 .. Len(stack_per_state) /\ j <= k
        /\ j \in 1 .. Len(history_choice) /\ j <= Len(history_choice')
    BY <1>2, <1>4, <1>7
  <2>2. Chosen(history_choice[j], stack_per_state[j])
    BY <1>2, <2>1 DEF ChosenUpTo
  <2>3. SameChoice(history_choice[j], history_choice'[j]) /\ stack_per_state'[j] = stack_per_state[j]
    BY <1>4, <1>7, <2>1 DEF Calm
  <2> QED BY <2>2, <2>3 DEF Chosen, SameChoice
<1>13. BranchAgain(LiveSyms')
  <2>1. LiveSyms' \cap syms \subseteq LiveSyms
    BY <1>4
  <2>2. /\ Len(curr_branch) \in Nat /\ Len(history_choice) \in Nat
        /\ Len(curr_branch) <= Len(trace) /\ Len(curr_branch) <= Len(trace')
        /\ Len(curr_branch) - 1 <= Len(history_choice)
        /\ Len(curr_branch) - 1 <= Len(history_choice')
    BY <1>2, <1>3, <1>4 DEF k
  <2> QED BY <1>1, <1>2, <1>4, <2>1, <2>2, BranchStays
<1>14. OnBranch(LiveSyms)'
  BY <1>13 DEF OnBranch, BranchAgain
<1> QED BY <1>1, <1>2, <1>9, <1>11, <1>12, <1>14 DEF TFinding, InLoop, Choosing

LEMMA TryNextChoiceFinds ==
  ASSUME TBase, TFinding, TryNextChoice
  PROVE  TFinding'
<1>1. /\ loc = "act" /\ loc' = "undo" /\ ReplaceTop(next_choice(Top)) /\ backtrack
      /\ verdict \in {"unreachable", "known"}
      /\ UNCHANGED <<design, abs_state, curr_branch, all_branches, branch_end_flag, verdict>>
  BY DEF TryNextChoice, GoTo
<1> DEFINE k == Len(curr_branch)
           C == curr_branch[k]
<1>2. /\ Simulating /\ IsDesign(design) /\ RootGiven /\ Progress /\ Follows(Top)
      /\ has_valid_choice(Top) /\ k \in Nat \ {0} /\ Top = stack_per_state[k]
  BY <1>1, TActFacts
<1>3. PICK i, e : Tried(C, k, i, PreOf(k), Top, e) /\ TDecided(e)
  BY <1>1, TActFacts
<1>4. NodesOf(design, ret) \subseteq RecordedNodes
  BY <1>1, <1>3 DEF TDecided
<1>5. Explored(design, C, Top, RecordedNodes)
  <2>1. k \in 1 .. Len(curr_branch)
    BY <1>2
  <2> QED BY <1>2, <2>1 DEF Progress
<1> HIDE DEF C
<1>6. Explored(design, C, next_choice(Top), RecordedNodes)
  BY <1>2, <1>3, <1>4, <1>5, ChoicePassed
<1>7. Follows(next_choice(Top))
  BY <1>2, NextFollows
<1>8. Explored(design, curr_branch[Len(curr_branch)], next_choice(Top), RecordedNodes)
  BY <1>6 DEF C
<1> DEFINE s == next_choice(Top)
<1>9. Follows(s) /\ ReplaceTop(s) /\ Explored(design, curr_branch[Len(curr_branch)], s, RecordedNodes)
  BY <1>1, <1>7, <1>8
<1> QED BY <1>1, <1>9, OtherChoiceFinds

LEMMA TryDeeperChoiceFinds ==
  ASSUME TBase, TFinding, TryDeeperChoice
  PROVE  TFinding'
<1>1. /\ loc = "act" /\ loc' = "undo" /\ ReplaceTop(deeper_choice(Top)) /\ backtrack
      /\ CanDeepen(Top)
      /\ UNCHANGED <<design, abs_state, curr_branch, all_branches, branch_end_flag, verdict>>
  BY DEF TryDeeperChoice, GoTo
<1> DEFINE k == Len(curr_branch)
           C == curr_branch[k]
<1>2. /\ Progress /\ Follows(Top) /\ ~ Top.no_next_choice
      /\ k \in Nat \ {0} /\ Top = stack_per_state[k]
  BY <1>1, TActFacts DEF has_valid_choice
<1>3. Explored(design, C, Top, RecordedNodes)
  <2>1. k \in 1 .. Len(curr_branch)
    BY <1>2
  <2> QED BY <1>2, <2>1 DEF Progress
<1> HIDE DEF C
<1>4. Explored(design, C, deeper_choice(Top), RecordedNodes)
  BY <1>1, <1>2, <1>3, DeeperExplored
<1>5. Follows(deeper_choice(Top))
  BY <1>1, <1>2, DeeperChoice
<1>6. Explored(design, curr_branch[Len(curr_branch)], deeper_choice(Top), RecordedNodes)
  BY <1>4 DEF C
<1> QED BY <1>1, <1>5, <1>6, OtherChoiceFinds
-----------------------------------------------------------------------------
\* Where a choice has led to a state.
LEMMA CheckFacts ==
  ASSUME TBase, TFinding, loc = "check"
  PROVE  /\ Simulating /\ SymbolsApart /\ ~ Pending /\ IsDesign(design) /\ RootGiven
         /\ LiveSyms \subseteq syms /\ design \in Designs /\ Progress /\ Follows(Top)
         /\ Len(curr_branch) \in Nat \ {0} /\ Len(stack_per_state) = Len(curr_branch)
         /\ Len(trace) = Len(curr_branch) + 1 /\ Len(history_choice) = Len(curr_branch)
         /\ ChosenUpTo(Len(curr_branch))
         /\ \A j \in 1 .. Len(curr_branch) : Chosen(history_choice[j], stack_per_state[j])
         /\ \A j \in 1 .. Len(curr_branch) : Follows(stack_per_state[j])
         /\ Chosen(history_choice[Len(curr_branch)], Top) /\ curr_branch \in Seq(StateAsmpt)
         /\ branch_end_flag \in BOOLEAN
<1>1. loc \in InLoop /\ Trying = 1
  BY DEF InLoop, Trying
<1>2. /\ Simulating /\ SymbolsApart /\ IsDesign(design) /\ RootGiven /\ LiveSyms \subseteq syms
      /\ design \in Designs /\ Progress /\ Follows(Top) /\ ~ Pending
      /\ Len(curr_branch) \in Nat \ {0} /\ Len(stack_per_state) = Len(curr_branch)
      /\ Len(trace) = Len(curr_branch) + Trying /\ curr_branch \in Seq(StateAsmpt)
      /\ Top = stack_per_state[Len(curr_branch)] /\ branch_end_flag \in BOOLEAN
  BY <1>1, LoopFacts
<1>3. Len(trace) = Len(history_choice) + 1 /\ Len(history_choice) \in Nat
  BY <1>2, FramesAndChoices
<1>4. Len(trace) = Len(curr_branch) + 1 /\ Len(history_choice) = Len(curr_branch)
  BY <1>1, <1>2, <1>3
<1>5. ChosenUpTo(Len(stack_per_state) - 0)
  BY DEF TFinding, InLoop, Choosing
<1>6. ChosenUpTo(Len(curr_branch))
  <2>1. Len(stack_per_state) - 0 = Len(curr_branch)
    BY <1>2
  <2> QED BY <1>5, <2>1
<1>7. \A j \in 1 .. Len(curr_branch) : Chosen(history_choice[j], stack_per_state[j])
  <2>1. \A j \in 1 .. Len(curr_branch) : j \in 1 .. Len(stack_per_state) /\ j <= Len(curr_branch)
    BY <1>2
  <2> QED BY <1>6, <2>1 DEF ChosenUpTo
<1>8. \A j \in 1 .. Len(curr_branch) : Follows(stack_per_state[j])
  BY <1>2 DEF TBase, TInv, Searching
<1>9. Len(curr_branch) \in 1 .. Len(curr_branch)
  BY <1>2
<1>10. Chosen(history_choice[Len(curr_branch)], Top)
  BY <1>2, <1>7, <1>9
<1> QED BY <1>2, <1>4, <1>6, <1>7, <1>8, <1>10

\* The path of the state that was reached.
LEMMA RetPath ==
  ASSUME TBase, TFinding, loc = "check", NEW e, RetIs(e)
  PROVE  /\ e \in [InVars -> Sym]
         /\ Described(ret, Append(trace[Len(curr_branch) + 1], e), PlanAt(Len(curr_branch) + 1, <<>>))
         /\ Len(Append(trace[Len(curr_branch) + 1], e)) = Len(curr_branch) + 2
         /\ Append(trace[Len(curr_branch) + 1], e)[1] = trace[1][1]
         /\ \A i \in 2 .. Len(curr_branch) + 1 :
              Append(trace[Len(curr_branch) + 1], e)[i] = history_choice[i - 1].var_assign
         /\ Append(trace[Len(curr_branch) + 1], e)[Len(curr_branch) + 2] = e
         /\ \A i \in 2 .. Len(curr_branch) + 2 :
              SymsOf(Append(trace[Len(curr_branch) + 1], e)[i]) \subseteq LiveSyms \cup SymsOf(e)
<1> DEFINE k == Len(curr_branch)
           p == Append(trace[k + 1], e)
<1>1. /\ Simulating /\ RootGiven /\ ~ Pending /\ k \in Nat \ {0} /\ Len(trace) = k + 1
  BY CheckFacts
<1>2. e \in [InVars -> Sym] /\ Described(ret, Append(trace[Len(trace)], e), PlanAt(Len(trace), <<>>))
  BY DEF RetIs
<1>3. Described(ret, p, PlanAt(k + 1, <<>>))
  BY <1>1, <1>2
<1>4. k + 1 \in 1 .. Len(trace) /\ (k + 1) + 1 = k + 2
  BY <1>1
<1> HIDE DEF k
<1>5. /\ Len(p) = (k + 1) + 1 /\ p[1] = trace[1][1] /\ p[(k + 1) + 1] = e
      /\ \A i \in 2 .. k + 1 : p[i] = history_choice[i - 1].var_assign
  BY <1>1, <1>2, <1>4, CopyPath
<1>6. \A i \in 2 .. Len(trace) + 1 :
        SymsOf(Append(trace[Len(trace)], e)[i]) \subseteq LiveSyms \cup SymsOf(e)
  BY <1>1, RetSyms
<1>7. \A i \in 2 .. k + 2 : SymsOf(p[i]) \subseteq LiveSyms \cup SymsOf(e)
  BY <1>1, <1>4, <1>6
<1> QED BY <1>2, <1>3, <1>4, <1>5, <1>7 DEF k

\* It is compared with the states on the branch,
LEMMA BranchComparable ==
  ASSUME TBase, TFinding, loc = "check", NEW e, RetIs(e),
         OnBranch(LiveSyms \cup SymsOf(e)), NodesOf(design, ret) # {},
         NEW j \in 1 .. Len(curr_branch)
  PROVE  Comparable(design, curr_branch[j], ret)
<1> DEFINE k == Len(curr_branch)
           p == Append(trace[k + 1], e)
           P == PlanAt(k + 1, <<>>)
           F == LiveSyms \cup SymsOf(e)
           Q == PlanAt(j, PreOf(j))
           r == curr_branch[j]
<1>1. /\ Simulating /\ IsDesign(design) /\ RootGiven /\ k \in Nat \ {0} /\ Len(trace) = k + 1
      /\ Chosen(history_choice[j], stack_per_state[j]) /\ Follows(stack_per_state[j])
  BY CheckFacts
<1>2. /\ e \in [InVars -> Sym] /\ Described(ret, p, P)
      /\ Len(p) = k + 2 /\ \A i \in 2 .. k + 1 : p[i] = history_choice[i - 1].var_assign
      /\ \A i \in 2 .. k + 2 : SymsOf(p[i]) \subseteq F
  BY RetPath
<1>3. PICK i \in [InVars -> Sym] : SymsOf(i) \subseteq syms \ F /\ Described(r, Append(trace[j], i), Q)
  BY DEF OnBranch, Copied
<1>4. /\ j \in 1 .. Len(trace) /\ k + 1 \in 1 .. Len(trace) /\ j < k + 1 /\ j \in Nat \ {0}
  BY <1>1
<1>5. ToSet(PreOf(j)) \subseteq ToSet(history_choice[j].assumptions)
  <2>1. ToSet(Assumptions) \subseteq ToSet(ChoiceAssumptions(stack_per_state[j]))
    BY <1>1, ChoiceElements
  <2>2. ToSet(PreOf(j)) \subseteq ToSet(Assumptions)
    BY DEF PreOf, ToSet
  <2> QED BY <1>1, <2>1, <2>2 DEF Chosen
<1> DEFINE q == Append(trace[j], i)
<1>6. Looser(q, Q, p, P)
  <2> HIDE DEF k
  <2>1. Looser(Append(trace[j], i), PlanAt(j, PreOf(j)), Append(trace[k + 1], e), PlanAt(k + 1, <<>>))
    BY <1>1, <1>2, <1>4, <1>5, BelowOnBranch
  <2> QED BY <2>1
<1>7. /\ Len(q) = j + 1 /\ q[j + 1] = i
      /\ \A x \in 2 .. j : q[x] = history_choice[x - 1].var_assign
  BY <1>1, <1>4, CopyPath
<1>8. Described(r, q, Q)
  BY <1>3
<1> HIDE DEF q, Q, p, P, F, r, k
<1>9. Akin(q, p)
  <2> SUFFICES ASSUME NEW x \in 2 .. Len(q)
               PROVE  q[x] = p[x] \/ \A y \in 2 .. Len(p) : SymsOf(q[x]) \cap SymsOf(p[y]) = {}
    BY DEF Akin
  <2>1. CASE x \in 2 .. j
    <3>1. x \in 2 .. k + 1
      BY <1>1, <1>4, <2>1
    <3> QED BY <1>2, <1>7, <2>1, <3>1
  <2>2. CASE x = j + 1
    <3>1. \A y \in 2 .. Len(p) : SymsOf(p[y]) \subseteq F
      BY <1>2
    <3> QED BY <1>3, <1>7, <2>2, <3>1
  <2>3. x \in 2 .. j \/ x = j + 1
    BY <1>4, <1>7
  <2> QED BY <2>1, <2>2, <2>3
<1>10. Comparable(design, r, ret)
  <2>1. /\ CommonModels(design, r, ret) # {}
        /\ abs_eq(design, r, ret) => NodesOf(design, ret) \subseteq NodesOf(design, r)
    BY <1>1, <1>2, <1>6, <1>8, <1>9, ComparedOnBranch
  <2> QED BY <2>1 DEF Comparable
<1> QED BY <1>10 DEF r

\* and, after one was left, with that one: it has the same form.
LEMMA LeftComparable ==
  ASSUME TBase, TFinding, loc = "check", NEW e, RetIs(e),
         NEW L, NEW a, IsLeft(LiveSyms \cup SymsOf(e), L, a)
  PROVE  /\ NodesOf(design, ret) # {} /\ Comparable(design, L, ret)
         /\ Steady(design, Append(trace[Len(curr_branch) + 1], e), PlanAt(Len(curr_branch) + 1, <<>>))
<1> DEFINE k == Len(curr_branch)
           p == Append(trace[k + 1], e)
           P == PlanAt(k + 1, <<>>)
           F == LiveSyms \cup SymsOf(e)
           b == history_choice[k].var_assign
           f == Append(trace[k], a)
<1>1. /\ Simulating /\ IsDesign(design) /\ RootGiven /\ k \in Nat \ {0} /\ Len(trace) = k + 1
      /\ Chosen(history_choice[k], Top) /\ Follows(Top)
  BY CheckFacts
<1>2. /\ e \in [InVars -> Sym] /\ Described(ret, p, P) /\ Len(p) = k + 2 /\ p[1] = trace[1][1]
      /\ \A i \in 2 .. k + 1 : p[i] = history_choice[i - 1].var_assign
      /\ p[k + 2] = e /\ \A i \in 2 .. k + 2 : SymsOf(p[i]) \subseteq F
  BY RetPath
<1>3. P = LeftPlan(k, Top)
  <2>1. history_choice[k].assumptions = ChoiceAssumptions(Top)
    BY <1>1 DEF Chosen
  <2> QED BY <1>1, <2>1, PlanIsLeftPlan
<1>4. /\ a \in [InVars -> Val \cup Sym] /\ ChosenBy(a, Top) /\ SymsOf(a) \subseteq syms \ F
      /\ Copied(design, syms, F, L, f, LeftPlan(k, Top))
  BY DEF IsLeft
<1>5. Copied(design, syms, F, L, f, P)
  BY <1>3, <1>4
<1>6. PICK i \in [InVars -> Sym] : /\ SymsOf(i) \subseteq syms \ F
                                   /\ Described(L, Append(f, i), P)
                                   /\ Steady(design, Append(f, i), P)
  <2> HIDE DEF f, P, F
  <2> QED BY <1>5 DEF Copied
<1>7. NodesOf(design, L) # {}
  BY <1>5 DEF Copied
<1> DEFINE q == Append(f, i)
<1>8. /\ k \in 1 .. Len(trace) /\ k + 1 \in Nat /\ (k + 1) + 1 = k + 2
  BY <1>1
<1>9. /\ trace[k] \in Seq(Assignment) /\ Len(trace[k]) = k
      /\ trace[k][1] = trace[1][1] /\ a \in Assignment /\ i \in Assignment
      /\ \A x \in 2 .. k : trace[k][x] = history_choice[x - 1].var_assign
  <2>1. IInv /\ trace # <<>> /\ Len(trace[1]) = 1
    BY <1>1 DEF Simulating, RootGiven
  <2>2. \A n \in 1 .. Len(trace) :
           /\ trace[n] \in Seq(Assignment) /\ Len(trace[n]) = n
           /\ trace[n][1] = trace[1][1]
           /\ \A x \in 2 .. n : trace[n][x] = history_choice[x - 1].var_assign
    BY <2>1, FramesAre
  <2>3. a \in Assignment /\ i \in Assignment
    BY <1>4 DEF Assignment
  <2> HIDE DEF k
  <2> QED BY <1>8, <2>2, <2>3
<1> HIDE DEF k
<1>10. /\ f \in Seq(Assignment) /\ Len(f) = k + 1 /\ f[k + 1] = a
       /\ \A x \in 1 .. k : f[x] = trace[k][x]
  BY <1>9, AppendType
<1> HIDE DEF f
<1>11. /\ Len(q) = k + 2 /\ q[k + 2] = i /\ \A x \in 1 .. k + 1 : q[x] = f[x]
  BY <1>8, <1>9, <1>10, AppendType
<1> HIDE DEF q, p, P, F, b
<1>12. /\ q[1] = p[1] /\ q[k + 1] = a /\ p[k + 1] = b
       /\ \A x \in 2 .. k : q[x] = p[x]
  <2>1. 1 \in 1 .. k /\ 1 \in 1 .. k + 1 /\ k + 1 \in 1 .. k + 1 /\ k + 1 \in 2 .. k + 1 /\ (k + 1) - 1 = k
    BY <1>1
  <2>2. \A x \in 2 .. k : x \in 1 .. k /\ x \in 1 .. k + 1 /\ x \in 2 .. k + 1
    BY <1>1
  <2> QED BY <1>2, <1>9, <1>10, <1>11, <2>1, <2>2 DEF b
<1>13. \A x \in 2 .. k + 2 : x \in 2 .. k \/ x = k + 1 \/ x = k + 2
  BY <1>1
<1>14. \A x \in 2 .. k + 2 : \A c : Fits(p[x], c) <=> Fits(q[x], c)
  <2>1. ChosenBy(b, Top)
    BY <1>1 DEF Chosen, b
  <2>2. \A c : Fits(a, c) <=> Fits(b, c)
    BY <1>1, <1>4, <2>1, ChosenAlike
  <2>3. \A c : Fits(i, c) /\ Fits(e, c)
    BY <1>2, SymbolsFit
  <2> QED BY <1>2, <1>11, <1>12, <1>13, <2>2, <2>3
<1>15. Looser(q, P, p, P) /\ Looser(p, P, q, P)
  <2>1. Len(q) = Len(p) /\ Len(p) = k + 2 /\ Len(q) \in Int
    BY <1>1, <1>2, <1>11
  <2>2. \A x \in 2 .. Len(q) : \A c \in Cell : Fits(p[x], c) <=> Fits(q[x], c)
    BY <1>14, <2>1
  <2>3. Len(q) <= Len(p) /\ Len(p) <= Len(q)
    BY <2>1
  <2> QED BY <1>12, <2>1, <2>2, <2>3 DEF Looser
<1>16. Described(L, q, P) /\ Steady(design, q, P) /\ Described(ret, p, P)
  BY <1>2, <1>6 DEF q
<1>17. NodesOf(design, L) = NodesOf(design, ret) /\ Steady(design, p, P)
  BY <1>1, <1>15, <1>16, SameForm
<1>18. Akin(q, p)
  <2> SUFFICES ASSUME NEW x \in 2 .. k + 2
               PROVE  q[x] = p[x] \/ \A y \in 2 .. Len(p) : SymsOf(q[x]) \cap SymsOf(p[y]) = {}
    BY <1>11 DEF Akin
  <2>1. \A y \in 2 .. Len(p) : SymsOf(p[y]) \subseteq F
    BY <1>2
  <2> QED BY <1>4, <1>6, <1>11, <1>12, <1>13, <2>1
<1>19. Comparable(design, L, ret)
  <2>1. NodesOf(design, ret) # {}
    BY <1>7, <1>17
  <2>2. /\ CommonModels(design, L, ret) # {}
        /\ abs_eq(design, L, ret) => NodesOf(design, ret) \subseteq NodesOf(design, L)
    BY <1>1, <1>15, <1>16, <1>18, <2>1, ComparedOnBranch
  <2> QED BY <2>2 DEF Comparable
<1> QED BY <1>7, <1>17, <1>19 DEF p, P, k
-----------------------------------------------------------------------------
\* The verdict on the state that a choice has led to.
LEMMA CheckVerdict ==
  ASSUME TBase, TFinding, Check, NEW e, RetIs(e), OnBranch(LiveSyms \cup SymsOf(e)),
         branch_end_flag => Left(LiveSyms \cup SymsOf(e)),
         NEW p, NEW P, p = Append(trace[Len(curr_branch) + 1], e),
         P = PlanAt(Len(curr_branch) + 1, <<>>)
  PROVE  /\ verdict' \in {"unreachable", "not concrete", "new", "known"}
         /\ branch_end_flag => verdict' \in {"new", "known"}
         /\ verdict' \in {"unreachable", "known"} => NodesOf(design, ret) \subseteq RecordedNodes
         /\ verdict' = "not concrete" => ~ Steady(design, p, P)
         /\ verdict' = "new" => Steady(design, p, P) /\ NodesOf(design, ret) # {}
<1>1. /\ loc = "check"
      /\ verdict' = IF ~ check_reachable(design, ret) THEN "unreachable"
                    ELSE IF ~ check_concrete_enough(design, ret, Xvar) THEN "not concrete"
                    ELSE record_verdict(design, ComparedWith, ret)
  BY DEF Check
<1>0. loc = "check"
  BY <1>1
<1>2. /\ Simulating /\ SymbolsApart /\ ~ Pending /\ IsDesign(design) /\ RootGiven
      /\ Len(curr_branch) \in Nat \ {0} /\ Len(trace) = Len(curr_branch) + 1 /\ Progress
      /\ curr_branch \in Seq(StateAsmpt)
  BY <1>0, CheckFacts
<1>3. Described(ret, p, P) /\ e \in [InVars -> Sym]
  BY <1>0, RetPath
<1>4. check_concrete_enough(design, ret, Xvar) <=> Steady(design, p, P)
  <2>1. p = Append(trace[Len(trace)], e)
    BY <1>2
  <2>2. Described(ret, Append(trace[Len(trace)], e), P)
    BY <1>3, <2>1
  <2>3. check_concrete_enough(design, ret, Xvar)
          <=> Steady(design, Append(trace[Len(trace)], e), P)
    BY <1>2, <1>3, <2>2, RetConcrete
  <2> QED BY <2>1, <2>3
<1>5. check_reachable(design, ret) <=> NodesOf(design, ret) # {}
  BY ReachableHasNodes
<1>6. NodesOf(design, ret) # {} =>
        /\ Len(ComparedWith) \in Nat
        /\ \A m \in 1 .. Len(ComparedWith) : /\ Comparable(design, ComparedWith[m], ret)
                                             /\ IsRecorded(ComparedWith[m])
  <2> SUFFICES ASSUME NodesOf(design, ret) # {}
               PROVE  /\ Len(ComparedWith) \in Nat
                      /\ \A m \in 1 .. Len(ComparedWith) : /\ Comparable(design, ComparedWith[m], ret)
                                                           /\ IsRecorded(ComparedWith[m])
    OBVIOUS
  <2>1. \A j \in 1 .. Len(curr_branch) : /\ Comparable(design, curr_branch[j], ret)
                                         /\ IsRecorded(curr_branch[j])
    BY <1>0, <1>2, BranchComparable DEF Progress
  <2>2. CASE ~ branch_end_flag
    BY <1>2, <2>1, <2>2 DEF ComparedWith
  <2>3. CASE branch_end_flag
    <3>1. PICK L, a : IsLeft(LiveSyms \cup SymsOf(e), L, a)
      BY <2>3 DEF Left
    <3>2. Comparable(design, L, ret)
      BY <1>0, <3>1, LeftComparable
    <3>3. ComparedWith = Append(curr_branch, L) /\ IsRecorded(L) /\ L \in StateAsmpt
      BY <2>3, <3>1 DEF ComparedWith, IsLeft
    <3>4. /\ Len(Append(curr_branch, L)) = Len(curr_branch) + 1
          /\ \A j \in 1 .. Len(curr_branch) : Append(curr_branch, L)[j] = curr_branch[j]
          /\ Append(curr_branch, L)[Len(curr_branch) + 1] = L
      BY <1>2, <3>3, AppendType
    <3>5. \A m \in 1 .. Len(curr_branch) + 1 : m \in 1 .. Len(curr_branch) \/ m = Len(curr_branch) + 1
      BY <1>2
    <3> QED BY <1>2, <2>1, <3>2, <3>3, <3>4, <3>5
  <2> QED BY <2>2, <2>3
<1>7. NodesOf(design, ret) # {} =>
         /\ record_verdict(design, ComparedWith, ret) \in {"new", "known"}
         /\ record_verdict(design, ComparedWith, ret) = "known" =>
              \E m \in 1 .. Len(ComparedWith) : NodesOf(design, ret) \subseteq NodesOf(design, ComparedWith[m])
  <2> DEFINE A == ComparedWith
  <2>1. NodesOf(design, ret) # {} => Len(A) \in Nat /\ \A m \in 1 .. Len(A) : Comparable(design, A[m], ret)
    BY <1>6
  <2> HIDE DEF A
  <2>2. NodesOf(design, ret) # {} =>
         /\ record_verdict(design, A, ret) \in {"new", "known"}
         /\ record_verdict(design, A, ret) = "known" =>
              \E m \in 1 .. Len(A) : NodesOf(design, ret) \subseteq NodesOf(design, A[m])
    BY <2>1, VerdictIs
  <2> QED BY <2>2 DEF A
<1>8. branch_end_flag => NodesOf(design, ret) # {} /\ Steady(design, p, P)
  <2> SUFFICES ASSUME branch_end_flag
               PROVE  NodesOf(design, ret) # {} /\ Steady(design, p, P)
    OBVIOUS
  <2>1. PICK L, a : IsLeft(LiveSyms \cup SymsOf(e), L, a)
    BY DEF Left
  <2> QED BY <1>0, <2>1, LeftComparable
<1>9. /\ verdict' \in {"unreachable", "not concrete", "new", "known"}
      /\ branch_end_flag => verdict' \in {"new", "known"}
      /\ verdict' = "not concrete" => ~ Steady(design, p, P)
      /\ verdict' = "new" => Steady(design, p, P) /\ NodesOf(design, ret) # {}
  BY <1>1, <1>4, <1>5, <1>7, <1>8
<1>10. verdict' = "unreachable" => NodesOf(design, ret) = {}
  BY <1>1, <1>5, <1>7
<1>11. verdict' = "known" => NodesOf(design, ret) \subseteq RecordedNodes
  <2> SUFFICES ASSUME verdict' = "known"
               PROVE  NodesOf(design, ret) \subseteq RecordedNodes
    OBVIOUS
  <2>1. NodesOf(design, ret) # {} /\ record_verdict(design, ComparedWith, ret) = "known"
    BY <1>1, <1>5
  <2>2. PICK m \in 1 .. Len(ComparedWith) : NodesOf(design, ret) \subseteq NodesOf(design, ComparedWith[m])
    BY <1>7, <2>1
  <2>3. PICK n \in 1 .. Len(abs_state) : abs_state[n] = ComparedWith[m]
    BY <1>6, <2>1 DEF IsRecorded
  <2>4. NodesOf(design, abs_state[n]) \subseteq RecordedNodes
    BY DEF RecordedNodes
  <2> QED BY <2>2, <2>3, <2>4
<1> QED BY <1>9, <1>10, <1>11

LEMMA CheckFinds ==
  ASSUME TBase, TFinding, Check
  PROVE  TFinding'
<1>1. /\ loc = "check" /\ UNCHANGED vars
      /\ loc' = IF verdict' = "overly constrained" THEN "thrown" ELSE "act"
      /\ branch_end_flag' = (branch_end_flag /\ verdict' \in {"unreachable", "not concrete"})
      /\ UNCHANGED <<design, abs_state, stack_per_state, curr_branch, all_branches>>
  BY DEF Check
<1>0. loc = "check"
  BY <1>1
<1>2. /\ RootGiven /\ LiveSyms \subseteq syms /\ design \in Designs /\ Progress
      /\ Len(curr_branch) \in Nat \ {0} /\ Len(trace) = Len(curr_branch) + 1
      /\ Len(stack_per_state) = Len(curr_branch) /\ ChosenUpTo(Len(curr_branch))
      /\ branch_end_flag \in BOOLEAN
  BY <1>0, CheckFacts
<1>3. /\ Calm /\ LiveSyms' = LiveSyms /\ trace' = trace /\ syms' = syms /\ ret' = ret
      /\ history_choice' = history_choice
  BY <1>1, SameIsCalm
<1>4. RootGiven' /\ LiveSyms' \subseteq syms' /\ Root' = Root /\ LiveSyms' \cap syms \subseteq LiveSyms
  BY <1>2, <1>3, RootedStays
<1>5. PICK e : /\ RetIs(e) /\ OnBranch(LiveSyms \cup SymsOf(e))
               /\ branch_end_flag => Left(LiveSyms \cup SymsOf(e))
  BY <1>0 DEF TFinding
<1> DEFINE p == Append(trace[Len(curr_branch) + 1], e)
           P == PlanAt(Len(curr_branch) + 1, <<>>)
<1>6. /\ verdict' \in {"unreachable", "not concrete", "new", "known"}
      /\ branch_end_flag => verdict' \in {"new", "known"}
      /\ verdict' \in {"unreachable", "known"} => NodesOf(design, ret) \subseteq RecordedNodes
      /\ verdict' = "not concrete" => ~ Steady(design, p, P)
      /\ verdict' = "new" => Steady(design, p, P) /\ NodesOf(design, ret) # {}
  BY <1>5, CheckVerdict
<1>7. loc' = "act" /\ ~ branch_end_flag'
  BY <1>1, <1>6
<1>8. Progress' /\ RecordedNodes' = RecordedNodes
  BY <1>1, <1>2, <1>4, ProgressStays
<1>9. ChosenUpTo(Len(stack_per_state) - 0)'
  <2>1. Len(stack_per_state) - 0 = Len(curr_branch)
    BY <1>2
  <2>2. ChosenUpTo(Len(stack_per_state) - 0)
    BY <1>2, <2>1
  <2> QED BY <1>1, <1>3, <2>2 DEF ChosenUpTo
<1>10. RetIs(e)'
  BY <1>3, <1>5 DEF RetIs, PlanAt
<1>11. TDecided(e)'
  <2>1. P = PlanAt(Len(trace), <<>>) /\ p = Append(trace[Len(trace)], e)
    BY <1>2
  <2>2. PlanAt(Len(trace), <<>>)' = PlanAt(Len(trace), <<>>)
    BY <1>3 DEF PlanAt
  <2> HIDE DEF p, P
  <2>3. P = PlanAt(Len(trace), <<>>)' /\ p = Append(trace'[Len(trace')], e)
    BY <1>3, <2>1, <2>2
  <2> QED BY <1>1, <1>3, <1>6, <1>8, <1>10, <2>3 DEF TDecided
<1>12. OnBranch(LiveSyms)'
  <2>1. BranchAgain(LiveSyms')
    <3>1. LiveSyms' \cap syms \subseteq LiveSyms \cup SymsOf(e)
      BY <1>4
    <3>2. /\ Len(curr_branch) \in Nat /\ Len(history_choice) \in Nat
          /\ Len(curr_branch) <= Len(trace) /\ Len(curr_branch) <= Len(trace')
          /\ Len(curr_branch) - 1 <= Len(history_choice)
          /\ Len(curr_branch) - 1 <= Len(history_choice')
      <4>1. Len(history_choice) = Len(curr_branch)
        BY <1>0, CheckFacts
      <4> QED BY <1>2, <1>3, <4>1
    <3> DEFINE F == LiveSyms \cup SymsOf(e)
    <3>3. OnBranch(F) /\ LiveSyms' \cap syms \subseteq F
      BY <1>5, <3>1
    <3> HIDE DEF F
    <3> QED BY <1>1, <1>3, <3>2, <3>3, BranchStays
  <2> QED BY <2>1 DEF OnBranch, BranchAgain
<1>13. (\E x : TDecided(x))'
  BY <1>11
<1> QED BY <1>1, <1>2, <1>4, <1>7, <1>8, <1>9, <1>12, <1>13 DEF TFinding, InLoop, Choosing
-----------------------------------------------------------------------------
\* A new state goes on the branch, with nothing tried.
LEMMA NewStateFinds ==
  ASSUME TBase, TFinding, NewState
  PROVE  TFinding'
<1> DEFINE k == Len(curr_branch)
           n == Len(abs_state)
           Stacks == [stack : Seq(Node), ptr : Nat, no_next_choice : BOOLEAN]
<1>1. /\ loc = "act" /\ loc' = "head" /\ UNCHANGED vars /\ design' = design
      /\ verdict = "new" /\ branch_end_flag' = branch_end_flag
      /\ abs_state' = Append(abs_state, ret) /\ curr_branch' = Append(curr_branch, ret)
      /\ stack_per_state' = Append(stack_per_state, NewPerStateStack)
  BY DEF NewState, GoTo
<1>2. /\ Simulating /\ ~ Pending /\ RootGiven /\ LiveSyms \subseteq syms
      /\ design \in Designs /\ Progress /\ k \in Nat \ {0} /\ Len(stack_per_state) = k
      /\ Len(trace) = k + 1 /\ Len(history_choice) = k /\ ~ branch_end_flag
      /\ ChosenUpTo(k) /\ OnBranch(LiveSyms)
  BY <1>1, TActFacts
<1>3. PICK e : TDecided(e)
  BY <1>1 DEF TFinding
<1>4. /\ abs_state \in Seq(StateAsmpt) /\ curr_branch \in Seq(StateAsmpt) /\ ret \in StateAsmpt
      /\ stack_per_state \in Seq(Stacks) /\ NewPerStateStack \in Stacks
  BY <1>1, NewFollows DEF TBase, TInv, Searching, TTypeOK, JustCopied, Follows
<1>5. /\ Calm /\ LiveSyms' = LiveSyms /\ trace' = trace /\ syms' = syms /\ ret' = ret
      /\ history_choice' = history_choice
  BY <1>1, SameIsCalm
<1>6. /\ RootGiven' /\ LiveSyms' \subseteq syms' /\ Root' = Root
  BY <1>2, <1>5, RootedStays
<1>7. RecordedNodes \subseteq RecordedNodes'
  BY <1>1, <1>4, RecordedGrow
<1> HIDE DEF Stacks
<1>8. /\ Len(stack_per_state') = k + 1 /\ stack_per_state'[k + 1] = NewPerStateStack
      /\ \A j \in 1 .. k : stack_per_state'[j] = stack_per_state[j]
  BY <1>1, <1>2, <1>4, AppendType
<1>9. /\ Len(curr_branch') = k + 1 /\ curr_branch'[k + 1] = ret
      /\ \A j \in 1 .. k : curr_branch'[j] = curr_branch[j]
  BY <1>1, <1>2, <1>4, AppendType
<1>10. /\ Len(abs_state') = n + 1 /\ abs_state'[n + 1] = ret /\ n \in Nat
       /\ \A m \in 1 .. n : abs_state'[m] = abs_state[m]
  BY <1>1, <1>2, <1>4, AppendType
<1>11. /\ \A j \in 1 .. k + 1 : j \in 1 .. k \/ j = k + 1
       /\ \A m \in 1 .. n + 1 : m \in 1 .. n \/ m = n + 1
       /\ k + 1 \in 1 .. k + 1 /\ n + 1 \in 1 .. n + 1
       /\ \A m \in 1 .. n : m \in 1 .. n + 1
       /\ \A j \in 1 .. k : j \in 1 .. k + 1
  BY <1>2, <1>10
<1>12. Progress'
  <2>1. ASSUME NEW j \in 1 .. k + 1
        PROVE  /\ \E m \in 1 .. Len(abs_state') : abs_state'[m] = curr_branch'[j]
               /\ Explored(design', curr_branch'[j], stack_per_state'[j], RecordedNodes')
    <3>1. CASE j \in 1 .. k
      <4>1. /\ IsRecorded(curr_branch[j])
            /\ Explored(design, curr_branch[j], stack_per_state[j], RecordedNodes)
        BY <1>2, <3>1 DEF Progress
      <4>2. Explored(design, curr_branch[j], stack_per_state[j], RecordedNodes')
        BY <1>7, <4>1, ExploredMore
      <4>3. \E m \in 1 .. Len(abs_state') : abs_state'[m] = curr_branch[j]
        BY <1>10, <1>11, <4>1 DEF IsRecorded
      <4> QED BY <1>1, <1>8, <1>9, <3>1, <4>2, <4>3
    <3>2. CASE j = k + 1
      <4>1. Explored(design, ret, NewPerStateStack, RecordedNodes')
        BY NewExplored
      <4>2. abs_state'[n + 1] = curr_branch'[j] /\ n + 1 \in 1 .. Len(abs_state')
        BY <1>9, <1>10, <1>11, <3>2
      <4> QED BY <1>1, <1>8, <1>9, <3>2, <4>1, <4>2
    <3> QED BY <1>11, <3>1, <3>2
  <2>2. ASSUME NEW m \in 1 .. n + 1
        PROVE  \/ \E j \in 1 .. Len(curr_branch') : curr_branch'[j] = abs_state'[m]
               \/ Closed(design', abs_state'[m], RecordedNodes')
    <3>1. CASE m \in 1 .. n
      <4>1. \/ \E j \in 1 .. k : curr_branch[j] = abs_state[m]
            \/ Closed(design, abs_state[m], RecordedNodes)
        BY <1>2, <3>1 DEF Progress
      <4>2. CASE \E j \in 1 .. k : curr_branch[j] = abs_state[m]
        <5>1. PICK j \in 1 .. k : curr_branch[j] = abs_state[m]
          BY <4>2
        <5>2. j \in 1 .. Len(curr_branch') /\ curr_branch'[j] = abs_state'[m]
          BY <1>9, <1>10, <1>11, <3>1, <5>1
        <5> QED BY <5>2
      <4>3. CASE Closed(design, abs_state[m], RecordedNodes)
        <5>1. Closed(design, abs_state[m], RecordedNodes')
          BY <1>7, <4>3, ClosedMore
        <5> QED BY <1>1, <1>10, <3>1, <5>1
      <4> QED BY <4>1, <4>2, <4>3
    <3>2. CASE m = n + 1
      <4>1. k + 1 \in 1 .. Len(curr_branch') /\ curr_branch'[k + 1] = abs_state'[m]
        BY <1>9, <1>10, <1>11, <3>2
      <4> QED BY <4>1
    <3> QED BY <1>11, <3>1, <3>2
  <2>3. Root' \in RecordedNodes'
    BY <1>2, <1>6, <1>7 DEF Progress
  <2> QED BY <1>9, <1>10, <2>1, <2>2, <2>3 DEF Progress, IsRecorded
<1>13. ChosenUpTo(Len(stack_per_state) - 1)'
  <2> SUFFICES ASSUME NEW j \in 1 .. Len(stack_per_state'), j <= Len(stack_per_state') - 1
               PROVE  Chosen(history_choice'[j], stack_per_state'[j])
    BY DEF ChosenUpTo
  <2>1. j \in 1 .. k /\ j \in 1 .. Len(stack_per_state) /\ j <= k
    BY <1>2, <1>8
  <2>2. Chosen(history_choice[j], stack_per_state[j])
    BY <1>2, <2>1 DEF ChosenUpTo
  <2> QED BY <1>5, <1>8, <2>1, <2>2
<1>14. Copied(design, syms, LiveSyms, ret, trace[k + 1], PlanAt(k + 1, <<>>))
  <2>1. /\ e \in [InVars -> Sym] /\ SymsOf(e) \subseteq syms \ LiveSyms
        /\ Described(ret, Append(trace[k + 1], e), PlanAt(k + 1, <<>>))
        /\ Steady(design, Append(trace[k + 1], e), PlanAt(k + 1, <<>>))
        /\ NodesOf(design, ret) # {}
    BY <1>1, <1>2, <1>3 DEF TDecided, RetIs
  <2> QED BY <2>1 DEF Copied
<1>15. BranchAgain(LiveSyms')
  <2> SUFFICES ASSUME NEW j \in 1 .. Len(curr_branch')
               PROVE  Copied(design', syms', LiveSyms', curr_branch'[j], trace'[j], PlanAt(j, PreOf(j))')
    BY DEF BranchAgain
  <2>1. PlanAt(j, PreOf(j))' = PlanAt(j, PreOf(j))
    BY <1>5 DEF PlanAt, PreOf
  <2>2. Copied(design, syms, LiveSyms, curr_branch'[j], trace[j], PlanAt(j, PreOf(j)))
    <3>1. CASE j \in 1 .. k
      BY <1>2, <1>9, <3>1 DEF OnBranch
    <3>2. CASE j = k + 1
      <4>1. j # 1 /\ PreOf(j) = <<>>
        BY <1>2, <3>2 DEF PreOf
      <4> QED BY <1>9, <1>14, <3>2, <4>1
    <3> QED BY <1>9, <1>11, <3>1, <3>2
  <2> QED BY <1>1, <1>5, <2>1, <2>2
<1>16. OnBranch(LiveSyms)'
  BY <1>15 DEF OnBranch, BranchAgain
<1> QED BY <1>1, <1>2, <1>6, <1>12, <1>13, <1>16 DEF TFinding, InLoop, Choosing

LEMMA TNextFinds ==
  ASSUME RootsGiven, PointsDecide, TBase, TFinding, [TNext]_tvars
  PROVE  TFinding'
<1>1. CASE UNCHANGED tvars \/ Stopped
  BY <1>1, IdleFinds DEF Stopped
<1>2. CASE Boot \/ Enter \/ EnterUnreachable \/ EnterReachable
  BY <1>2, BootFinds, EnterFinds, EnterUnreachableFinds, EnterReachableFinds
<1>3. CASE CopyHead \/ TryChoice \/ Simulate \/ Snap \/ Undo
  BY <1>3, CopyHeadFinds, TryChoiceFinds, SimulateFinds, SnapFinds, UndoFinds
<1>4. CASE LeaveLast \/ LeaveState \/ RunOutOfChoices
  BY <1>4, LeaveLastFinds, LeaveStateFinds, RunOutFinds
<1>5. CASE Check \/ TryNextChoice \/ TryDeeperChoice \/ NewState
  BY <1>5, CheckFinds, TryNextChoiceFinds, TryDeeperChoiceFinds, NewStateFinds
<1> QED BY <1>1, <1>2, <1>3, <1>4, <1>5 DEF TNext

LEMMA InitTFinding == TInit => TFinding
BY DEF TInit, TFinding, InLoop

\* Recorded nodes that admitted cells lead from to recorded nodes only are all that
\* can be reached under the assumptions.
LEMMA ClosedReach ==
  ASSUME TBase, TFinding, loc = "done"
  PROVE  AdmittedFrom(Root) \subseteq RecordedNodes
<1>1. /\ Root \in RecordedNodes
      /\ \A m \in 1 .. Len(abs_state) : Closed(design, abs_state[m], RecordedNodes)
  BY DEF TFinding
<1>2. RecordedNodes \subseteq Nodes
  <2>1. RecordedNodes \subseteq UNION {ReachableFrom(n0) : n0 \in InitialNodes}
    BY RecordedAreReachable DEF TBase
  <2> QED BY <2>1 DEF ReachableFrom
<1>3. \A x \in RecordedNodes : AdmittedSuccessors(x) \subseteq RecordedNodes
  <2> SUFFICES ASSUME NEW x \in RecordedNodes, NEW y \in AdmittedSuccessors(x)
               PROVE  y \in RecordedNodes
    OBVIOUS
  <2>1. PICK m \in 1 .. Len(abs_state) : x \in NodesOf(design, abs_state[m])
    BY DEF RecordedNodes
  <2>2. PICK c \in Admitted(x) : design.next[x][c] = y /\ design.allowed[y] # {}
    BY DEF AdmittedSuccessors, Live
  <2>3. Closed(design, abs_state[m], RecordedNodes)
    BY <1>1
  <2> QED BY <2>1, <2>2, <2>3 DEF Closed, Admitted
<1> QED BY <1>1, <1>2, <1>3 DEF AdmittedFrom

\* It gives up only in nodes that can be reached.
LEMMA GivesUpReached ==
  ASSUME TBase, TFinding, loc = "thrown"
  PROVE  \E n \in ReachableFrom(Root) : Undetermined(n)
<1>1. RecordedNodes \subseteq UNION {ReachableFrom(n0) : n0 \in InitialNodes}
  BY RecordedAreReachable DEF TBase
<1>2. InitialNodes = {Root}
  BY RootInitial DEF TFinding
<1>3. \E n \in RecordedNodes : Undetermined(n)
  BY DEF TFinding
<1> QED BY <1>1, <1>2, <1>3

\* A traversal that returns has recorded every node that can be reached under the
\* caller's assumptions, and it only gives up where the branching points do not
\* determine the next node.
THEOREM ReachableNodesAreFound ==
  ASSUME RootsGiven, PointsDecide
  PROVE  TSpec => []FindsReachableNodes
<1>1. TSpec => []TBase
  <2>1. TSpec => Spec
    BY TraversalUsesSimulatorAsDocumented DEF UsesSimulatorAsDocumented
  <2>2. TSpec => []Orderly
    BY <2>1, OrderlyInvariance, PTL
  <2>3. TSpec => []SymbolsApart
    BY <2>1, ApartInvariance, PTL
  <2>4. TInv /\ Orderly /\ SymbolsApart /\ Recorded => TBase
    BY DEF TBase
  <2> QED BY <2>2, <2>3, <2>4, TInvariance, TRecordedInvariance, PTL
<1>2. TBase /\ TFinding /\ [TNext]_tvars => TFinding'
  BY TNextFinds
<1>3. TSpec => []TFinding
  BY <1>1, <1>2, InitTFinding, PTL DEF TSpec
<1>4. TBase /\ TFinding /\ (loc \in {"skipped", "done"} => SimulatorRestored) => FindsReachableNodes
  BY ClosedReach, GivesUpReached DEF FindsReachableNodes
<1> QED BY <1>1, <1>3, <1>4, TraversalRestoresSimulator, PTL
=============================================================================

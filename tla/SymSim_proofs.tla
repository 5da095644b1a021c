---------------------------- MODULE SymSim_proofs ----------------------------
(***************************************************************************)
(* Proofs about the symbolic simulator, for all transition systems and all *)
(* bounds: what the parallel stacks of symsim.cpp have in common is an     *)
(* inductive invariant, and fresh symbols are fresh; which symbols belong  *)
(* to the path; that the frames are a path of the system; and that the     *)
(* simulator implements the undo stack.                                    *)
(***************************************************************************)
EXTENDS SymSimRefinement, SequenceFacts

-----------------------------------------------------------------------------
(***************************************************************************)
(* Fresh symbols                                                           *)
(***************************************************************************)

\* free_make_symbol counts on and returns a symbol the solver does not have.
LEMMA MintFresh ==
  ASSUME name_cnt \in [Vars -> 0 .. MaxCnt], NEW v \in Vars, FreeCnts(v) # {}
  PROVE  /\ free_make_symbol(v) \in Sym
         /\ free_make_symbol(v) \notin syms
         /\ free_make_symbol(v).var = v
         /\ free_make_symbol(v).cnt \in 1 .. MaxCnt
<1>1. FreeCnts(v) \in SUBSET Nat /\ FreeCnts(v) \subseteq 1 .. MaxCnt
  BY SymSimAssumption DEF FreeCnts
<1>2. Min(FreeCnts(v)) \in FreeCnts(v)
  BY <1>1, MinOfNats
<1>3. Min(FreeCnts(v)) \in 1 .. MaxCnt
  BY <1>1, <1>2
<1>4. [var |-> v, cnt |-> Min(FreeCnts(v))] \notin syms
  BY <1>2 DEF FreeCnts
<1> QED BY <1>3, <1>4 DEF free_make_symbol, Sym

\* An assignment completed with fresh symbols gives each variable a term.
LEMMA CompleteType ==
  ASSUME name_cnt \in [Vars -> 0 .. MaxCnt],
         NEW vs \in SUBSET Vars, NEW given \in Given(vs),
         CanMint(Unassigned(vs, given))
  PROVE  Complete(vs, given) \in [vs -> Val \cup Sym]
<1>1. \A v \in DOMAIN given : given[v] \in Val
  BY DEF Given
<1>2. \A v \in Unassigned(vs, given) : free_make_symbol(v) \in Sym
  BY MintFresh DEF Unassigned, CanMint
<1> QED BY <1>1, <1>2 DEF Complete, Unassigned

\* Minting keeps the types of the counters and of the solver's symbols.
LEMMA NewVarType ==
  ASSUME name_cnt \in [Vars -> 0 .. MaxCnt], syms \subseteq Sym,
         NEW vs \in SUBSET Vars, CanMint(vs), new_var(vs)
  PROVE  /\ name_cnt' \in [Vars -> 0 .. MaxCnt]
         /\ syms' \subseteq Sym
         /\ syms \subseteq syms'
         /\ {free_make_symbol(v) : v \in vs} \subseteq Sym
         /\ {free_make_symbol(v) : v \in vs} \subseteq syms'
         /\ {free_make_symbol(v) : v \in vs} \cap syms = {}
<1>1. \A v \in vs : /\ free_make_symbol(v) \in Sym
                    /\ free_make_symbol(v) \notin syms
                    /\ free_make_symbol(v).cnt \in 0 .. MaxCnt
  BY MintFresh, SymSimAssumption DEF CanMint
<1> HIDE DEF free_make_symbol
<1>2. name_cnt' \in [Vars -> 0 .. MaxCnt]
  BY <1>1 DEF new_var
<1> QED BY <1>1, <1>2 DEF new_var

-----------------------------------------------------------------------------
(***************************************************************************)
(* Path constraints                                                        *)
(***************************************************************************)

\* A list of names that belongs to a list of path constraints.
Named(interp, asmpt) ==
  /\ Len(interp) = Len(asmpt)
  /\ \A j \in 1 .. Len(asmpt) : interp[j].what = asmpt[j].what

\* The lists of formulas a client passes are sequences of formulas.
LEMMA PreListType == PreLists \subseteq Seq(Pre)
  BY SymSimAssumption DEF PreLists

\* Lists that belong together still do when both are extended or both are cut.
LEMMA NamedConcat ==
  ASSUME NEW l \in Seq(Label), NEW m \in Seq(Label),
         NEW a \in Seq(Assumption), NEW b \in Seq(Assumption),
         Named(l, a), Named(m, b)
  PROVE  Named(l \o m, a \o b)
<1>1. Len(l) = Len(a) /\ Len(m) = Len(b) /\ Len(a) \in Nat /\ Len(b) \in Nat
  BY DEF Named
<1>2. Len(l \o m) = Len(l) + Len(m) /\ Len(a \o b) = Len(a) + Len(b)
  OBVIOUS
<1>3. ASSUME NEW j \in 1 .. Len(a \o b)
      PROVE  (l \o m)[j].what = (a \o b)[j].what
  <2>1. CASE j <= Len(a)
    <3>1. (l \o m)[j] = l[j] /\ (a \o b)[j] = a[j] /\ j \in 1 .. Len(a)
      BY <1>1, <2>1
    <3> QED BY <3>1 DEF Named
  <2>2. CASE ~ (j <= Len(a))
    <3> DEFINE k == j - Len(a)
    <3>1. k \in 1 .. Len(b) /\ j = Len(a) + k
      BY <1>1, <1>2, <2>2
    <3> HIDE DEF k
    <3>2. (l \o m)[j] = m[k] /\ (a \o b)[j] = b[k]
      BY <1>1, <3>1, ConcatType
    <3> QED BY <3>1, <3>2 DEF Named
  <2> QED BY <2>1, <2>2
<1> QED BY <1>1, <1>2, <1>3 DEF Named

\* Cutting both lists to the same length keeps them together.
LEMMA NamedPrefix ==
  ASSUME NEW l \in Seq(Label), NEW a \in Seq(Assumption), Named(l, a),
         NEW n \in 0 .. Len(a)
  PROVE  Named(SubSeq(l, 1, n), SubSeq(a, 1, n))
  BY DEF Named

\* set_input pushes as many names as path constraints, and in the same order.
LEMMA AddedType ==
  ASSUME NEW pre \in Seq(Pre), NEW over \in Path, NEW frame \in Int
  PROVE  /\ AddedAssumptions(pre, over) \in Seq(Assumption)
         /\ AddedLabels(pre, frame) \in Seq(Label)
         /\ Named(AddedLabels(pre, frame), AddedAssumptions(pre, over))
<1> DEFINE a == [i \in 1 .. Len(pre) |-> [what |-> pre[i], over |-> over]]
           l == [i \in 1 .. Len(pre) |-> [what |-> pre[i], at |-> frame]]
           ta == IF HasConstraints THEN <<[what |-> "ts", over |-> over]>> ELSE <<>>
           tl == IF HasConstraints THEN <<[what |-> "ts", at |-> frame]>> ELSE <<>>
<1>1. a \in Seq(Assumption) /\ l \in Seq(Label)
  BY DEF Assumption, Label
<1>2. Named(l, a)
  BY DEF Named
<1>3. ta \in Seq(Assumption) /\ tl \in Seq(Label)
  <2>1. /\ [what |-> "ts", over |-> over] \in Assumption
        /\ [what |-> "ts", at |-> frame] \in Label
    BY DEF Assumption, Label
  <2> QED BY <2>1
<1>4. Named(tl, ta)
  BY SymSimAssumption DEF Named
<1>5. AddedAssumptions(pre, over) = ta \o a /\ AddedLabels(pre, frame) = tl \o l
  BY DEF AddedAssumptions, AddedLabels
<1> HIDE DEF a, l, ta, tl
<1>6. ta \o a \in Seq(Assumption) /\ tl \o l \in Seq(Label)
  BY <1>1, <1>3, ConcatType
<1>7. Named(tl \o l, ta \o a)
  BY <1>1, <1>2, <1>3, <1>4, NamedConcat
<1> QED BY <1>5, <1>6, <1>7

\* Lists that belong together still do when they are concatenated step by step.
LEMMA NamedPartial ==
  ASSUME NEW n \in Nat \ {0}, NEW ln, NEW la, NEW g, NEW h,
         \A i \in 1 .. n : /\ ln[i] \in Seq(Label) /\ la[i] \in Seq(Assumption)
                           /\ Named(ln[i], la[i]),
         g[1] = ln[1], h[1] = la[1],
         \A i \in 2 .. n : g[i] = g[i - 1] \o ln[i],
         \A i \in 2 .. n : h[i] = h[i - 1] \o la[i]
  PROVE  Named(g[n], h[n])
<1> DEFINE Good(i) == /\ g[i] \in Seq(Label) /\ h[i] \in Seq(Assumption)
                      /\ Named(g[i], h[i])
           S == {k \in Nat : k + 1 \in 1 .. n => Good(k + 1)}
<1>1. 0 \in S
  OBVIOUS
<1>2. ASSUME NEW k \in Nat, k \in S
      PROVE  k + 1 \in S
  <2> SUFFICES ASSUME k + 2 \in 1 .. n PROVE Good(k + 2)
    OBVIOUS
  <2>1. k + 2 \in 2 .. n /\ (k + 2) - 1 = k + 1
    OBVIOUS
  <2>2. g[k + 2] = g[k + 1] \o ln[k + 2] /\ h[k + 2] = h[k + 1] \o la[k + 2]
    BY <2>1
  <2>3. Good(k + 1)
    BY <1>2
  <2>4. /\ ln[k + 2] \in Seq(Label) /\ la[k + 2] \in Seq(Assumption)
        /\ Named(ln[k + 2], la[k + 2])
    OBVIOUS
  <2>5. /\ g[k + 1] \o ln[k + 2] \in Seq(Label)
        /\ h[k + 1] \o la[k + 2] \in Seq(Assumption)
    BY <2>3, <2>4, ConcatType
  <2>6. Named(g[k + 1] \o ln[k + 2], h[k + 1] \o la[k + 2])
    BY <2>3, <2>4, NamedConcat
  <2> QED BY <2>2, <2>5, <2>6
<1>3. \A k \in Nat : k \in S
  <2> HIDE DEF S
  <2> QED BY <1>1, <1>2, SetInduction
<1>4. n - 1 \in S
  <2>1. n - 1 \in Nat
    OBVIOUS
  <2> HIDE DEF S
  <2> QED BY <1>3, <2>1
<1>5. (n - 1) + 1 = n /\ n \in 1 .. n
  OBVIOUS
<1> QED BY <1>4, <1>5

\* Parallel stacks whose lists belong together flatten to lists that do.
LEMMA NamedFlatten ==
  ASSUME NEW ln \in Seq(Seq(Label)), NEW la \in Seq(Seq(Assumption)),
         Len(ln) = Len(la), \A k \in 1 .. Len(la) : Named(ln[k], la[k])
  PROVE  /\ FlattenSeq(ln) \in Seq(Label)
         /\ FlattenSeq(la) \in Seq(Assumption)
         /\ Named(FlattenSeq(ln), FlattenSeq(la))
<1>1. FlattenSeq(ln) \in Seq(Label) /\ FlattenSeq(la) \in Seq(Assumption)
  BY FlattenType
<1>2. CASE la = <<>>
  <2>1. ln = <<>>
    BY <1>2
  <2> QED BY <1>1, <1>2, <2>1 DEF FlattenSeq, Named
<1>3. CASE la # <<>>
  <2>1. Len(la) \in Nat \ {0}
    BY <1>3
  <2>2. ln # <<>>
    BY <2>1
  <2>3. \A i \in 1 .. Len(la) : la[i] \in Seq(Assumption)
    OBVIOUS
  <2>4. \A i \in 1 .. Len(ln) : ln[i] \in Seq(Label)
    OBVIOUS
  <2>5. PICK g : /\ FlattenSeq(ln) = g[Len(ln)]
                 /\ g[1] = ln[1]
                 /\ \A i \in 2 .. Len(ln) : g[i] = g[i - 1] \o ln[i]
    BY <2>2, FlattenUnfold
  <2>6. PICK h : /\ FlattenSeq(la) = h[Len(la)]
                 /\ h[1] = la[1]
                 /\ \A i \in 2 .. Len(la) : h[i] = h[i - 1] \o la[i]
    BY <1>3, FlattenUnfold
  <2>7. \A i \in 1 .. Len(la) : /\ ln[i] \in Seq(Label) /\ la[i] \in Seq(Assumption)
                                /\ Named(ln[i], la[i])
    BY <2>3, <2>4
  <2>8. /\ \A i \in 2 .. Len(la) : g[i] = g[i - 1] \o ln[i]
        /\ \A i \in 2 .. Len(la) : h[i] = h[i - 1] \o la[i]
    BY <2>5, <2>6
  <2>9. Named(g[Len(la)], h[Len(la)])
    BY ONLY <2>1, <2>5, <2>6, <2>7, <2>8, NamedPartial
  <2> QED BY <1>1, <2>5, <2>6, <2>9
<1> QED BY <1>2, <1>3

\* Pushing on the list on top, and cutting it back to its old length.
LEMMA PushTopType ==
  ASSUME NEW X, NEW lists \in Seq(Seq(X)), lists # <<>>, NEW items \in Seq(X)
  PROVE  /\ PushTop(lists, items) \in Seq(Seq(X))
         /\ Len(PushTop(lists, items)) = Len(lists)
         /\ \A k \in 1 .. Len(lists) - 1 : PushTop(lists, items)[k] = lists[k]
         /\ PushTop(lists, items)[Len(lists)] = lists[Len(lists)] \o items
<1>1. Len(lists) \in 1 .. Len(lists) /\ lists[Len(lists)] \in Seq(X)
  OBVIOUS
<1>2. lists[Len(lists)] \o items \in Seq(X)
  BY <1>1
<1> QED BY <1>1, <1>2 DEF PushTop

\* Cutting the list on top.
LEMMA ResizeTopType ==
  ASSUME NEW X, NEW lists \in Seq(Seq(X)), lists # <<>>,
         NEW n \in 0 .. Len(lists[Len(lists)])
  PROVE  /\ ResizeTop(lists, n) \in Seq(Seq(X))
         /\ Len(ResizeTop(lists, n)) = Len(lists)
         /\ \A k \in 1 .. Len(lists) - 1 : ResizeTop(lists, n)[k] = lists[k]
         /\ ResizeTop(lists, n)[Len(lists)] = SubSeq(lists[Len(lists)], 1, n)
<1>1. Len(lists) \in 1 .. Len(lists) /\ lists[Len(lists)] \in Seq(X)
  OBVIOUS
<1>2. SubSeq(lists[Len(lists)], 1, n) \in Seq(X)
  BY <1>1, PrefixType
<1> QED BY <1>1, <1>2 DEF ResizeTop

\* Cutting back what was just pushed: nothing is left of it.
LEMMA PushThenResize ==
  ASSUME NEW X, NEW lists \in Seq(Seq(X)), lists # <<>>, NEW items \in Seq(X)
  PROVE  ResizeTop(PushTop(lists, items), Len(Last(lists))) = lists
<1> DEFINE n == Len(lists)
           pushed == PushTop(lists, items)
           cut == ResizeTop(pushed, Len(Last(lists)))
<1>1. n \in Nat \ {0} /\ Last(lists) = lists[n] /\ lists[n] \in Seq(X)
  BY LastType
<1>2. /\ pushed \in Seq(Seq(X)) /\ Len(pushed) = n
      /\ \A k \in 1 .. n - 1 : pushed[k] = lists[k]
      /\ pushed[n] = lists[n] \o items
  BY PushTopType
<1> HIDE DEF pushed
<1>3. pushed # <<>> /\ Len(Last(lists)) \in 0 .. Len(pushed[n])
  BY <1>1, <1>2
<1>4. /\ cut \in Seq(Seq(X)) /\ Len(cut) = n
      /\ \A k \in 1 .. n - 1 : cut[k] = pushed[k]
      /\ cut[n] = SubSeq(pushed[n], 1, Len(Last(lists)))
  BY <1>2, <1>3, ResizeTopType
<1>5. cut[n] = lists[n]
  BY <1>1, <1>2, <1>4, ConcatType
<1> HIDE DEF cut
<1>6. \A k \in 1 .. n : cut[k] = lists[k]
  <2> TAKE k \in 1 .. n
  <2>1. k = n \/ k \in 1 .. n - 1
    BY <1>1
  <2> QED BY <1>2, <1>4, <1>5, <2>1
<1>7. cut = lists
  BY <1>1, <1>4, <1>6, SameSequence
<1> QED BY <1>7 DEF cut, pushed

-----------------------------------------------------------------------------
(***************************************************************************)
(* The inductive invariant.  The type invariant alone is not inductive:    *)
(* resizing to a recorded length, and the top of a stack, have a type only *)
(* because the stacks move together.                                       *)
(***************************************************************************)

\* The state that was copied last has a name for each of its path constraints.
RetNamed == ret # NoState => Named(ret.interp, ret.asmpt)

Replay == FramesReplayChoices /\ AssumptionsReplayChoices

IInv == /\ TypeOK
        /\ StacksAligned
        /\ Replay
        /\ LabelsNameAssumptions
        /\ RetNamed

\* What the stacks look like once there is a frame.
LEMMA Shape ==
  ASSUME TypeOK, StacksAligned, trace # <<>>
  PROVE  /\ Len(trace) \in Nat \ {0}
         /\ Last(trace) = trace[Len(trace)] /\ Last(trace) \in Path
         /\ history_assumptions # <<>> /\ history_assumptions_interp # <<>>
         /\ Len(history_assumptions) = Len(trace)
         /\ Len(history_assumptions_interp) = Len(trace)
         /\ Pending => /\ history_choice # <<>>
                       /\ Len(history_choice) = Len(trace)
         /\ ~ Pending => Len(history_choice) = Len(trace) - 1
         /\ history_choice # <<>> =>
              /\ Last(history_choice) = history_choice[Len(history_choice)]
              /\ Last(history_choice) \in ChoiceItem
<1>1. Last(trace) = trace[Len(trace)] /\ Last(trace) \in Path
      /\ Len(trace) \in Nat \ {0}
  BY LastType DEF TypeOK
<1>2. history_choice # <<>> =>
        /\ Last(history_choice) = history_choice[Len(history_choice)]
        /\ Last(history_choice) \in ChoiceItem
  BY LastType DEF TypeOK
<1>3. /\ Len(history_assumptions) = Len(trace)
      /\ Len(history_assumptions_interp) = Len(trace)
  BY DEF StacksAligned
<1>4. history_assumptions # <<>> /\ history_assumptions_interp # <<>>
  BY <1>1, <1>3
<1>5. Pending => history_choice # <<>>
  BY DEF Pending
<1>6. /\ Pending => Len(history_choice) = Len(trace)
      /\ ~ Pending => Len(history_choice) = Len(trace) - 1
  <2>1. Len(trace) = Len(history_choice) + (IF Pending THEN 0 ELSE 1)
    BY DEF StacksAligned
  <2>2. Len(history_choice) \in Nat
    BY DEF TypeOK
  <2> QED BY <2>1, <2>2
<1> QED BY <1>1, <1>2, <1>3, <1>4, <1>5, <1>6

\* The lists of names and of path constraints of each frame belong together.
LEMMA NamedFrames ==
  ASSUME TypeOK, StacksAligned
  PROVE  LabelsNameAssumptions <=>
           \A k \in 1 .. Len(history_assumptions) :
             Named(history_assumptions_interp[k], history_assumptions[k])
  BY DEF StacksAligned, LabelsNameAssumptions, Named

\* Steps that leave the stacks alone.
LEMMA StacksUnchanged ==
  ASSUME StacksAligned, Replay, LabelsNameAssumptions, UNCHANGED stacks
  PROVE  StacksAligned' /\ Replay' /\ LabelsNameAssumptions'
<1>1. /\ trace' = trace /\ history_choice' = history_choice
      /\ history_assumptions' = history_assumptions
      /\ history_assumptions_interp' = history_assumptions_interp
  BY DEF stacks
<1>2. StacksAligned'
  BY <1>1 DEF StacksAligned, Pending
<1>3. Replay'
  BY <1>1 DEF Replay, FramesReplayChoices, AssumptionsReplayChoices
<1>4. LabelsNameAssumptions'
  BY <1>1 DEF LabelsNameAssumptions
<1> QED BY <1>2, <1>3, <1>4

\* A new simulator satisfies the invariant.
LEMMA InitIInv == Init => IInv
<1> SUFFICES ASSUME Init PROVE IInv
  OBVIOUS
<1>1. TypeOK
  BY SymSimAssumption DEF Init, TypeOK
<1>2. StacksAligned
  BY DEF Init, StacksAligned
<1>3. Replay
  BY DEF Init, Replay, FramesReplayChoices, AssumptionsReplayChoices
<1>4. LabelsNameAssumptions
  BY DEF Init, LabelsNameAssumptions
<1>5. RetNamed
  BY DEF Init, RetNamed
<1> QED BY <1>1, <1>2, <1>3, <1>4, <1>5 DEF IInv

\* init starts all stacks at once.
LEMMA StartKeeps ==
  ASSUME IInv, Start
  PROVE  IInv'
<1> USE DEF IInv
<1>1. PICK given \in Given(StateVars) : trace = <<>> /\ init(given)
  BY DEF Start
<1> DEFINE missing == Unassigned(StateVars, given)
           root == Complete(StateVars, given)
           a == [what |-> "init", over |-> <<root>>]
           l == [what |-> "init", at |-> 0]
<1>2. /\ CanMint(missing)
      /\ trace' = Append(trace, <<root>>)
      /\ history_assumptions' = Append(history_assumptions, <<a>>)
      /\ history_assumptions_interp' = Append(history_assumptions_interp, <<l>>)
      /\ new_var(missing)
      /\ history_choice' = history_choice /\ Xvar' = Xvar /\ ret' = ret
  BY <1>1 DEF init
<1>3. /\ trace = <<>> /\ history_choice = <<>>
      /\ history_assumptions = <<>> /\ history_assumptions_interp = <<>>
  <2>1. history_choice = <<>> /\ Len(history_assumptions) = 0
        /\ Len(history_assumptions_interp) = 0
    BY <1>1 DEF StacksAligned
  <2> QED BY <1>1, <2>1 DEF TypeOK
<1>4. root \in Assignment
  <2>1. StateVars \in SUBSET Vars
    BY DEF Vars
  <2>2. root \in [StateVars -> Val \cup Sym]
    BY <1>2, <2>1, CompleteType DEF TypeOK
  <2> QED BY <2>2 DEF Assignment
<1>5. name_cnt' \in [Vars -> 0 .. MaxCnt] /\ syms' \subseteq Sym
  <2>1. missing \in SUBSET Vars
    BY DEF Unassigned, Vars
  <2> HIDE DEF missing
  <2> QED BY <1>2, <2>1, NewVarType DEF TypeOK
<1> HIDE DEF missing, root
<1>6. <<root>> \in Path /\ a \in Assumption /\ l \in Label
  BY <1>4 DEF Path, Assumption, Label
<1> HIDE DEF a, l
<1>7. /\ trace' = <<<<root>>>> /\ history_choice' = <<>>
      /\ history_assumptions' = <<<<a>>>> /\ history_assumptions_interp' = <<<<l>>>>
  BY <1>2, <1>3
<1>8. TypeOK'
  BY <1>2, <1>5, <1>6, <1>7 DEF TypeOK
<1>9. StacksAligned'
  BY <1>7 DEF StacksAligned, Pending
<1>10. Replay'
  BY <1>7 DEF Replay, FramesReplayChoices, AssumptionsReplayChoices
<1>11. LabelsNameAssumptions'
  BY <1>7 DEF LabelsNameAssumptions, a, l
<1>12. RetNamed'
  BY <1>2 DEF RetNamed
<1> QED BY <1>8, <1>9, <1>10, <1>11, <1>12

\* set_input extends the lists on top and records how long they were.
LEMMA ChooseKeeps ==
  ASSUME IInv, Choose
  PROVE  IInv'
<1> USE DEF IInv
<1>1. PICK given \in Given(InVars), pre \in PreLists : set_input(given, pre)
  BY DEF Choose
<1> DEFINE n == Len(trace)
           missing == Unassigned(InVars, given)
           inputs == Complete(InVars, given)
           over == Append(Last(trace), inputs)
           A == AddedAssumptions(pre, over)
           L == AddedLabels(pre, Len(trace) - 1)
           c == [assumptions |-> pre, var_assign |-> inputs, UsedInSim |-> FALSE,
                 assmpt_len |-> Len(Last(history_assumptions))]
<1>2. /\ trace # <<>> /\ ~ Pending /\ CanMint(missing)
      /\ history_choice' = Append(history_choice, c)
      /\ history_assumptions' = PushTop(history_assumptions, A)
      /\ history_assumptions_interp' = PushTop(history_assumptions_interp, L)
      /\ new_var(missing)
      /\ Xvar' = Xvar \cup {free_make_symbol(v) : v \in missing}
      /\ trace' = trace /\ ret' = ret
  BY <1>1 DEF set_input
<1>3. /\ n \in Nat \ {0} /\ Last(trace) = trace[n] /\ Last(trace) \in Path
      /\ Len(history_choice) = n - 1
      /\ history_assumptions # <<>> /\ history_assumptions_interp # <<>>
      /\ Len(history_assumptions) = n /\ Len(history_assumptions_interp) = n
  BY <1>2, Shape
<1>4. pre \in Seq(Pre)
  BY PreListType
<1>5. inputs \in [InVars -> Val \cup Sym] /\ missing \in SUBSET Vars
  <2>1. InVars \in SUBSET Vars
    BY DEF Vars
  <2> QED BY <1>2, <2>1, CompleteType DEF TypeOK, Unassigned
<1>6. over \in Path
  BY <1>3, <1>5 DEF Path, Assignment
<1>7. /\ name_cnt' \in [Vars -> 0 .. MaxCnt] /\ syms' \subseteq Sym
      /\ {free_make_symbol(v) : v \in missing} \subseteq Sym
  <2> HIDE DEF missing
  <2> QED BY <1>2, <1>5, NewVarType DEF TypeOK
<1> HIDE DEF missing, inputs
<1>8. A \in Seq(Assumption) /\ L \in Seq(Label) /\ Named(L, A)
  <2>1. Len(trace) - 1 \in Int
    BY <1>3
  <2> HIDE DEF over
  <2> QED BY <1>4, <1>6, <2>1, AddedType
<1> HIDE DEF A, L
<1>9. /\ history_assumptions[n] \in Seq(Assumption)
      /\ Last(history_assumptions) = history_assumptions[n]
      /\ history_assumptions_interp[n] \in Seq(Label)
      /\ Named(history_assumptions_interp[n], history_assumptions[n])
  <2>1. /\ history_assumptions[n] \in Seq(Assumption)
        /\ Last(history_assumptions) = history_assumptions[n]
    BY <1>3, LastType DEF TypeOK
  <2>2. history_assumptions_interp[n] \in Seq(Label)
    BY <1>3, LastType DEF TypeOK
  <2>3. n \in 1 .. Len(history_assumptions)
    BY <1>3
  <2> QED BY <2>1, <2>2, <2>3, NamedFrames
<1>10. c \in ChoiceItem
  BY <1>4, <1>5, <1>9 DEF ChoiceItem
<1>11. /\ history_assumptions' \in Seq(Seq(Assumption))
       /\ Len(history_assumptions') = n
       /\ \A k \in 1 .. n - 1 : history_assumptions'[k] = history_assumptions[k]
       /\ history_assumptions'[n] = history_assumptions[n] \o A
  <2>1. history_assumptions \in Seq(Seq(Assumption)) /\ history_assumptions # <<>>
    BY <1>3 DEF TypeOK
  <2>2. history_assumptions' = PushTop(history_assumptions, A) /\ Len(history_assumptions) = n
    BY <1>2, <1>3
  <2> HIDE DEF n
  <2> QED BY ONLY <1>8, <2>1, <2>2, PushTopType
<1>12. /\ history_assumptions_interp' \in Seq(Seq(Label))
       /\ Len(history_assumptions_interp') = n
       /\ \A k \in 1 .. n - 1 :
            history_assumptions_interp'[k] = history_assumptions_interp[k]
       /\ history_assumptions_interp'[n] = history_assumptions_interp[n] \o L
  <2>1. history_assumptions_interp \in Seq(Seq(Label)) /\ history_assumptions_interp # <<>>
    BY <1>3 DEF TypeOK
  <2>2. history_assumptions_interp' = PushTop(history_assumptions_interp, L) /\ Len(history_assumptions_interp) = n
    BY <1>2, <1>3
  <2> HIDE DEF n
  <2> QED BY ONLY <1>8, <2>1, <2>2, PushTopType
<1>13. /\ history_choice' \in Seq(ChoiceItem)
       /\ Len(history_choice') = n
       /\ \A k \in 1 .. n - 1 : history_choice'[k] = history_choice[k]
       /\ history_choice'[n] = c
  <2> HIDE DEF c
  <2> QED BY <1>2, <1>3, <1>10, AppendType DEF TypeOK
<1>14. TypeOK'
  BY <1>2, <1>7, <1>11, <1>12, <1>13 DEF TypeOK
<1>15. StacksAligned'
  <2>1. Pending'
    <3>1. history_choice' # <<>> /\ Last(history_choice') = c
      BY <1>3, <1>13 DEF Last
    <3> QED BY <3>1 DEF Pending
  <2>2. \A k \in 1 .. n - 1 : history_choice[k].UsedInSim
    <3> TAKE k \in 1 .. n - 1
    <3>1. CASE k < n - 1
      BY <1>3, <3>1 DEF StacksAligned
    <3>2. CASE k = n - 1
      <4>1. history_choice # <<>> /\ Last(history_choice) = history_choice[k]
        BY <1>3, <3>2 DEF Last
      <4> QED BY <1>2, <4>1 DEF Pending
    <3> QED BY <1>3, <3>1, <3>2
  <2>3. \A k \in 1 .. Len(history_choice') - 1 : history_choice'[k].UsedInSim
    BY <1>13, <2>2
  <2> QED BY <1>2, <1>3, <1>11, <1>12, <1>13, <2>1, <2>3 DEF StacksAligned
<1>16. FramesReplayChoices'
  BY <1>2, <1>3, <1>13 DEF Replay, FramesReplayChoices
<1>17. AssumptionsReplayChoices'
  <2>1. c.assmpt_len = Len(history_assumptions[n]) /\ c.assmpt_len \in Nat
    BY <1>9
  <2>2. n > 1 => history_assumptions[n] = <<>>
    BY <1>3 DEF Replay, AssumptionsReplayChoices
  <2>3. /\ c.assmpt_len <= Len(history_assumptions'[n])
        /\ n > 1 => c.assmpt_len = 0
        /\ history_assumptions'[n] =
             SubSeq(history_assumptions'[n], 1, c.assmpt_len) \o
               AddedAssumptions(c.assumptions, Append(trace'[n], c.var_assign))
    <3>1. SubSeq(history_assumptions'[n], 1, c.assmpt_len) = history_assumptions[n]
      BY <1>8, <1>9, <1>11, <2>1, ConcatType
    <3>2. AddedAssumptions(c.assumptions, Append(trace'[n], c.var_assign)) = A
      BY <1>2, <1>3 DEF A
    <3>3. c.assmpt_len <= Len(history_assumptions'[n])
      BY <1>8, <1>9, <1>11, <2>1, ConcatType
    <3>4. n > 1 => c.assmpt_len = 0
      BY <2>1, <2>2
    <3> QED BY <1>11, <3>1, <3>2, <3>3, <3>4
  <2> HIDE DEF c
  <2>4. ASSUME NEW k \in 1 .. n - 1
        PROVE  /\ history_choice[k].assmpt_len <= Len(history_assumptions[k])
               /\ k > 1 => history_choice[k].assmpt_len = 0
               /\ history_assumptions[k] =
                    SubSeq(history_assumptions[k], 1, history_choice[k].assmpt_len) \o
                      AddedAssumptions(history_choice[k].assumptions,
                        Append(trace[k], history_choice[k].var_assign))
    BY <1>3 DEF Replay, AssumptionsReplayChoices
  <2>5. \A k \in 1 .. n : k = n \/ k \in 1 .. n - 1
    BY <1>3
  <2>6. \A k \in 1 .. n :
          /\ history_choice'[k].assmpt_len <= Len(history_assumptions'[k])
          /\ k > 1 => history_choice'[k].assmpt_len = 0
          /\ history_assumptions'[k] =
               SubSeq(history_assumptions'[k], 1, history_choice'[k].assmpt_len) \o
                 AddedAssumptions(history_choice'[k].assumptions,
                   Append(trace'[k], history_choice'[k].var_assign))
    <3> TAKE k \in 1 .. n
    <3>1. CASE k = n
      <4>1. n > 1 => c.assmpt_len = 0
        BY <2>3
      <4> QED BY <1>13, <2>3, <3>1, <4>1
    <3>2. CASE k \in 1 .. n - 1
      <4>1. /\ history_choice'[k] = history_choice[k] /\ trace' = trace
            /\ history_assumptions'[k] = history_assumptions[k]
        BY <1>2, <1>11, <1>13, <3>2
      <4> QED BY <2>4, <3>2, <4>1
    <3> QED BY <2>5, <3>1, <3>2
  <2>7. \A k \in 2 .. Len(trace') : ~ (k > Len(history_choice'))
    BY <1>2, <1>3, <1>13
  <2> QED BY <1>13, <2>6, <2>7 DEF AssumptionsReplayChoices
<1>18. LabelsNameAssumptions'
  <2>1. Named(history_assumptions_interp'[n], history_assumptions'[n])
    BY <1>8, <1>9, <1>11, <1>12, NamedConcat
  <2>2. \A k \in 1 .. n - 1 :
          Named(history_assumptions_interp'[k], history_assumptions'[k])
    BY <1>3, <1>11, <1>12, NamedFrames
  <2>3. \A k \in 1 .. n : k = n \/ k \in 1 .. n - 1
    BY <1>3
  <2> QED BY <1>2, <2>1, <2>2, <2>3 DEF LabelsNameAssumptions, Named
<1>19. RetNamed'
  BY <1>2 DEF RetNamed
<1> QED BY <1>14, <1>15, <1>16, <1>17, <1>18, <1>19 DEF Replay

\* undo_set_input cuts both lists on top where the choice says.
LEMMA WithdrawKeeps ==
  ASSUME IInv, Withdraw
  PROVE  IInv'
<1> USE DEF IInv
<1> DEFINE n == Len(trace)
           len == Last(history_choice).assmpt_len
<1>1. /\ Pending
      /\ history_assumptions' = ResizeTop(history_assumptions, len)
      /\ history_assumptions_interp' = ResizeTop(history_assumptions_interp, len)
      /\ history_choice' = Front(history_choice)
      /\ trace' = trace /\ ret' = ret
      /\ name_cnt' = name_cnt /\ Xvar' = Xvar /\ syms' = syms
  BY DEF Withdraw, undo_set_input, names
<1>2. trace # <<>> /\ history_choice # <<>>
  BY <1>1 DEF Pending, StacksAligned
<1>3. /\ n \in Nat \ {0} /\ Len(history_choice) = n
      /\ Last(history_choice) = history_choice[n]
      /\ Last(history_choice) \in ChoiceItem
      /\ history_assumptions # <<>> /\ history_assumptions_interp # <<>>
      /\ Len(history_assumptions) = n /\ Len(history_assumptions_interp) = n
  BY <1>1, <1>2, Shape
<1>4. /\ history_assumptions[n] \in Seq(Assumption)
      /\ history_assumptions_interp[n] \in Seq(Label)
      /\ Named(history_assumptions_interp[n], history_assumptions[n])
  <2>1. history_assumptions[n] \in Seq(Assumption)
    BY <1>3, LastType DEF TypeOK
  <2>2. history_assumptions_interp[n] \in Seq(Label)
    BY <1>3, LastType DEF TypeOK
  <2>3. n \in 1 .. Len(history_assumptions)
    BY <1>3
  <2> QED BY <2>1, <2>2, <2>3, NamedFrames
<1>5. /\ len \in 0 .. Len(history_assumptions[n])
      /\ len \in 0 .. Len(history_assumptions_interp[n])
      /\ n > 1 => len = 0
  <2>1. /\ len <= Len(history_assumptions[n])
        /\ n > 1 => len = 0
    BY <1>3 DEF Replay, AssumptionsReplayChoices
  <2>2. len \in Nat
    BY <1>3 DEF ChoiceItem
  <2>3. Len(history_assumptions_interp[n]) = Len(history_assumptions[n])
    BY <1>4 DEF Named
  <2> HIDE DEF len, n
  <2> QED BY <1>4, <2>1, <2>2, <2>3
<1> HIDE DEF len
<1>6. /\ history_assumptions' \in Seq(Seq(Assumption))
      /\ Len(history_assumptions') = n
      /\ \A k \in 1 .. n - 1 : history_assumptions'[k] = history_assumptions[k]
      /\ history_assumptions'[n] = SubSeq(history_assumptions[n], 1, len)
  <2>1. history_assumptions \in Seq(Seq(Assumption)) /\ history_assumptions # <<>>
    BY <1>3 DEF TypeOK
  <2>2. /\ history_assumptions' = ResizeTop(history_assumptions, len)
        /\ Len(history_assumptions) = n
    BY <1>1, <1>3
  <2> HIDE DEF n
  <2> QED BY ONLY <1>5, <2>1, <2>2, ResizeTopType
<1>7. /\ history_assumptions_interp' \in Seq(Seq(Label))
      /\ Len(history_assumptions_interp') = n
      /\ \A k \in 1 .. n - 1 :
           history_assumptions_interp'[k] = history_assumptions_interp[k]
      /\ history_assumptions_interp'[n] = SubSeq(history_assumptions_interp[n], 1, len)
  <2>1. /\ history_assumptions_interp \in Seq(Seq(Label))
        /\ history_assumptions_interp # <<>>
    BY <1>3 DEF TypeOK
  <2>2. /\ history_assumptions_interp' = ResizeTop(history_assumptions_interp, len)
        /\ Len(history_assumptions_interp) = n
    BY <1>1, <1>3
  <2> HIDE DEF n
  <2> QED BY ONLY <1>5, <2>1, <2>2, ResizeTopType
<1>8. /\ history_choice' \in Seq(ChoiceItem)
      /\ Len(history_choice') = n - 1
      /\ \A k \in 1 .. n - 1 : history_choice'[k] = history_choice[k]
  BY <1>1, <1>2, <1>3, FrontType DEF TypeOK
<1>9. TypeOK'
  BY <1>1, <1>6, <1>7, <1>8 DEF TypeOK
<1>10. \A k \in 1 .. n - 1 : history_choice'[k].UsedInSim
  BY <1>3, <1>8 DEF StacksAligned
<1>11. ~ Pending'
  <2>1. CASE n = 1
    BY <1>8, <2>1 DEF Pending
  <2>2. CASE n # 1
    <3>1. n - 1 \in 1 .. n - 1 /\ Last(history_choice') = history_choice'[n - 1]
      BY <1>3, <1>8, <2>2 DEF Last
    <3> QED BY <1>10, <3>1 DEF Pending
  <2> QED BY <2>1, <2>2
<1>12. StacksAligned'
  BY <1>1, <1>2, <1>3, <1>6, <1>7, <1>8, <1>10, <1>11 DEF StacksAligned
<1>13. FramesReplayChoices'
  BY <1>1, <1>3, <1>8 DEF Replay, FramesReplayChoices
<1>14. AssumptionsReplayChoices'
  <2>1. \A k \in 1 .. n - 1 :
          /\ history_choice'[k] = history_choice[k] /\ trace' = trace
          /\ history_assumptions'[k] = history_assumptions[k]
          /\ k \in 1 .. Len(history_choice)
    BY <1>1, <1>3, <1>6, <1>8
  <2>2. n > 1 => history_assumptions'[n] = <<>>
    BY <1>4, <1>5, <1>6
  <2>3. \A k \in 2 .. n : k > n - 1 => k = n /\ n > 1
    BY <1>3
  <2> QED BY <1>1, <1>8, <2>1, <2>2, <2>3 DEF Replay, AssumptionsReplayChoices
<1>15. LabelsNameAssumptions'
  <2>1. Named(history_assumptions_interp'[n], history_assumptions'[n])
    BY <1>4, <1>5, <1>6, <1>7, NamedPrefix
  <2>2. \A k \in 1 .. n - 1 :
          Named(history_assumptions_interp'[k], history_assumptions'[k])
    BY <1>3, <1>6, <1>7, NamedFrames
  <2>3. \A k \in 1 .. n : k = n \/ k \in 1 .. n - 1
    BY <1>3
  <2> QED BY <1>1, <2>1, <2>2, <2>3 DEF LabelsNameAssumptions, Named
<1>16. RetNamed'
  BY <1>1 DEF RetNamed
<1> QED BY <1>9, <1>12, <1>13, <1>14, <1>15, <1>16 DEF Replay

\* sim_one_step opens a frame, with no path constraint, and uses the choice.
LEMMA AdvanceKeeps ==
  ASSUME IInv, Advance
  PROVE  IInv'
<1> USE DEF IInv
<1> DEFINE n == Len(trace)
           last == Last(history_choice)
           frame == Append(Last(trace), last.var_assign)
<1>1. /\ Pending
      /\ history_choice' =
           [history_choice EXCEPT ![Len(history_choice)].UsedInSim = TRUE]
      /\ trace' = Append(trace, frame)
      /\ history_assumptions' = Append(history_assumptions, <<>>)
      /\ history_assumptions_interp' = Append(history_assumptions_interp, <<>>)
      /\ ret' = ret /\ name_cnt' = name_cnt /\ Xvar' = Xvar /\ syms' = syms
  BY DEF Advance, sim_one_step, names
<1>2. trace # <<>> /\ history_choice # <<>>
  BY <1>1 DEF Pending, StacksAligned
<1>3. /\ n \in Nat \ {0} /\ Len(history_choice) = n
      /\ Last(trace) = trace[n] /\ Last(trace) \in Path
      /\ last = history_choice[n] /\ last \in ChoiceItem
      /\ Len(history_assumptions) = n /\ Len(history_assumptions_interp) = n
  BY <1>1, <1>2, Shape
<1>4. frame \in Path
  BY <1>3 DEF Path, Assignment, ChoiceItem
<1> HIDE DEF frame
<1>5. /\ trace' \in Seq(Path) /\ Len(trace') = n + 1
      /\ \A k \in 1 .. n : trace'[k] = trace[k]
      /\ trace'[n + 1] = frame
  BY <1>1, <1>4, AppendType DEF TypeOK
<1>6. /\ history_assumptions' \in Seq(Seq(Assumption))
      /\ Len(history_assumptions') = n + 1
      /\ \A k \in 1 .. n : history_assumptions'[k] = history_assumptions[k]
      /\ history_assumptions'[n + 1] = <<>>
  BY <1>1, <1>3, AppendType DEF TypeOK
<1>7. /\ history_assumptions_interp' \in Seq(Seq(Label))
      /\ Len(history_assumptions_interp') = n + 1
      /\ \A k \in 1 .. n :
           history_assumptions_interp'[k] = history_assumptions_interp[k]
      /\ history_assumptions_interp'[n + 1] = <<>>
  BY <1>1, <1>3, AppendType DEF TypeOK
<1>8. /\ history_choice' \in Seq(ChoiceItem)
      /\ Len(history_choice') = n
      /\ \A k \in 1 .. n - 1 : history_choice'[k] = history_choice[k]
      /\ history_choice'[n] = [last EXCEPT !.UsedInSim = TRUE]
  <2>1. [last EXCEPT !.UsedInSim = TRUE] \in ChoiceItem
    BY <1>3 DEF ChoiceItem
  <2>2. history_choice' = [history_choice EXCEPT ![n] = [last EXCEPT !.UsedInSim = TRUE]]
    BY <1>1, <1>3
  <2>3. /\ history_choice \in Seq(ChoiceItem) /\ history_choice # <<>>
        /\ Len(history_choice) = n
    BY <1>2, <1>3 DEF TypeOK
  <2> HIDE DEF last, n
  <2> QED BY ONLY <2>1, <2>2, <2>3, ReplaceLast
<1>9. /\ \A k \in 1 .. n : history_choice'[k].var_assign = history_choice[k].var_assign
      /\ \A k \in 1 .. n : history_choice'[k].assmpt_len = history_choice[k].assmpt_len
      /\ \A k \in 1 .. n : history_choice'[k].assumptions = history_choice[k].assumptions
      /\ history_choice'[n].UsedInSim
  <2>1. /\ history_choice'[n].UsedInSim
        /\ history_choice'[n].var_assign = history_choice[n].var_assign
        /\ history_choice'[n].assmpt_len = history_choice[n].assmpt_len
        /\ history_choice'[n].assumptions = history_choice[n].assumptions
    BY <1>3, <1>8 DEF ChoiceItem
  <2>2. \A k \in 1 .. n : k = n \/ k \in 1 .. n - 1
    BY <1>3
  <2> HIDE DEF n
  <2> QED BY <1>8, <2>1, <2>2
<1>10. TypeOK'
  BY <1>1, <1>5, <1>6, <1>7, <1>8 DEF TypeOK
<1>11. ~ Pending'
  <2>1. Last(history_choice') = history_choice'[n]
    BY <1>8 DEF Last
  <2> QED BY <1>9, <2>1 DEF Pending
<1>12. StacksAligned'
  <2>1. \A k \in 1 .. n - 1 : history_choice'[k].UsedInSim
    BY <1>3, <1>8 DEF StacksAligned
  <2>2. trace' # <<>>
    BY <1>3, <1>5
  <2> QED BY <1>3, <1>5, <1>6, <1>7, <1>8, <1>11, <2>1, <2>2 DEF StacksAligned
<1>13. FramesReplayChoices'
  <2>1. frame = Append(trace'[n], history_choice'[n].var_assign)
    BY <1>3, <1>5, <1>9 DEF frame
  <2>2. ASSUME NEW k \in 1 .. n - 1
        PROVE  trace'[k + 1] = Append(trace'[k], history_choice'[k].var_assign)
    BY <1>3, <1>5, <1>9 DEF Replay, FramesReplayChoices
  <2>3. \A k \in 1 .. n : k = n \/ k \in 1 .. n - 1
    BY <1>3
  <2> QED BY <1>3, <1>5, <2>1, <2>2, <2>3 DEF FramesReplayChoices
<1>14. AssumptionsReplayChoices'
  <2>1. \A k \in 1 .. n :
          /\ trace'[k] = trace[k] /\ history_assumptions'[k] = history_assumptions[k]
          /\ history_choice'[k].var_assign = history_choice[k].var_assign
          /\ history_choice'[k].assmpt_len = history_choice[k].assmpt_len
          /\ history_choice'[k].assumptions = history_choice[k].assumptions
    BY <1>5, <1>6, <1>9
  <2>2. \A k \in 1 .. n :
          /\ history_choice[k].assmpt_len <= Len(history_assumptions[k])
          /\ k > 1 => history_choice[k].assmpt_len = 0
          /\ history_assumptions[k] =
               SubSeq(history_assumptions[k], 1, history_choice[k].assmpt_len) \o
                 AddedAssumptions(history_choice[k].assumptions,
                   Append(trace[k], history_choice[k].var_assign))
    BY <1>3 DEF Replay, AssumptionsReplayChoices
  <2>3. \A k \in 2 .. n + 1 : k > n => k = n + 1
    BY <1>3
  <2> QED BY <1>5, <1>6, <1>8, <2>1, <2>2, <2>3 DEF AssumptionsReplayChoices
<1>15. LabelsNameAssumptions'
  <2>1. \A k \in 1 .. n :
          Named(history_assumptions_interp'[k], history_assumptions'[k])
    BY <1>3, <1>6, <1>7, NamedFrames
  <2>2. Named(history_assumptions_interp'[n + 1], history_assumptions'[n + 1])
    BY <1>6, <1>7 DEF Named
  <2>3. \A k \in 1 .. n + 1 : k = n + 1 \/ k \in 1 .. n
    BY <1>3
  <2> QED BY <1>5, <2>1, <2>2, <2>3 DEF LabelsNameAssumptions, Named
<1>16. RetNamed'
  BY <1>1 DEF RetNamed
<1> QED BY <1>10, <1>12, <1>13, <1>14, <1>15, <1>16 DEF Replay

\* backtrack drops the frame that the last choice made, which then is pending.
LEMMA RetreatKeeps ==
  ASSUME IInv, Retreat
  PROVE  IInv'
<1> USE DEF IInv
<1> DEFINE n == Len(history_choice)
           last == Last(history_choice)
<1>1. /\ ~ Pending /\ history_choice # <<>>
      /\ trace' = Front(trace)
      /\ history_assumptions' = Front(history_assumptions)
      /\ history_assumptions_interp' = Front(history_assumptions_interp)
      /\ history_choice' =
           [history_choice EXCEPT ![Len(history_choice)].UsedInSim = FALSE]
      /\ ret' = ret /\ name_cnt' = name_cnt /\ Xvar' = Xvar /\ syms' = syms
  BY DEF Retreat, backtrack, names
<1>2. trace # <<>>
  BY <1>1 DEF StacksAligned
<1>3. /\ n \in Nat \ {0} /\ Len(trace) = n + 1
      /\ last = history_choice[n] /\ last \in ChoiceItem
      /\ history_assumptions # <<>> /\ history_assumptions_interp # <<>>
      /\ Len(history_assumptions) = n + 1
      /\ Len(history_assumptions_interp) = n + 1
  <2>1. n \in Nat \ {0}
    BY <1>1, LastType DEF TypeOK
  <2> QED BY <1>1, <1>2, <2>1, Shape
<1>4. /\ trace' \in Seq(Path) /\ Len(trace') = n
      /\ \A k \in 1 .. n : trace'[k] = trace[k]
  <2>1. trace \in Seq(Path) /\ trace # <<>>
    BY <1>2 DEF TypeOK
  <2>2. trace' = Front(trace) /\ Len(trace) - 1 = n
    BY <1>1, <1>3
  <2> HIDE DEF n
  <2> QED BY ONLY <2>1, <2>2, FrontType
<1>5. /\ history_assumptions' \in Seq(Seq(Assumption))
      /\ Len(history_assumptions') = n
      /\ \A k \in 1 .. n : history_assumptions'[k] = history_assumptions[k]
  <2>1. history_assumptions \in Seq(Seq(Assumption)) /\ history_assumptions # <<>>
    BY <1>3 DEF TypeOK
  <2>2. history_assumptions' = Front(history_assumptions) /\ Len(history_assumptions) - 1 = n
    BY <1>1, <1>3
  <2> HIDE DEF n
  <2> QED BY ONLY <2>1, <2>2, FrontType
<1>6. /\ history_assumptions_interp' \in Seq(Seq(Label))
      /\ Len(history_assumptions_interp') = n
      /\ \A k \in 1 .. n :
           history_assumptions_interp'[k] = history_assumptions_interp[k]
  <2>1. history_assumptions_interp \in Seq(Seq(Label)) /\ history_assumptions_interp # <<>>
    BY <1>3 DEF TypeOK
  <2>2. history_assumptions_interp' = Front(history_assumptions_interp) /\ Len(history_assumptions_interp) - 1 = n
    BY <1>1, <1>3
  <2> HIDE DEF n
  <2> QED BY ONLY <2>1, <2>2, FrontType
<1>7. /\ history_choice' \in Seq(ChoiceItem)
      /\ Len(history_choice') = n
      /\ \A k \in 1 .. n - 1 : history_choice'[k] = history_choice[k]
      /\ history_choice'[n] = [last EXCEPT !.UsedInSim = FALSE]
  <2>1. [last EXCEPT !.UsedInSim = FALSE] \in ChoiceItem
    BY <1>3 DEF ChoiceItem
  <2>2. history_choice' =
          [history_choice EXCEPT ![Len(history_choice)] = [last EXCEPT !.UsedInSim = FALSE]]
    BY <1>1, <1>3
  <2>3. history_choice \in Seq(ChoiceItem) /\ history_choice # <<>>
    BY <1>1 DEF TypeOK
  <2> HIDE DEF last
  <2> QED BY ONLY <2>1, <2>2, <2>3, ReplaceLast
<1>8. /\ \A k \in 1 .. n : history_choice'[k].var_assign = history_choice[k].var_assign
      /\ \A k \in 1 .. n : history_choice'[k].assmpt_len = history_choice[k].assmpt_len
      /\ \A k \in 1 .. n : history_choice'[k].assumptions = history_choice[k].assumptions
      /\ ~ history_choice'[n].UsedInSim
  <2>1. /\ ~ history_choice'[n].UsedInSim
        /\ history_choice'[n].var_assign = history_choice[n].var_assign
        /\ history_choice'[n].assmpt_len = history_choice[n].assmpt_len
        /\ history_choice'[n].assumptions = history_choice[n].assumptions
    BY <1>3, <1>7 DEF ChoiceItem
  <2>2. \A k \in 1 .. n : k = n \/ k \in 1 .. n - 1
    BY <1>3
  <2> HIDE DEF n
  <2> QED BY <1>7, <2>1, <2>2
<1>9. TypeOK'
  BY <1>1, <1>4, <1>5, <1>6, <1>7 DEF TypeOK
<1>10. Pending'
  <2>1. history_choice' # <<>> /\ Last(history_choice') = history_choice'[n]
    BY <1>3, <1>7 DEF Last
  <2> QED BY <1>8, <2>1 DEF Pending
<1>11. StacksAligned'
  <2>1. \A k \in 1 .. n - 1 : history_choice'[k].UsedInSim
    BY <1>3, <1>7 DEF StacksAligned
  <2>2. trace' # <<>>
    BY <1>3, <1>4
  <2> QED BY <1>3, <1>4, <1>5, <1>6, <1>7, <1>10, <2>1, <2>2 DEF StacksAligned
<1>12. FramesReplayChoices'
  <2>1. \A k \in 1 .. n - 1 : /\ k \in 1 .. n /\ k + 1 \in 1 .. n
                              /\ k \in 1 .. (n + 1) - 1
    BY <1>3
  <2>2. \A k \in 1 .. n - 1 :
          trace[k + 1] = Append(trace[k], history_choice[k].var_assign)
    BY <1>3, <2>1 DEF Replay, FramesReplayChoices
  <2> QED BY <1>4, <1>8, <2>1, <2>2 DEF FramesReplayChoices
<1>13. AssumptionsReplayChoices'
  <2>1. \A k \in 1 .. n :
          /\ trace'[k] = trace[k] /\ history_assumptions'[k] = history_assumptions[k]
          /\ history_choice'[k].var_assign = history_choice[k].var_assign
          /\ history_choice'[k].assmpt_len = history_choice[k].assmpt_len
          /\ history_choice'[k].assumptions = history_choice[k].assumptions
    BY <1>4, <1>5, <1>8
  <2>2. \A k \in 1 .. n :
          /\ history_choice[k].assmpt_len <= Len(history_assumptions[k])
          /\ k > 1 => history_choice[k].assmpt_len = 0
          /\ history_assumptions[k] =
               SubSeq(history_assumptions[k], 1, history_choice[k].assmpt_len) \o
                 AddedAssumptions(history_choice[k].assumptions,
                   Append(trace[k], history_choice[k].var_assign))
    BY DEF Replay, AssumptionsReplayChoices
  <2>3. \A k \in 2 .. n : ~ (k > n)
    BY <1>3
  <2> QED BY <1>4, <1>7, <2>1, <2>2, <2>3 DEF AssumptionsReplayChoices
<1>14. LabelsNameAssumptions'
  <2>1. \A k \in 1 .. n : k \in 1 .. n + 1
    BY <1>3
  <2>2. \A k \in 1 .. n :
          Named(history_assumptions_interp'[k], history_assumptions'[k])
    BY <1>3, <1>5, <1>6, <2>1, NamedFrames
  <2> QED BY <1>4, <2>2 DEF LabelsNameAssumptions, Named
<1>15. RetNamed'
  BY <1>1 DEF RetNamed
<1> QED BY <1>9, <1>11, <1>12, <1>13, <1>14, <1>15 DEF Replay

\* get_curr_state returns lists that belong together and leaves the stacks as
\* they were: with an input pending it only reads, else it pushes and cuts.
LEMMA CopyKeeps ==
  ASSUME IInv, Copy
  PROVE  IInv'
<1> USE DEF IInv
<1>1. PICK pre \in PreLists : get_curr_state(pre)
  BY DEF Copy
<1>2. CASE get_curr_state_pending
  <2>1. /\ Pending
        /\ UNCHANGED stacks /\ name_cnt' = name_cnt /\ Xvar' = Xvar /\ syms' = syms
        /\ ret' = [sv |-> Last(trace),
                   asmpt |-> all_assumptions(history_assumptions),
                   interp |-> all_assumptions(history_assumptions_interp)]
    BY <1>2 DEF get_curr_state_pending, names
  <2>2. trace # <<>>
    BY <2>1 DEF Pending, StacksAligned
  <2>3. Last(trace) \in Path
    BY <2>2, Shape
  <2>4. /\ FlattenSeq(history_assumptions_interp) \in Seq(Label)
        /\ FlattenSeq(history_assumptions) \in Seq(Assumption)
        /\ Named(FlattenSeq(history_assumptions_interp),
                 FlattenSeq(history_assumptions))
    BY NamedFlatten, NamedFrames DEF TypeOK, StacksAligned
  <2>5. ret' \in StateAsmpt /\ RetNamed'
    BY <2>1, <2>3, <2>4 DEF StateAsmpt, RetNamed, all_assumptions
  <2>6. TypeOK'
    BY <2>1, <2>5 DEF TypeOK, stacks
  <2> QED BY <2>1, <2>5, <2>6, StacksUnchanged
<1>3. CASE get_curr_state_pushed(pre)
  <2> DEFINE n == Len(trace)
             over == Append(Last(trace), Complete(InVars, <<>>))
             A == AddedAssumptions(pre, over)
             L == AddedLabels(pre, Len(trace) - 1)
             len == Len(Last(history_assumptions))
             pushedA == PushTop(history_assumptions, A)
             pushedL == PushTop(history_assumptions_interp, L)
  <2>1. /\ trace # <<>> /\ ~ Pending /\ CanMint(InVars)
        /\ ret' = [sv |-> Last(trace), asmpt |-> all_assumptions(pushedA),
                   interp |-> all_assumptions(pushedL)]
        /\ history_assumptions' = ResizeTop(pushedA, len)
        /\ history_assumptions_interp' = ResizeTop(pushedL, len)
        /\ new_var(InVars)
        /\ Xvar' = Xvar \cup {free_make_symbol(v) : v \in InVars}
        /\ trace' = trace /\ history_choice' = history_choice
    BY <1>3 DEF get_curr_state_pushed
  <2>2. /\ n \in Nat \ {0} /\ Last(trace) \in Path
        /\ history_assumptions # <<>> /\ history_assumptions_interp # <<>>
        /\ Len(history_assumptions) = n /\ Len(history_assumptions_interp) = n
    BY <2>1, Shape
  <2>3. Complete(InVars, <<>>) \in [InVars -> Val \cup Sym]
    <3>1. InVars \in SUBSET Vars /\ Unassigned(InVars, <<>>) = InVars
      BY DEF Vars, Unassigned
    <3>2. <<>> \in Given(InVars)
      <4>1. <<>> \in [{} -> Val] /\ {} \in SUBSET InVars
        OBVIOUS
      <4> QED BY <4>1 DEF Given
    <3> QED BY <2>1, <3>1, <3>2, CompleteType DEF TypeOK
  <2>4. over \in Path
    BY <2>2, <2>3 DEF Path, Assignment
  <2>5. /\ name_cnt' \in [Vars -> 0 .. MaxCnt] /\ syms' \subseteq Sym
        /\ {free_make_symbol(v) : v \in InVars} \subseteq Sym
    <3>1. InVars \in SUBSET Vars
      BY DEF Vars
    <3> QED BY <2>1, <3>1, NewVarType DEF TypeOK
  <2>6. A \in Seq(Assumption) /\ L \in Seq(Label) /\ Named(L, A)
    <3>1. Len(trace) - 1 \in Int /\ pre \in Seq(Pre)
      BY <2>2, PreListType
    <3> HIDE DEF over
    <3> QED BY <2>4, <3>1, AddedType
  <2> HIDE DEF A, L
  <2>7. /\ history_assumptions \in Seq(Seq(Assumption))
        /\ history_assumptions_interp \in Seq(Seq(Label))
    BY DEF TypeOK
  <2>8. /\ pushedA \in Seq(Seq(Assumption)) /\ Len(pushedA) = n
        /\ \A k \in 1 .. n - 1 : pushedA[k] = history_assumptions[k]
        /\ pushedA[n] = history_assumptions[n] \o A
    <3>1. /\ history_assumptions \in Seq(Seq(Assumption)) /\ history_assumptions # <<>>
          /\ A \in Seq(Assumption)
      BY <2>2, <2>6, <2>7
    <3>2. Len(history_assumptions) = n
      BY <2>2
    <3> HIDE DEF n
    <3> QED BY ONLY <3>1, <3>2, PushTopType
  <2>9. /\ pushedL \in Seq(Seq(Label)) /\ Len(pushedL) = n
        /\ \A k \in 1 .. n - 1 : pushedL[k] = history_assumptions_interp[k]
        /\ pushedL[n] = history_assumptions_interp[n] \o L
    <3>1. /\ history_assumptions_interp \in Seq(Seq(Label)) /\ history_assumptions_interp # <<>>
          /\ L \in Seq(Label)
      BY <2>2, <2>6, <2>7
    <3>2. Len(history_assumptions_interp) = n
      BY <2>2
    <3> HIDE DEF n
    <3> QED BY ONLY <3>1, <3>2, PushTopType
  <2>10. \A k \in 1 .. n : k = n \/ k \in 1 .. n - 1
    BY <2>2
  <2>11. \A k \in 1 .. n :
           Named(history_assumptions_interp[k], history_assumptions[k])
    BY <2>2, NamedFrames
  <2>12. n \in 1 .. n
    BY <2>2
  <2>13. /\ history_assumptions[n] \in Seq(Assumption)
         /\ Last(history_assumptions) = history_assumptions[n]
         /\ history_assumptions_interp[n] \in Seq(Label)
         /\ Last(history_assumptions_interp) = history_assumptions_interp[n]
    BY <2>2, <2>7, LastType
  <2>14. Named(pushedL[n], pushedA[n])
    BY <2>6, <2>8, <2>9, <2>11, <2>12, <2>13, NamedConcat
  <2>15. UNCHANGED stacks
    <3>1. history_assumptions' = history_assumptions
      BY <2>1, <2>2, <2>6, <2>7, PushThenResize
    <3>2. len = Len(Last(history_assumptions_interp))
      BY <2>11, <2>12, <2>13 DEF Named
    <3>3. history_assumptions_interp' = history_assumptions_interp
      <4> HIDE DEF len
      <4> QED BY <2>1, <2>2, <2>6, <2>7, <3>2, PushThenResize
    <3> QED BY <2>1, <3>1, <3>3 DEF stacks
  <2> HIDE DEF pushedA, pushedL
  <2>16. \A k \in 1 .. n : Named(pushedL[k], pushedA[k])
    BY <2>8, <2>9, <2>10, <2>11, <2>14
  <2>17. /\ FlattenSeq(pushedL) \in Seq(Label)
         /\ FlattenSeq(pushedA) \in Seq(Assumption)
         /\ Named(FlattenSeq(pushedL), FlattenSeq(pushedA))
    <3> HIDE DEF n
    <3> QED BY ONLY <2>8, <2>9, <2>16, NamedFlatten
  <2>18. ret' \in StateAsmpt /\ RetNamed'
    BY <2>1, <2>2, <2>17 DEF StateAsmpt, RetNamed, all_assumptions
  <2>19. TypeOK'
    BY <2>1, <2>5, <2>15, <2>18 DEF TypeOK, stacks
  <2> QED BY <2>15, <2>18, <2>19, StacksUnchanged
<1> QED BY <1>1, <1>2, <1>3 DEF get_curr_state

\* set_current_state leaves one frame, the copied one, and no choice.
LEMMA RebaseKeeps ==
  ASSUME IInv, Rebase
  PROVE  IInv'
<1> USE DEF IInv
<1>1. /\ ret # NoState
      /\ trace' = <<ret.sv>> /\ history_choice' = <<>>
      /\ history_assumptions' = <<ret.asmpt>>
      /\ history_assumptions_interp' = <<ret.interp>>
      /\ ret' = ret /\ name_cnt' = name_cnt /\ Xvar' = Xvar /\ syms' = syms
  BY DEF Rebase, set_current_state, names
<1>2. /\ ret.sv \in Path /\ ret.asmpt \in Seq(Assumption)
      /\ ret.interp \in Seq(Label) /\ Named(ret.interp, ret.asmpt)
  BY <1>1 DEF TypeOK, StateAsmpt, RetNamed
<1>3. TypeOK'
  BY <1>1, <1>2 DEF TypeOK
<1>4. StacksAligned'
  BY <1>1 DEF StacksAligned, Pending
<1>5. Replay'
  BY <1>1 DEF Replay, FramesReplayChoices, AssumptionsReplayChoices
<1>6. LabelsNameAssumptions'
  BY <1>1, <1>2 DEF LabelsNameAssumptions, Named
<1>7. RetNamed'
  BY <1>1 DEF RetNamed
<1> QED BY <1>3, <1>4, <1>5, <1>6, <1>7

\* Symbols of others concern the solver only.
LEMMA ShareKeeps ==
  ASSUME IInv, Share
  PROVE  IInv'
<1> USE DEF IInv
<1>1. /\ UNCHANGED stacks /\ name_cnt' = name_cnt /\ Xvar' = Xvar /\ ret' = ret
      /\ syms' \subseteq Sym
  BY SymSimAssumption DEF Share, MakeSymbol, TypeOK
<1>2. TypeOK'
  BY <1>1 DEF TypeOK, stacks
<1> QED BY <1>1, <1>2, StacksUnchanged DEF RetNamed

\* Every step of a client keeps the invariant.
LEMMA NextKeeps == IInv /\ [Next]_vars => IInv'
<1> SUFFICES ASSUME IInv, [Next]_vars PROVE IInv'
  OBVIOUS
<1>1. CASE Start
  BY <1>1, StartKeeps
<1>2. CASE Choose
  BY <1>2, ChooseKeeps
<1>3. CASE Withdraw
  BY <1>3, WithdrawKeeps
<1>4. CASE Advance
  BY <1>4, AdvanceKeeps
<1>5. CASE Retreat
  BY <1>5, RetreatKeeps
<1>6. CASE Copy
  BY <1>6, CopyKeeps
<1>7. CASE Rebase
  BY <1>7, RebaseKeeps
<1>8. CASE Share
  BY <1>8, ShareKeeps
<1>9. CASE UNCHANGED vars
  <2>1. /\ UNCHANGED stacks /\ name_cnt' = name_cnt /\ Xvar' = Xvar
        /\ syms' = syms /\ ret' = ret
    BY <1>9 DEF vars, stacks
  <2>2. TypeOK'
    BY <2>1 DEF TypeOK, stacks, IInv
  <2> QED BY <2>1, <2>2, StacksUnchanged DEF IInv, RetNamed
<1> QED BY <1>1, <1>2, <1>3, <1>4, <1>5, <1>6, <1>7, <1>8, <1>9 DEF Next

-----------------------------------------------------------------------------
(***************************************************************************)
(* The theorems                                                            *)
(***************************************************************************)

\* The invariant is inductive, so it holds in every state of the simulator.
THEOREM Invariance == Spec => []IInv
BY InitIInv, NextKeeps, PTL DEF Spec

\* Every variable of the simulator always holds a value of its type.
THEOREM TypeCorrect == Spec => []TypeOK
<1>1. IInv => TypeOK
  BY DEF IInv
<1> QED BY <1>1, Invariance, PTL

\* However set_input, undo_set_input, sim_one_step, backtrack, get_curr_state
\* and set_current_state follow each other, the four stacks belong together.
THEOREM StacksStayAligned == Spec => []StacksAligned
<1>1. IInv => StacksAligned
  BY DEF IInv
<1> QED BY <1>1, Invariance, PTL

\* Each frame is the one below it with the inputs of the choice between them.
THEOREM FramesAlwaysReplayChoices == Spec => []FramesReplayChoices
<1>1. IInv => FramesReplayChoices
  BY DEF IInv, Replay
<1> QED BY <1>1, Invariance, PTL

\* The length a choice recorded separates what its set_input pushed from what
\* was there before, so that undo_set_input drops exactly the former.
THEOREM AssumptionsAlwaysReplayChoices == Spec => []AssumptionsReplayChoices
<1>1. IInv => AssumptionsReplayChoices
  BY DEF IInv, Replay
<1> QED BY <1>1, Invariance, PTL

\* The vector of names stays parallel to the vector of path constraints.
THEOREM LabelsAlwaysNameAssumptions == Spec => []LabelsNameAssumptions
<1>1. IInv => LabelsNameAssumptions
  BY DEF IInv
<1> QED BY <1>1, Invariance, PTL

\* Frames, path constraints and their names are those of the choices in force.
THEOREM ChoicesAlwaysReplay == Spec => []ChoicesReplay
<1>1. FramesReplayChoices /\ AssumptionsReplayChoices /\ LabelsNameAssumptions
        => ChoicesReplay
  BY DEF ChoicesReplay
<1> QED BY <1>1, FramesAlwaysReplayChoices, AssumptionsAlwaysReplayChoices,
           LabelsAlwaysNameAssumptions, PTL

-----------------------------------------------------------------------------
(***************************************************************************)
(* That unassigned inputs of different steps have different symbols, for   *)
(* all transition systems, values and bounds.                              *)
(*                                                                         *)
(* A new symbol is one the solver does not have, so it is enough that the  *)
(* solver has all symbols of the assignments in force, and of those that   *)
(* may come into force again: those of the state that was copied last.     *)
(* What a step back leaves, FramesReplayChoices says, was in force before. *)
(***************************************************************************)

\* The assignments of p have no symbol in common, those of inputs have symbols
\* of X only, and all of them symbols of S.
Apart(p, X, S) ==
  /\ \A i, j \in 1 .. Len(p) : i # j => SymsOf(p[i]) \cap SymsOf(p[j]) = {}
  /\ \A i \in 2 .. Len(p) : SymsOf(p[i]) \subseteq X
  /\ \A i \in 1 .. Len(p) : SymsOf(p[i]) \subseteq S

SymbolsApart ==
  /\ Apart(LivePath, Xvar, syms)
  /\ ret # NoState => Apart(ret.sv, Xvar, syms)

LEMMA ApartGrows ==
  ASSUME NEW p, NEW X, NEW S, Apart(p, X, S), NEW X2, NEW S2, X \subseteq X2, S \subseteq S2
  PROVE  Apart(p, X2, S2)
BY DEF Apart

\* An assignment of new symbols is apart from those before.
LEMMA ApartAppend ==
  ASSUME NEW p \in Path, NEW X, NEW S, Apart(p, X, S),
         NEW a, NEW new, SymsOf(a) \subseteq new, new \cap S = {}
  PROVE  Apart(Append(p, a), X \cup new, S \cup new)
<1> DEFINE q == Append(p, a)
<1>1. /\ Len(q) = Len(p) + 1 /\ q[Len(q)] = a /\ Len(p) \in Nat
      /\ \A i \in 1 .. Len(p) : q[i] = p[i]
  BY DEF Path
<1> HIDE DEF q
<1>2. \A i \in 1 .. Len(q) : i \in 1 .. Len(p) \/ (q[i] = a /\ i = Len(q))
  BY <1>1
<1>3. \A i \in 2 .. Len(q) : i \in 2 .. Len(p) \/ q[i] = a
  BY <1>1
<1>4. \A i \in 1 .. Len(p) : SymsOf(q[i]) \subseteq S
  BY <1>1 DEF Apart
<1>5. \A i, j \in 1 .. Len(q) : i # j => SymsOf(q[i]) \cap SymsOf(q[j]) = {}
  BY <1>1, <1>2, <1>4 DEF Apart
<1>6. \A i \in 2 .. Len(q) : SymsOf(q[i]) \subseteq X \cup new
  <2>1. \A i \in 2 .. Len(p) : q[i] = p[i]
    BY <1>1
  <2> QED BY <1>3, <2>1 DEF Apart
<1>7. \A i \in 1 .. Len(q) : SymsOf(q[i]) \subseteq S \cup new
  BY <1>2, <1>4
<1> QED BY <1>5, <1>6, <1>7 DEF Apart, q

LEMMA ApartPrefix ==
  ASSUME NEW p \in Path, NEW a, NEW X, NEW S, Apart(Append(p, a), X, S)
  PROVE  Apart(p, X, S)
<1> DEFINE q == Append(p, a)
<1>1. /\ Len(q) = Len(p) + 1 /\ Len(p) \in Nat
      /\ \A i \in 1 .. Len(p) : q[i] = p[i] /\ i \in 1 .. Len(q)
      /\ \A i \in 2 .. Len(p) : q[i] = p[i] /\ i \in 2 .. Len(q)
  BY DEF Path
<1>2. Apart(q, X, S)
  OBVIOUS
<1> HIDE DEF q
<1> QED BY <1>1, <1>2 DEF Apart

\* The symbols of a completed assignment are the ones made for it.
LEMMA CompleteSyms ==
  ASSUME NEW vs \in SUBSET Vars, NEW given \in Given(vs)
  PROVE  SymsOf(Complete(vs, given))
           \subseteq {free_make_symbol(v) : v \in Unassigned(vs, given)}
<1>1. \A v \in DOMAIN given : given[v] \in Val /\ given[v] \notin Sym
  BY SymSimAssumption DEF Given
<1>2. DOMAIN Complete(vs, given) = vs
  BY DEF Complete
<1>3. \A v \in vs : Complete(vs, given)[v] =
                      IF v \in DOMAIN given THEN given[v] ELSE free_make_symbol(v)
  BY DEF Complete
<1> HIDE DEF free_make_symbol
<1> QED BY <1>1, <1>2, <1>3 DEF SymsOf, Range, Unassigned
-----------------------------------------------------------------------------
\* The assignments in force, once there is a frame, and the type of the state
\* that was copied.
LEMMA LivePathIs ==
  ASSUME IInv, trace # <<>>
  PROVE  /\ Last(trace) \in Path /\ LivePath \in Path
         /\ ~Pending => LivePath = Last(trace)
         /\ Pending => LivePath = Append(Last(trace), Last(history_choice).var_assign)
<1>1. TypeOK /\ StacksAligned
  BY DEF IInv
<1>2. Last(trace) \in Path
  BY <1>1, Shape
<1>3. Pending => Last(history_choice).var_assign \in Assignment
  BY <1>1, Shape DEF ChoiceItem, Assignment
<1> QED BY <1>2, <1>3 DEF LivePath, Path

LEMMA LiveLast ==
  ASSUME IInv, trace # <<>>, SymbolsApart
  PROVE  Apart(Last(trace), Xvar, syms)
BY LivePathIs, ApartPrefix DEF SymbolsApart

\* A state that was copied earlier stays apart when symbols are made.
LEMMA RetKeeps ==
  ASSUME SymbolsApart, Xvar \subseteq Xvar', syms \subseteq syms', ret' = ret
  PROVE  ret' # NoState => Apart(ret.sv, Xvar', syms')
BY ApartGrows DEF SymbolsApart

LEMMA StartApart ==
  ASSUME IInv, SymbolsApart, Start
  PROVE  SymbolsApart'
<1>1. PICK given \in Given(StateVars) : trace = <<>> /\ init(given)
  BY DEF Start
<1> DEFINE missing == Unassigned(StateVars, given)
           root == Complete(StateVars, given)
           new == {free_make_symbol(v) : v \in missing}
<1>2. /\ trace' = Append(trace, <<root>>) /\ UNCHANGED <<history_choice, Xvar, ret>>
      /\ syms' = syms \cup new
  BY <1>1 DEF init, new_var
<1>3. SymsOf(root) \subseteq new
  BY CompleteSyms DEF Vars
<1> HIDE DEF root, new
<1>4. history_choice = <<>>
  BY <1>1 DEF IInv, StacksAligned
<1>5. LivePath' = <<root>>
  <2>1. trace' = <<<<root>>>> /\ ~Pending'
    BY <1>1, <1>2, <1>4 DEF Pending
  <2> QED BY <2>1 DEF LivePath, Last
<1>6. Apart(<<root>>, Xvar, syms')
  BY <1>2, <1>3 DEF Apart
<1>7. ret' # NoState => Apart(ret.sv, Xvar', syms')
  BY <1>2, RetKeeps
<1> QED BY <1>2, <1>5, <1>6, <1>7 DEF SymbolsApart

LEMMA ChooseApart ==
  ASSUME IInv, IInv', SymbolsApart, Choose
  PROVE  SymbolsApart'
<1>0. IInv'
  OBVIOUS
<1>1. PICK given \in Given(InVars), pre \in PreLists : set_input(given, pre)
  BY DEF Choose
<1> DEFINE missing == Unassigned(InVars, given)
           inputs == Complete(InVars, given)
           new == {free_make_symbol(v) : v \in missing}
           c == [assumptions |-> pre, var_assign |-> inputs, UsedInSim |-> FALSE,
                 assmpt_len |-> Len(Last(history_assumptions))]
<1>2. /\ trace # <<>> /\ ~Pending /\ CanMint(missing)
      /\ history_choice' = Append(history_choice, c)
      /\ Xvar' = Xvar \cup new /\ syms' = syms \cup new
      /\ trace' = trace /\ ret' = ret
  BY <1>1 DEF set_input, new_var
<1>3. SymsOf(inputs) \subseteq new
  BY CompleteSyms DEF Vars
<1>4. new \cap syms = {}
  <2>1. \A v \in missing : free_make_symbol(v) \notin syms
    BY <1>2, MintFresh DEF CanMint, IInv, TypeOK, Unassigned, Vars
  <2> HIDE DEF free_make_symbol
  <2> QED BY <2>1
<1> HIDE DEF new, inputs
<1>5. Last(history_choice') = c /\ history_choice' # <<>>
  <2>1. history_choice \in Seq(ChoiceItem) /\ history_choice' \in Seq(ChoiceItem)
    BY <1>0 DEF IInv, TypeOK
  <2>2. /\ Len(history_choice') = Len(history_choice) + 1
        /\ history_choice'[Len(history_choice) + 1] = c
    BY <1>2, <2>1
  <2> QED BY <2>1, <2>2 DEF Last
<1>6. LivePath' = Append(Last(trace), inputs)
  BY <1>2, <1>5 DEF LivePath, Pending
<1>7. Apart(Append(Last(trace), inputs), Xvar', syms')
  BY <1>2, <1>3, <1>4, LivePathIs, LiveLast, ApartAppend
<1>8. ret' # NoState => Apart(ret.sv, Xvar', syms')
  BY <1>2, RetKeeps
<1> QED BY <1>2, <1>6, <1>7, <1>8 DEF SymbolsApart

\* Steps without a new symbol after which the same assignments are in force, or
\* all but the last.
LEMMA SameApart ==
  ASSUME IInv, SymbolsApart, trace # <<>>, LivePath' \in {LivePath, Last(trace)},
         UNCHANGED <<Xvar, syms, ret>>
  PROVE  SymbolsApart'
BY LiveLast DEF SymbolsApart

LEMMA WithdrawApart ==
  ASSUME IInv, IInv', SymbolsApart, Withdraw
  PROVE  SymbolsApart'
<1>1. /\ Pending /\ history_choice' = Front(history_choice)
      /\ UNCHANGED <<trace, Xvar, syms, ret>>
  BY DEF Withdraw, undo_set_input, names
<1>2. history_choice # <<>> /\ trace # <<>>
  BY <1>1 DEF Pending, IInv, StacksAligned
<1>3. /\ Len(history_choice) = Len(trace) /\ Len(trace) \in Nat
      /\ Len(history_choice') = Len(history_choice) - 1
  BY <1>1, <1>2, Shape, FrontType DEF IInv, TypeOK
<1>4. ~Pending'
  BY <1>1, <1>2, <1>3 DEF IInv, StacksAligned
<1>5. LivePath' = Last(trace)
  BY <1>1, <1>2, <1>4 DEF LivePath
<1> QED BY <1>1, <1>2, <1>5, SameApart

LEMMA AdvanceApart ==
  ASSUME IInv, IInv', SymbolsApart, Advance
  PROVE  SymbolsApart'
<1> DEFINE f == Append(Last(trace), Last(history_choice).var_assign)
<1>1. /\ Pending /\ trace' = Append(trace, f) /\ UNCHANGED <<Xvar, syms, ret>>
      /\ history_choice' = [history_choice EXCEPT ![Len(history_choice)].UsedInSim = TRUE]
  BY DEF Advance, sim_one_step, names
<1>2. history_choice # <<>> /\ trace # <<>>
  BY <1>1 DEF Pending, IInv, StacksAligned
<1>3. /\ LivePath = f /\ f \in Path /\ trace \in Seq(Path)
      /\ Len(history_choice) = Len(trace) /\ Len(trace) \in Nat
  BY <1>1, <1>2, LivePathIs, Shape DEF IInv, TypeOK
<1> HIDE DEF f
<1>4. /\ Len(trace') = Len(trace) + 1 /\ trace' # <<>> /\ Last(trace') = f
      /\ Len(history_choice') = Len(history_choice)
  <2>1. Len(trace') = Len(trace) + 1 /\ trace' # <<>> /\ trace'[Len(trace) + 1] = f
    BY <1>1, <1>3, AppendType
  <2>2. Len(history_choice') = Len(history_choice)
    BY <1>1 DEF IInv, TypeOK
  <2> QED BY <2>1, <2>2 DEF Last
<1>5. ~Pending'
  BY <1>3, <1>4 DEF IInv, StacksAligned
<1>6. LivePath' = LivePath
  BY <1>3, <1>4, <1>5 DEF LivePath
<1> QED BY <1>1, <1>2, <1>6, SameApart

\* After a step back, the assignments of the frame that is left are pending.
LEMMA RetreatApart ==
  ASSUME IInv, IInv', SymbolsApart, Retreat
  PROVE  SymbolsApart'
<1> DEFINE n == Len(trace)
<1>1. /\ ~Pending /\ history_choice # <<>> /\ trace' = Front(trace)
      /\ history_choice' = [history_choice EXCEPT ![Len(history_choice)].UsedInSim = FALSE]
      /\ UNCHANGED <<Xvar, syms, ret>>
  BY DEF Retreat, backtrack, names
<1>2. trace # <<>>
  BY <1>1 DEF IInv, StacksAligned
<1>3. /\ n \in Nat \ {0} /\ Len(history_choice) = n - 1 /\ Last(trace) = trace[n]
      /\ LivePath = trace[n]
  BY <1>1, <1>2, Shape, LivePathIs DEF IInv
<1>4. n - 1 \in 1 .. n - 1
  BY <1>1, <1>3 DEF IInv, TypeOK
<1>5. /\ trace' \in Seq(Path) /\ Len(trace') = n - 1
      /\ trace'[n - 1] = trace[n - 1]
  BY <1>1, <1>2, <1>4, FrontType DEF IInv, TypeOK
<1>6. /\ Len(history_choice') = n - 1
      /\ history_choice'[n - 1].var_assign = history_choice[n - 1].var_assign
  BY <1>1, <1>3, <1>4 DEF IInv, TypeOK, ChoiceItem
<1>7. Pending' /\ trace' # <<>>
  BY <1>4, <1>5, <1>6 DEF IInv, StacksAligned
<1>8. LivePath' = Append(trace[n - 1], history_choice[n - 1].var_assign)
  BY <1>5, <1>6, <1>7 DEF LivePath, Last
<1>9. trace[n] = Append(trace[n - 1], history_choice[n - 1].var_assign)
  <2>1. trace[(n - 1) + 1] = Append(trace[n - 1], history_choice[n - 1].var_assign)
    BY <1>4 DEF IInv, Replay, FramesReplayChoices
  <2> QED BY <1>3, <2>1
<1> QED BY <1>1, <1>2, <1>3, <1>8, <1>9, SameApart

LEMMA CopyApart ==
  ASSUME IInv, SymbolsApart, Copy
  PROVE  SymbolsApart'
<1>1. PICK pre \in PreLists : get_curr_state(pre)
  BY DEF Copy
<1>2. trace # <<>> /\ ret'.sv = Last(trace) /\ UNCHANGED <<trace, history_choice>>
  BY <1>1 DEF get_curr_state, get_curr_state_pending, get_curr_state_pushed, stacks,
              Pending, IInv, StacksAligned
<1>3. Xvar \subseteq Xvar' /\ syms \subseteq syms'
  BY <1>1 DEF get_curr_state, get_curr_state_pending, get_curr_state_pushed, names, new_var
<1>4. LivePath' = LivePath
  BY <1>2 DEF LivePath, Pending
<1> QED BY <1>2, <1>3, <1>4, LiveLast, ApartGrows DEF SymbolsApart

LEMMA RebaseApart ==
  ASSUME SymbolsApart, Rebase
  PROVE  SymbolsApart'
<1>1. /\ ret # NoState /\ trace' = <<ret.sv>> /\ history_choice' = <<>>
      /\ UNCHANGED <<Xvar, syms, ret>>
  BY DEF Rebase, set_current_state, names
<1>2. LivePath' = ret.sv
  BY <1>1 DEF LivePath, Pending, Last
<1> QED BY <1>1, <1>2 DEF SymbolsApart

LEMMA ShareApart ==
  ASSUME SymbolsApart, Share
  PROVE  SymbolsApart'
<1>1. UNCHANGED <<trace, history_choice, Xvar, ret>> /\ syms \subseteq syms'
  BY DEF Share, MakeSymbol, stacks
<1>2. LivePath' = LivePath
  BY <1>1 DEF LivePath, Pending
<1> QED BY <1>1, <1>2, ApartGrows DEF SymbolsApart
-----------------------------------------------------------------------------
LEMMA InitApart == Init => SymbolsApart
BY DEF Init, SymbolsApart, LivePath, Apart

LEMMA NextApart == IInv /\ IInv' /\ SymbolsApart /\ [Next]_vars => SymbolsApart'
<1> SUFFICES ASSUME IInv, IInv', SymbolsApart, [Next]_vars PROVE SymbolsApart'
  OBVIOUS
<1>1. CASE UNCHANGED vars
  BY <1>1 DEF vars, SymbolsApart, LivePath, Pending
<1>2. CASE Next
  BY <1>2, StartApart, ChooseApart, WithdrawApart, AdvanceApart, RetreatApart, CopyApart,
     RebaseApart, ShareApart DEF Next
<1> QED BY <1>1, <1>2

\* Unassigned inputs of different steps never share a symbol, and the X set knows
\* the symbols of all of them.
THEOREM XSymbolsStayDistinct == Spec => []XSymbolsDistinct
<1>1. SymbolsApart => XSymbolsDistinct
  BY DEF SymbolsApart, Apart, XSymbolsDistinct
<1>2. Spec => []SymbolsApart
  BY Invariance, InitApart, NextApart, PTL DEF Spec
<1> QED BY <1>1, <1>2, PTL

-----------------------------------------------------------------------------
(***************************************************************************)
(* That the current frame always carries the path constraints it was       *)
(* reached with, for all transition systems, values and bounds.            *)
(*                                                                         *)
(* Each frame but the first adds one assignment to the frame below it, and *)
(* the constraints over it are what the choice between the two has pushed  *)
(* on the lower list (AssumptionsReplayChoices).  So it is enough that the *)
(* first frame is constrained by what no step back can drop (Bottom), and  *)
(* that a copied state is by its own list.                                 *)
(***************************************************************************)

InitOver(path) == [what |-> "init", over |-> SubSeq(path, 1, 1)]
TsOver(path, j) == [what |-> "ts", over |-> SubSeq(path, 1, j)]

Constrained(path, A) ==
  /\ path # <<>>
  /\ InitOver(path) \in A
  /\ HasConstraints => \A j \in 2 .. Len(path) : TsOver(path, j) \in A

\* The path constraints of the first frame that were there before any choice.
Bottom ==
  IF history_choice = <<>> THEN history_assumptions[1]
  ELSE SubSeq(history_assumptions[1], 1, history_choice[1].assmpt_len)

AllConstrained ==
  /\ trace # <<>> => Constrained(trace[1], ToSet(Bottom))
  /\ ret # NoState => Constrained(ret.sv, ToSet(ret.asmpt))

LEMMA ConstrainedGrows ==
  ASSUME NEW p, NEW A, NEW B, A \subseteq B, Constrained(p, A)
  PROVE  Constrained(p, B)
BY DEF Constrained

\* One more assignment, and the constraints over it.
LEMMA ConstrainedAppend ==
  ASSUME NEW p \in Path, NEW a \in Assignment, NEW A, Constrained(p, A),
         HasConstraints => [what |-> "ts", over |-> Append(p, a)] \in A
  PROVE  Constrained(Append(p, a), A)
<1> DEFINE q == Append(p, a)
<1>1. q \in Path /\ Len(q) = Len(p) + 1 /\ Len(p) \in Nat \ {0} /\ q # <<>>
  BY DEF Path, Constrained
<1>2. \A j \in 1 .. Len(p) : SubSeq(q, 1, j) = SubSeq(p, 1, j)
  <2> TAKE j \in 1 .. Len(p)
  <2>1. /\ SubSeq(q, 1, j) \in Path /\ SubSeq(p, 1, j) \in Path
        /\ Len(SubSeq(q, 1, j)) = j /\ Len(SubSeq(p, 1, j)) = j
        /\ \A i \in 1 .. j : SubSeq(q, 1, j)[i] = q[i] /\ SubSeq(p, 1, j)[i] = p[i]
    BY <1>1 DEF Path
  <2>2. \A i \in 1 .. j : q[i] = p[i]
    BY <1>1 DEF Path
  <2> QED BY <2>1, <2>2, SameSequence DEF Path
<1>3. SubSeq(q, 1, Len(q)) = q
  BY <1>1 DEF Path
<1> HIDE DEF q
<1>4. InitOver(q) \in A
  <2>1. 1 \in 1 .. Len(p)
    BY <1>1
  <2> QED BY <1>2, <2>1 DEF Constrained, InitOver
<1>5. ASSUME HasConstraints, NEW j \in 2 .. Len(q)
      PROVE  TsOver(q, j) \in A
  <2>1. CASE j = Len(q)
    BY <1>3, <1>5, <2>1 DEF TsOver, q
  <2>2. CASE j # Len(q)
    <3>1. j \in 2 .. Len(p) /\ j \in 1 .. Len(p)
      BY <1>1, <2>2
    <3> QED BY <1>2, <1>5, <3>1 DEF Constrained, TsOver
  <2> QED BY <2>1, <2>2
<1>6. Constrained(q, A)
  BY <1>1, <1>4, <1>5 DEF Constrained
<1> QED BY <1>6 DEF q

\* What set_input pushes has the constraints of the transition system.
LEMMA AddedConstraints ==
  ASSUME HasConstraints, NEW pre \in Seq(Pre), NEW over \in Path
  PROVE  [what |-> "ts", over |-> over] \in ToSet(AddedAssumptions(pre, over))
<1> DEFINE t == [what |-> "ts", over |-> over]
           l == [i \in 1 .. Len(pre) |-> [what |-> pre[i], over |-> over]]
<1>1. t \in Assumption /\ l \in Seq(Assumption)
  BY DEF Assumption
<1>2. AddedAssumptions(pre, over) = <<t>> \o l
  BY DEF AddedAssumptions
<1> HIDE DEF t, l
<1>3. <<t>> \in Seq(Assumption) /\ t \in ToSet(<<t>>)
  BY <1>1 DEF ToSet
<1>4. ToSet(<<t>> \o l) = ToSet(<<t>>) \cup ToSet(l)
  BY <1>1, <1>3, ConcatElements
<1> QED BY <1>2, <1>3, <1>4 DEF t

\* The elements of the beginning of a list.
LEMMA PrefixElements ==
  ASSUME NEW X, NEW s \in Seq(X), NEW n \in 0 .. Len(s)
  PROVE  ToSet(SubSeq(s, 1, n)) \subseteq ToSet(s)
<1>1. /\ Len(SubSeq(s, 1, n)) = n /\ DOMAIN SubSeq(s, 1, n) = 1 .. n
      /\ \A k \in 1 .. n : SubSeq(s, 1, n)[k] = s[k] /\ k \in DOMAIN s
  OBVIOUS
<1> QED BY <1>1 DEF ToSet
-----------------------------------------------------------------------------
\* The list of frame k is among all path constraints.
LEMMA ListsAreCollected ==
  ASSUME IInv, NEW k \in 1 .. Len(trace)
  PROVE  ToSet(history_assumptions[k]) \subseteq ToSet(all_assumptions(history_assumptions))
<1>1. history_assumptions \in Seq(Seq(Assumption)) /\ k \in 1 .. Len(history_assumptions)
  BY DEF IInv, TypeOK, StacksAligned
<1>2. ToSet(history_assumptions[k]) \subseteq ToSet(FlattenSeq(history_assumptions))
  BY ONLY <1>1, FlattenElements
<1> QED BY <1>2 DEF all_assumptions

\* Every frame is constrained, by the lists of the frames up to it.
LEMMA FramesConstrained ==
  ASSUME IInv, AllConstrained, trace # <<>>
  PROVE  Constrained(Last(trace), ToSet(all_assumptions(history_assumptions)))
<1> DEFINE n == Len(trace)
           A == ToSet(all_assumptions(history_assumptions))
           S == {k \in Nat : k + 1 \in 1 .. n => Constrained(trace[k + 1], A)}
<1>1. /\ n \in Nat \ {0} /\ Last(trace) = trace[n] /\ trace \in Seq(Path)
      /\ history_assumptions \in Seq(Seq(Assumption)) /\ Len(history_assumptions) = n
      /\ history_choice \in Seq(ChoiceItem)
      /\ Len(history_choice) \in {n, n - 1}
  BY Shape DEF IInv, TypeOK
<1> HIDE DEF n, A
<1>2. \A k \in 1 .. n : ToSet(history_assumptions[k]) \subseteq A
  BY ListsAreCollected DEF n, A
<1>3. 0 \in S
  <2>1. Constrained(trace[1], ToSet(Bottom))
    BY DEF AllConstrained
  <2>2. ToSet(Bottom) \subseteq ToSet(history_assumptions[1])
    <3>1. history_assumptions[1] \in Seq(Assumption)
      BY <1>1
    <3>2. CASE history_choice = <<>>
      BY <3>2 DEF Bottom
    <3>3. CASE history_choice # <<>>
      <4>1. 1 \in 1 .. Len(history_choice) /\ history_choice[1] \in ChoiceItem
        BY <1>1, <3>3
      <4>2. history_choice[1].assmpt_len \in 0 .. Len(history_assumptions[1])
        BY <3>1, <4>1 DEF IInv, Replay, AssumptionsReplayChoices, ChoiceItem
      <4> QED BY <3>1, <3>3, <4>2, PrefixElements DEF Bottom
    <3> QED BY <3>2, <3>3
  <2>3. 1 \in 1 .. n
    BY <1>1
  <2> QED BY <1>2, <2>1, <2>2, <2>3, ConstrainedGrows
<1>4. ASSUME NEW k \in Nat, k \in S
      PROVE  k + 1 \in S
  <2> SUFFICES ASSUME k + 2 \in 1 .. n PROVE Constrained(trace[k + 2], A)
    <3>1. (k + 1) + 1 = k + 2 /\ k + 1 \in Nat
      OBVIOUS
    <3> QED BY <3>1
  <2> DEFINE m == k + 1
             c == history_choice[m]
  <2>1. m \in 1 .. n /\ m \in 1 .. n - 1 /\ m \in 1 .. Len(history_choice) /\ m + 1 = k + 2
    BY <1>1
  <2>2. Constrained(trace[m], A)
    BY <1>4, <2>1
  <2> HIDE DEF m
  <2>3. c \in ChoiceItem /\ trace[m] \in Path
    BY <1>1, <2>1 DEF n
  <2>4. /\ c.var_assign \in Assignment /\ c.assumptions \in Seq(Pre)
        /\ c.assmpt_len \in Nat
    BY <2>3 DEF ChoiceItem, Assignment
  <2>5. trace[m + 1] = Append(trace[m], c.var_assign)
    BY <2>1 DEF IInv, Replay, FramesReplayChoices, n
  <2> DEFINE over == Append(trace[m], c.var_assign)
             added == AddedAssumptions(c.assumptions, over)
             below == SubSeq(history_assumptions[m], 1, c.assmpt_len)
  <2>6. history_assumptions[m] = below \o added /\ c.assmpt_len <= Len(history_assumptions[m])
    BY <2>1 DEF IInv, Replay, AssumptionsReplayChoices
  <2>7. over \in Path
    BY <2>3, <2>4 DEF Path
  <2> HIDE DEF over
  <2>8. added \in Seq(Assumption)
    BY <2>4, <2>7, AddedType
  <2>9. below \in Seq(Assumption)
    <3>1. history_assumptions[m] \in Seq(Assumption)
      BY <1>1, <2>1
    <3>2. c.assmpt_len \in 0 .. Len(history_assumptions[m])
      BY <2>4, <2>6, <3>1
    <3> HIDE DEF c
    <3> QED BY <3>1, <3>2, PrefixType
  <2>10. HasConstraints => [what |-> "ts", over |-> over] \in ToSet(added)
    BY <2>4, <2>7, AddedConstraints
  <2> HIDE DEF added, below
  <2>11. ToSet(added) \subseteq A
    <3>1. ToSet(below \o added) = ToSet(below) \cup ToSet(added)
      BY <2>8, <2>9, ConcatElements
    <3> QED BY <1>2, <2>1, <2>6, <3>1
  <2>12. Constrained(over, A)
    BY <2>2, <2>3, <2>4, <2>10, <2>11, ConstrainedAppend DEF over
  <2> QED BY <2>1, <2>5, <2>12 DEF over
<1>5. \A k \in Nat : k \in S
  <2> HIDE DEF S
  <2> QED BY <1>3, <1>4, SetInduction
<1>6. n - 1 \in Nat /\ (n - 1) + 1 = n /\ n \in 1 .. n
  BY <1>1
<1>7. n - 1 \in S
  <2> HIDE DEF S
  <2> QED BY <1>5, <1>6
<1> QED BY <1>1, <1>6, <1>7 DEF A
-----------------------------------------------------------------------------
LEMMA StartConstrains ==
  ASSUME IInv, AllConstrained, Start
  PROVE  AllConstrained'
<1>1. PICK given \in Given(StateVars) : trace = <<>> /\ init(given)
  BY DEF Start
<1> DEFINE root == Complete(StateVars, given)
           a == [what |-> "init", over |-> <<root>>]
<1>2. /\ trace' = Append(trace, <<root>>)
      /\ history_assumptions' = Append(history_assumptions, <<a>>)
      /\ history_choice' = history_choice /\ ret' = ret
  BY <1>1 DEF init
<1>3. history_choice = <<>> /\ history_assumptions = <<>>
  BY <1>1 DEF IInv, StacksAligned, TypeOK
<1> HIDE DEF root
<1>4. trace'[1] = <<root>> /\ Bottom' = <<a>>
  BY <1>1, <1>2, <1>3 DEF Bottom
<1>5. a \in ToSet(<<a>>) /\ SubSeq(<<root>>, 1, 1) = <<root>>
  <2>1. 1 \in DOMAIN <<a>> /\ <<a>>[1] = a
    OBVIOUS
  <2> DEFINE p == <<root>>
  <2>2. p \in Seq({root}) /\ Len(p) = 1 /\ 1 \in 0 .. Len(p)
    OBVIOUS
  <2> HIDE DEF p
  <2>3. SubSeq(p, 1, 1) = p
    BY <2>2, PrefixType, SameSequence
  <2> USE DEF p
  <2> QED BY <2>1, <2>3 DEF ToSet
<1>6. Constrained(<<root>>, ToSet(<<a>>))
  BY <1>5 DEF Constrained, InitOver
<1> QED BY <1>2, <1>4, <1>6 DEF AllConstrained

\* Steps after which the first frame has the same constraints at the bottom.
SameBottom ==
  /\ trace # <<>> /\ trace'[1] = trace[1]
  /\ Bottom' = Bottom /\ ret' = ret

LEMMA SameBottomConstrains ==
  ASSUME AllConstrained, SameBottom
  PROVE  AllConstrained'
BY DEF AllConstrained, SameBottom

LEMMA ChooseKeepsBottom ==
  ASSUME IInv, IInv', Choose
  PROVE  SameBottom
<1>1. PICK given \in Given(InVars), pre \in PreLists : set_input(given, pre)
  BY DEF Choose
<1> DEFINE n == Len(trace)
           added == AddedAssumptions(pre, Append(Last(trace), Complete(InVars, given)))
           c == [assumptions |-> pre, var_assign |-> Complete(InVars, given),
                 UsedInSim |-> FALSE, assmpt_len |-> Len(Last(history_assumptions))]
<1>2. /\ trace # <<>> /\ ~Pending /\ trace' = trace /\ ret' = ret
      /\ history_choice' = Append(history_choice, c)
      /\ history_assumptions' = PushTop(history_assumptions, added)
  BY <1>1 DEF set_input
<1> HIDE DEF added
<1>3. /\ n \in Nat \ {0} /\ Len(history_assumptions) = n /\ history_assumptions # <<>>
      /\ history_assumptions \in Seq(Seq(Assumption)) /\ Len(history_choice) = n - 1
      /\ history_choice \in Seq(ChoiceItem) /\ history_choice' \in Seq(ChoiceItem)
      /\ history_assumptions' \in Seq(Seq(Assumption))
  BY <1>2, Shape DEF IInv, TypeOK
<1>4. Last(history_assumptions) = history_assumptions[n]
  BY <1>3 DEF Last
<1>5. CASE n = 1
  <2>1. history_choice = <<>> /\ history_choice' # <<>> /\ history_choice'[1] = c
    <3>1. history_choice = <<>>
      BY <1>3, <1>5
    <3> HIDE DEF c
    <3> QED BY <1>2, <3>1
  <2>2. history_assumptions'[1] = history_assumptions[1] \o added
    BY <1>2, <1>3, <1>5 DEF PushTop
  <2>3. added \in Seq(Assumption)
    <3>1. Complete(InVars, given) \in Assignment /\ Last(trace) \in Path
      <4>1. CanMint(Unassigned(InVars, given))
        BY <1>1 DEF set_input
      <4>2. InVars \in SUBSET Vars
        BY DEF Vars
      <4> QED BY <1>2, <4>1, <4>2, CompleteType, Shape DEF IInv, TypeOK, Assignment
    <3>2. pre \in Seq(Pre)
      BY PreListType
    <3>3. Append(Last(trace), Complete(InVars, given)) \in Path
      BY <3>1 DEF Path
    <3> QED BY <3>2, <3>3, AddedType DEF added
  <2>4. history_assumptions[1] \in Seq(Assumption)
    BY <1>3, <1>5
  <2>5. SubSeq(history_assumptions'[1], 1, Len(history_assumptions[1])) = history_assumptions[1]
    BY <2>2, <2>3, <2>4, ConcatType
  <2>6. Bottom' = Bottom
    <3>1. c.assmpt_len = Len(history_assumptions[1])
      BY <1>4, <1>5
    <3> HIDE DEF c
    <3> QED BY <2>1, <2>5, <3>1 DEF Bottom
  <2> QED BY <1>2, <2>6 DEF SameBottom
<1>6. CASE n # 1
  <2>1. 1 \in 1 .. n - 1 /\ history_choice # <<>> /\ history_choice' # <<>>
    BY <1>2, <1>3, <1>6
  <2>2. history_choice'[1] = history_choice[1]
    BY <1>2, <1>3, <2>1
  <2>3. history_assumptions'[1] = history_assumptions[1]
    BY <1>2, <1>3, <1>6 DEF PushTop
  <2>4. Bottom' = Bottom
    BY <2>1, <2>2, <2>3 DEF Bottom
  <2> QED BY <1>2, <2>4 DEF SameBottom
<1> QED BY <1>5, <1>6

LEMMA WithdrawKeepsBottom ==
  ASSUME IInv, IInv', Withdraw
  PROVE  SameBottom
<1> DEFINE n == Len(trace)
           len == Last(history_choice).assmpt_len
<1>1. /\ Pending /\ trace' = trace /\ ret' = ret
      /\ history_choice' = Front(history_choice)
      /\ history_assumptions' = ResizeTop(history_assumptions, len)
  BY DEF Withdraw, undo_set_input
<1>2. history_choice # <<>> /\ trace # <<>>
  BY <1>1 DEF Pending, IInv, StacksAligned
<1>3. /\ n \in Nat \ {0} /\ Len(history_assumptions) = n /\ history_assumptions # <<>>
      /\ history_assumptions \in Seq(Seq(Assumption)) /\ Len(history_choice) = n
      /\ history_choice \in Seq(ChoiceItem) /\ history_choice' \in Seq(ChoiceItem)
      /\ Last(history_choice) = history_choice[n]
  BY <1>1, <1>2, Shape DEF IInv, TypeOK
<1>4. /\ Len(history_choice') = n - 1
      /\ \A k \in 1 .. n - 1 : history_choice'[k] = history_choice[k]
  BY <1>1, <1>2, <1>3, FrontType
<1>5. CASE n = 1
  <2>1. history_choice' = <<>>
    BY <1>3, <1>4, <1>5
  <2>2. history_assumptions'[1] = SubSeq(history_assumptions[1], 1, len)
    <3> HIDE DEF len
    <3>1. 1 \in DOMAIN history_assumptions /\ Len(history_assumptions) = 1
      BY <1>3, <1>5
    <3> QED BY <1>1, <3>1 DEF ResizeTop
  <2>3. Bottom' = Bottom
    BY <1>2, <1>3, <1>5, <2>1, <2>2 DEF Bottom
  <2> QED BY <1>1, <1>2, <2>3 DEF SameBottom
<1>6. CASE n # 1
  <2>1. history_choice' # <<>> /\ 1 \in 1 .. n - 1
    BY <1>3, <1>4, <1>6
  <2>2. history_assumptions'[1] = history_assumptions[1]
    BY <1>1, <1>3, <1>6 DEF ResizeTop
  <2>3. Bottom' = Bottom
    BY <1>2, <1>4, <2>1, <2>2 DEF Bottom
  <2> QED BY <1>1, <1>2, <2>3 DEF SameBottom
<1> QED BY <1>5, <1>6

LEMMA AdvanceKeepsBottom ==
  ASSUME IInv, IInv', Advance
  PROVE  SameBottom
<1> DEFINE f == Append(Last(trace), Last(history_choice).var_assign)
<1>1. /\ Pending /\ trace' = Append(trace, f) /\ ret' = ret
      /\ history_choice' = [history_choice EXCEPT ![Len(history_choice)].UsedInSim = TRUE]
      /\ history_assumptions' = Append(history_assumptions, <<>>)
  BY DEF Advance, sim_one_step
<1> HIDE DEF f
<1>2. history_choice # <<>> /\ trace # <<>>
  BY <1>1 DEF Pending, IInv, StacksAligned
<1>3. /\ Len(trace) \in Nat \ {0} /\ Len(history_assumptions) = Len(trace)
      /\ history_assumptions \in Seq(Seq(Assumption)) /\ trace \in Seq(Path)
      /\ history_choice \in Seq(ChoiceItem) /\ Len(history_choice) = Len(trace)
  BY <1>1, <1>2, Shape DEF IInv, TypeOK
<1>4. trace'[1] = trace[1] /\ history_assumptions'[1] = history_assumptions[1]
  BY <1>1, <1>3
<1>5. /\ history_choice' # <<>>
      /\ history_choice'[1].assmpt_len = history_choice[1].assmpt_len
  <2>1. 1 \in 1 .. Len(history_choice) /\ history_choice[1] \in ChoiceItem
    BY <1>1, <1>3
  <2>2. history_choice' # <<>> /\ 1 \in DOMAIN history_choice
    BY <1>1, <1>3, <2>1
  <2>3. CASE Len(history_choice) = 1
    BY <1>1, <2>1, <2>2, <2>3 DEF ChoiceItem
  <2>4. CASE Len(history_choice) # 1
    BY <1>1, <2>1, <2>2, <2>4
  <2> QED BY <2>2, <2>3, <2>4
<1>6. Bottom' = Bottom
  BY <1>2, <1>4, <1>5 DEF Bottom
<1> QED BY <1>1, <1>2, <1>4, <1>6 DEF SameBottom

LEMMA RetreatKeepsBottom ==
  ASSUME IInv, IInv', Retreat
  PROVE  SameBottom
<1> DEFINE n == Len(trace)
<1>1. /\ ~Pending /\ history_choice # <<>> /\ trace' = Front(trace) /\ ret' = ret
      /\ history_choice' = [history_choice EXCEPT ![Len(history_choice)].UsedInSim = FALSE]
      /\ history_assumptions' = Front(history_assumptions)
  BY DEF Retreat, backtrack
<1>2. trace # <<>>
  BY <1>1 DEF IInv, StacksAligned
<1>3. /\ n \in Nat \ {0} /\ Len(history_assumptions) = n /\ history_assumptions # <<>>
      /\ history_assumptions \in Seq(Seq(Assumption)) /\ trace \in Seq(Path)
      /\ history_choice \in Seq(ChoiceItem) /\ Len(history_choice) = n - 1
  BY <1>1, <1>2, Shape DEF IInv, TypeOK
<1>4. 1 \in 1 .. n - 1
  BY <1>1, <1>3
<1>5. trace'[1] = trace[1]
  BY <1>1, <1>2, <1>3, <1>4, FrontType
<1>6. history_assumptions'[1] = history_assumptions[1]
  BY <1>1, <1>3, <1>4, FrontType
<1>7. /\ history_choice' # <<>>
      /\ history_choice'[1].assmpt_len = history_choice[1].assmpt_len
  <2>1. 1 \in 1 .. Len(history_choice) /\ history_choice[1] \in ChoiceItem
    BY <1>1, <1>3, <1>4
  <2>2. history_choice' # <<>> /\ 1 \in DOMAIN history_choice
    BY <1>1, <1>3, <1>4, <2>1
  <2>3. CASE Len(history_choice) = 1
    BY <1>1, <2>1, <2>2, <2>3 DEF ChoiceItem
  <2>4. CASE Len(history_choice) # 1
    BY <1>1, <2>1, <2>2, <2>4
  <2> QED BY <2>2, <2>3, <2>4
<1>8. Bottom' = Bottom
  <2>1. history_choice # <<>>
    BY <1>1
  <2> QED BY <1>6, <1>7, <2>1 DEF Bottom
<1> QED BY <1>1, <1>2, <1>5, <1>8 DEF SameBottom

\* A copy leaves the stacks alone, and its lists begin with the current ones.
LEMMA CopyAdds ==
  ASSUME IInv, Copy
  PROVE  /\ trace # <<>> /\ UNCHANGED stacks
         /\ ret' \in StateAsmpt /\ ret'.sv = Last(trace)
         /\ \E A \in Seq(Assumption), L \in Seq(Label) :
              /\ ret'.asmpt = FlattenSeq(history_assumptions) \o A
              /\ ret'.interp = FlattenSeq(history_assumptions_interp) \o L
<1>1. PICK pre \in PreLists : get_curr_state(pre)
  BY DEF Copy
<1>2. /\ history_assumptions \in Seq(Seq(Assumption))
      /\ history_assumptions_interp \in Seq(Seq(Label))
  BY DEF IInv, TypeOK
<1>3. /\ FlattenSeq(history_assumptions) \in Seq(Assumption)
      /\ FlattenSeq(history_assumptions_interp) \in Seq(Label)
  BY ONLY <1>2, FlattenType
<1>4. CASE get_curr_state_pending
  <2>1. /\ Pending /\ UNCHANGED stacks
        /\ ret' = [sv |-> Last(trace), asmpt |-> FlattenSeq(history_assumptions),
                   interp |-> FlattenSeq(history_assumptions_interp)]
    BY <1>4 DEF get_curr_state_pending, all_assumptions
  <2>2. trace # <<>>
    BY <2>1 DEF Pending, IInv, StacksAligned
  <2>4. ret' \in StateAsmpt
    <3>1. Last(trace) \in Path
      BY <2>2, Shape DEF IInv
    <3> HIDE DEF FlattenSeq
    <3> QED BY <1>3, <2>1, <3>1 DEF StateAsmpt
  <2>3. /\ <<>> \in Seq(Assumption) /\ <<>> \in Seq(Label)
        /\ ret'.asmpt = FlattenSeq(history_assumptions) \o <<>>
        /\ ret'.interp = FlattenSeq(history_assumptions_interp) \o <<>>
    <3> HIDE DEF FlattenSeq
    <3> QED BY <1>3, <2>1
  <2> HIDE DEF FlattenSeq
  <2> QED BY <2>1, <2>2, <2>3, <2>4
<1>5. CASE get_curr_state_pushed(pre)
  <2> DEFINE n == Len(trace)
             over == Append(Last(trace), Complete(InVars, <<>>))
             A == AddedAssumptions(pre, over)
             L == AddedLabels(pre, Len(trace) - 1)
             len == Len(Last(history_assumptions))
             pushedA == PushTop(history_assumptions, A)
             pushedL == PushTop(history_assumptions_interp, L)
  <2>1. /\ trace # <<>> /\ ~ Pending /\ CanMint(InVars)
        /\ ret' = [sv |-> Last(trace), asmpt |-> FlattenSeq(pushedA),
                   interp |-> FlattenSeq(pushedL)]
        /\ history_assumptions' = ResizeTop(pushedA, len)
        /\ history_assumptions_interp' = ResizeTop(pushedL, len)
        /\ trace' = trace /\ history_choice' = history_choice
    BY <1>5 DEF get_curr_state_pushed, all_assumptions
  <2>2. /\ n \in Nat \ {0} /\ Last(trace) \in Path
        /\ history_assumptions # <<>> /\ history_assumptions_interp # <<>>
        /\ Len(history_assumptions) = n /\ Len(history_assumptions_interp) = n
    BY <2>1, Shape DEF IInv
  <2>3. over \in Path
    <3>1. InVars \in SUBSET Vars /\ Unassigned(InVars, <<>>) = InVars
      BY DEF Vars, Unassigned
    <3>2. <<>> \in Given(InVars)
      <4>1. <<>> \in [{} -> Val] /\ {} \in SUBSET InVars
        OBVIOUS
      <4> QED BY <4>1 DEF Given
    <3>3. Complete(InVars, <<>>) \in [InVars -> Val \cup Sym]
      BY <2>1, <3>1, <3>2, CompleteType DEF IInv, TypeOK
    <3> QED BY <2>2, <3>3 DEF Path, Assignment
  <2>4. A \in Seq(Assumption) /\ L \in Seq(Label)
    <3>1. Len(trace) - 1 \in Int /\ pre \in Seq(Pre)
      BY <2>2, PreListType
    <3> HIDE DEF over
    <3> QED BY <2>3, <3>1, AddedType
  <2> HIDE DEF A, L, n
  <2>5. /\ pushedA \in Seq(Seq(Assumption)) /\ Len(pushedA) = Len(history_assumptions)
        /\ \A k \in 1 .. Len(history_assumptions) - 1 : pushedA[k] = history_assumptions[k]
        /\ pushedA[Len(history_assumptions)] = history_assumptions[Len(history_assumptions)] \o A
    BY ONLY <1>2, <2>2, <2>4, PushTopType
  <2>6. /\ pushedL \in Seq(Seq(Label)) /\ Len(pushedL) = Len(history_assumptions_interp)
        /\ \A k \in 1 .. Len(history_assumptions_interp) - 1 :
             pushedL[k] = history_assumptions_interp[k]
        /\ pushedL[Len(history_assumptions_interp)] =
             history_assumptions_interp[Len(history_assumptions_interp)] \o L
    BY ONLY <1>2, <2>2, <2>4, PushTopType
  <2>7. UNCHANGED stacks
    <3>1. history_assumptions' = history_assumptions
      BY <1>2, <2>1, <2>2, <2>4, PushThenResize
    <3>2. len = Len(Last(history_assumptions_interp))
      <4>1. n \in 1 .. n
        BY <2>2
      <4>2. Named(history_assumptions_interp[n], history_assumptions[n])
        BY <2>2, <4>1, NamedFrames DEF IInv
      <4>3. /\ Last(history_assumptions) = history_assumptions[n]
            /\ Last(history_assumptions_interp) = history_assumptions_interp[n]
        BY <2>2 DEF Last
      <4> QED BY <4>2, <4>3 DEF Named
    <3>3. history_assumptions_interp' = history_assumptions_interp
      <4> HIDE DEF len
      <4> QED BY <1>2, <2>1, <2>2, <2>4, <3>2, PushThenResize
    <3> QED BY <2>1, <3>1, <3>3 DEF stacks
  <2> HIDE DEF pushedA, pushedL
  <2>8. FlattenSeq(pushedA) = FlattenSeq(history_assumptions) \o A
    BY ONLY <1>2, <2>2, <2>4, <2>5, FlattenExtended
  <2>9. FlattenSeq(pushedL) = FlattenSeq(history_assumptions_interp) \o L
    BY ONLY <1>2, <2>2, <2>4, <2>6, FlattenExtended
  <2>10. ret' \in StateAsmpt
    <3>1. FlattenSeq(pushedA) \in Seq(Assumption) /\ FlattenSeq(pushedL) \in Seq(Label)
      BY ONLY <2>5, <2>6, FlattenType
    <3> QED BY <2>1, <2>2, <3>1 DEF StateAsmpt
  <2> QED BY <2>1, <2>4, <2>7, <2>8, <2>9, <2>10
<1> QED BY <1>1, <1>4, <1>5 DEF get_curr_state

LEMMA CopyConstrains ==
  ASSUME IInv, AllConstrained, Copy
  PROVE  AllConstrained'
<1>1. /\ trace # <<>> /\ UNCHANGED stacks /\ ret'.sv = Last(trace)
      /\ \E A \in Seq(Assumption) : ret'.asmpt = FlattenSeq(history_assumptions) \o A
  BY CopyAdds
<1>2. PICK A \in Seq(Assumption) : ret'.asmpt = FlattenSeq(history_assumptions) \o A
  BY <1>1
<1>3. FlattenSeq(history_assumptions) \in Seq(Assumption)
  BY FlattenType DEF IInv, TypeOK
<1>4. ToSet(FlattenSeq(history_assumptions)) \subseteq ToSet(ret'.asmpt)
  <2>1. ToSet(FlattenSeq(history_assumptions) \o A)
          = ToSet(FlattenSeq(history_assumptions)) \cup ToSet(A)
    BY ONLY <1>3, A \in Seq(Assumption), ConcatElements
  <2> QED BY <1>2, <2>1
<1>5. Constrained(ret'.sv, ToSet(ret'.asmpt))
  BY <1>1, <1>4, FramesConstrained, ConstrainedGrows DEF all_assumptions
<1>6. trace' = trace /\ Bottom' = Bottom
  BY <1>1 DEF stacks, Bottom
<1> QED BY <1>5, <1>6 DEF AllConstrained

LEMMA RebaseConstrains ==
  ASSUME AllConstrained, Rebase
  PROVE  AllConstrained'
<1>1. /\ ret # NoState /\ ret' = ret /\ trace' = <<ret.sv>>
      /\ history_assumptions' = <<ret.asmpt>> /\ history_choice' = <<>>
  BY DEF Rebase, set_current_state
<1>2. trace'[1] = ret.sv /\ Bottom' = ret.asmpt
  BY <1>1 DEF Bottom
<1> QED BY <1>1, <1>2 DEF AllConstrained
-----------------------------------------------------------------------------
LEMMA InitConstrained == Init => AllConstrained
BY DEF Init, AllConstrained

LEMMA NextConstrained == IInv /\ IInv' /\ AllConstrained /\ [Next]_vars => AllConstrained'
<1> SUFFICES ASSUME IInv, IInv', AllConstrained, [Next]_vars PROVE AllConstrained'
  OBVIOUS
<1>1. CASE UNCHANGED vars
  BY <1>1 DEF vars, AllConstrained, Bottom
<1>2. CASE Share
  BY <1>2 DEF Share, MakeSymbol, stacks, AllConstrained, Bottom
<1>3. CASE Next
  BY <1>2, <1>3, StartConstrains, ChooseKeepsBottom, WithdrawKeepsBottom,
     AdvanceKeepsBottom, RetreatKeepsBottom, SameBottomConstrains, CopyConstrains,
     RebaseConstrains DEF Next
<1> QED BY <1>1, <1>3

\* The init constraint over the root and the constraints of the transition system
\* over every input since are among the path constraints of the current frame.
THEOREM PathStaysConstrained == Spec => []PathIsConstrained
<1>1. IInv /\ AllConstrained => PathIsConstrained
  <2> SUFFICES ASSUME IInv, AllConstrained, trace # <<>>
               PROVE  Constrained(Last(trace), ToSet(all_assumptions(history_assumptions)))
    BY DEF PathIsConstrained, Constrained, InitOver, TsOver
  <2> QED BY FramesConstrained
<1>2. Spec => []AllConstrained
  BY Invariance, InitConstrained, NextConstrained, PTL DEF Spec
<1> QED BY <1>1, <1>2, Invariance, PTL

-----------------------------------------------------------------------------
(***************************************************************************)
(* That the simulator implements the undo stack, for all transition        *)
(* systems, values and bounds: a new simulator is a new undo stack, and    *)
(* each action is one step of it or none.                                  *)
(*                                                                         *)
(* What an undo stack would have saved at a choice is computed from the    *)
(* frames up to that choice, so an action that leaves those frames alone   *)
(* leaves the copies alone (SavedKeeps); what is left to show is that the  *)
(* copy it saves or takes back is the current state.                       *)
(***************************************************************************)

\* The copies: of choice k before and after it was simulated.
Saved(i) == IF i % 2 = 1 THEN BeforeChoice((i + 1) \div 2) ELSE AfterChoice(i \div 2)
Copies == 2 * Len(history_choice) - (IF Pending THEN 1 ELSE 0)

LEMMA Halves ==
  ASSUME NEW m \in Nat
  PROVE  /\ (2 * m) % 2 = 0 /\ (2 * m) \div 2 = m
         /\ (2 * m + 1) % 2 = 1 /\ ((2 * m + 1) + 1) \div 2 = m + 1
         /\ \A i \in 1 .. 2 * m :
              /\ i % 2 = 1 => (i + 1) \div 2 \in 1 .. m
              /\ i % 2 # 1 => i \div 2 \in 1 .. m
<1>1. (2 * m) % 2 = 0 /\ (2 * m) \div 2 = m
  OBVIOUS
<1>2. (2 * m + 1) % 2 = 1 /\ ((2 * m + 1) + 1) \div 2 = m + 1
  OBVIOUS
<1>3. ASSUME NEW i \in 1 .. 2 * m
      PROVE  /\ i % 2 = 1 => (i + 1) \div 2 \in 1 .. m
             /\ i % 2 # 1 => i \div 2 \in 1 .. m
  OBVIOUS
<1> QED BY <1>1, <1>2, <1>3

\* Functions on 1 .. n are sequences: one more element, and one less.
LEMMA AppendFunction ==
  ASSUME NEW n \in Nat, NEW s, NEW t,
         s = [i \in 1 .. n |-> s[i]], t = [i \in 1 .. n + 1 |-> t[i]],
         \A i \in 1 .. n : t[i] = s[i]
  PROVE  t = Append(s, t[n + 1])
<1> DEFINE X == {s[i] : i \in 1 .. n} \cup {t[n + 1]}
           u == Append(s, t[n + 1])
<1>1. s \in Seq(X) /\ Len(s) = n
  OBVIOUS
<1>2. \A i \in 1 .. n + 1 : i \in 1 .. n \/ i = n + 1
  OBVIOUS
<1>3. \A i \in 1 .. n + 1 : t[i] \in X
  BY <1>2
<1>4. t \in Seq(X) /\ Len(t) = n + 1
  <2>1. t = [i \in 1 .. n + 1 |-> t[i]]
    OBVIOUS
  <2>2. n + 1 \in Nat
    OBVIOUS
  <2> HIDE DEF X
  <2> QED BY ONLY <1>3, <2>1, <2>2
<1>5. /\ u \in Seq(X) /\ Len(u) = n + 1 /\ u[n + 1] = t[n + 1]
      /\ \A i \in 1 .. n : u[i] = s[i]
  <2>1. t[n + 1] \in X
    OBVIOUS
  <2> HIDE DEF X
  <2> QED BY <1>1, <2>1
<1> HIDE DEF X, u
<1>6. \A i \in 1 .. Len(t) : t[i] = u[i]
  BY <1>2, <1>4, <1>5
<1>7. t = u
  BY <1>4, <1>5, <1>6, SameSequence
<1> QED BY <1>7 DEF u

LEMMA FrontFunction ==
  ASSUME NEW n \in Nat, NEW s, NEW t,
         s = [i \in 1 .. n + 1 |-> s[i]], t = [i \in 1 .. n |-> t[i]],
         \A i \in 1 .. n : t[i] = s[i]
  PROVE  s # <<>> /\ t = Front(s) /\ Last(s) = s[n + 1]
<1> DEFINE X == {s[i] : i \in 1 .. n + 1}
<1>1. /\ n + 1 \in Nat /\ s = [i \in 1 .. n + 1 |-> s[i]] /\ \A i \in 1 .. n + 1 : s[i] \in X
      /\ t = [i \in 1 .. n |-> t[i]] /\ \A i \in 1 .. n : t[i] \in X
  OBVIOUS
<1> HIDE DEF X
<1>2. t \in Seq(X) /\ Len(t) = n
  BY ONLY <1>1, n \in Nat
<1>3. s \in Seq(X) /\ Len(s) = n + 1
  BY ONLY <1>1
<1>4. s # <<>> /\ Last(s) = s[n + 1]
  BY <1>3 DEF Last
<1>5. /\ Front(s) \in Seq(X) /\ Len(Front(s)) = n
      /\ \A k \in 1 .. n : Front(s)[k] = s[k]
  <2>1. Len(s) - 1 = n
    BY <1>3
  <2> QED BY ONLY <1>3, <1>4, <2>1, FrontType
<1>6. t = Front(s)
  <2>1. \A k \in 1 .. Len(t) : t[k] = Front(s)[k]
    BY <1>2, <1>5
  <2> QED BY ONLY <1>2, <1>5, <2>1, SameSequence
<1> QED BY <1>4, <1>6

\* Sequences that agree as far as k have the same beginning.
LEMMA SamePrefix ==
  ASSUME NEW X, NEW s \in Seq(X), NEW t \in Seq(X), NEW k \in 0 .. Len(s), k <= Len(t),
         \A j \in 1 .. k : t[j] = s[j]
  PROVE  SubSeq(t, 1, k) = SubSeq(s, 1, k)
<1>1. k \in 0 .. Len(t)
  OBVIOUS
<1>2. /\ SubSeq(s, 1, k) \in Seq(X) /\ Len(SubSeq(s, 1, k)) = k
      /\ \A j \in 1 .. k : SubSeq(s, 1, k)[j] = s[j]
  BY PrefixType
<1>3. /\ SubSeq(t, 1, k) \in Seq(X) /\ Len(SubSeq(t, 1, k)) = k
      /\ \A j \in 1 .. k : SubSeq(t, 1, k)[j] = t[j]
  BY <1>1, PrefixType
<1> QED BY <1>2, <1>3, SameSequence

\* A part of a concatenation is a prefix of it.
LEMMA ConcatPrefix ==
  ASSUME NEW X, NEW s \in Seq(X), NEW t \in Seq(X)
  PROVE  IsPrefix(s, s \o t)
<1>1. SubSeq(s \o t, 1, Len(s)) = s /\ Len(s) <= Len(s \o t)
  BY ConcatType
<1>2. SubSeq(s, 1, Len(s)) = s
  OBVIOUS
<1> QED BY <1>1, <1>2 DEF IsPrefix
-----------------------------------------------------------------------------
LEMMA StateIsSome ==
  ASSUME NEW f \in Path, NEW a \in Seq(Seq(Assumption)), NEW l \in Seq(Seq(Label))
  PROVE  StateAt(f, a, l) # NoState
BY NoStateAssumption DEF StateAt

\* The current state of the undo stack, once there is one.
LEMMA CurrentIs ==
  /\ IInv /\ trace # <<>> =>
       /\ curBar = StateAt(Last(trace), history_assumptions, history_assumptions_interp)
       /\ curBar # NoState
  /\ IInv' /\ trace' # <<>> =>
       /\ curBar' = StateAt(Last(trace'), history_assumptions', history_assumptions_interp')
       /\ curBar' # NoState
<1>1. ASSUME IInv, trace # <<>>
      PROVE  /\ curBar = StateAt(Last(trace), history_assumptions, history_assumptions_interp)
             /\ curBar # NoState
  <2>1. trace \in Seq(Path)
    BY <1>1 DEF IInv, TypeOK
  <2>2. Last(trace) \in Path
    BY <1>1, <2>1, LastType
  <2> QED BY <1>1, <2>2, StateIsSome DEF curBar, IInv, TypeOK
<1>2. ASSUME IInv', trace' # <<>>
      PROVE  /\ curBar' = StateAt(Last(trace'), history_assumptions',
                                  history_assumptions_interp')
             /\ curBar' # NoState
  <2>1. trace' \in Seq(Path)
    BY <1>2 DEF IInv, TypeOK
  <2>2. Last(trace') \in Path
    BY <1>2, <2>1, LastType
  <2> QED BY <1>2, <2>2, StateIsSome DEF curBar, IInv, TypeOK
<1> QED BY <1>1, <1>2

\* The number of copies, now and after a step.
LEMMA CopiesType ==
  /\ IInv => /\ Copies \in Nat /\ savedBar = [i \in 1 .. Copies |-> Saved(i)]
             /\ Pending => Copies = 2 * Len(history_choice) - 1
             /\ ~Pending => Copies = 2 * Len(history_choice)
  /\ IInv' => /\ Copies' \in Nat /\ savedBar' = [i \in 1 .. Copies' |-> Saved(i)']
              /\ Pending' => Copies' = 2 * Len(history_choice') - 1
              /\ ~Pending' => Copies' = 2 * Len(history_choice')
<1>1. ASSUME IInv
      PROVE  /\ Copies \in Nat /\ savedBar = [i \in 1 .. Copies |-> Saved(i)]
             /\ Pending => Copies = 2 * Len(history_choice) - 1
             /\ ~Pending => Copies = 2 * Len(history_choice)
  <2>1. Len(history_choice) \in Nat /\ (Len(history_choice) = 0 => history_choice = <<>>)
    BY <1>1 DEF IInv, TypeOK
  <2>2. CASE Pending
    <3>1. Len(history_choice) # 0 /\ Copies = 2 * Len(history_choice) - 1
      BY <2>1, <2>2 DEF Pending, Copies
    <3> QED BY <2>1, <2>2, <3>1 DEF savedBar, Saved, Copies
  <2>3. CASE ~Pending
    <3>1. Copies = 2 * Len(history_choice)
      BY <2>1, <2>3 DEF Copies
    <3> QED BY <2>1, <2>3, <3>1 DEF savedBar, Saved, Copies
  <2> QED BY <2>2, <2>3
<1>2. ASSUME IInv'
      PROVE  /\ Copies' \in Nat /\ savedBar' = [i \in 1 .. Copies' |-> Saved(i)']
             /\ Pending' => Copies' = 2 * Len(history_choice') - 1
             /\ ~Pending' => Copies' = 2 * Len(history_choice')
  <2>1. Len(history_choice') \in Nat /\ (Len(history_choice') = 0 => history_choice' = <<>>)
    BY <1>2 DEF IInv, TypeOK
  <2>2. CASE Pending'
    <3>1. Len(history_choice') # 0 /\ Copies' = 2 * Len(history_choice') - 1
      BY <2>1, <2>2 DEF Pending, Copies
    <3> QED BY <2>1, <2>2, <3>1 DEF savedBar, Saved, Copies
  <2>3. CASE ~Pending'
    <3>1. Copies' = 2 * Len(history_choice')
      BY <2>1, <2>3 DEF Copies
    <3> QED BY <2>1, <2>3, <3>1 DEF savedBar, Saved, Copies
  <2> QED BY <2>2, <2>3
<1> QED BY <1>1, <1>2

\* The copies of the first m choices depend on the first m frames only.
SameBelow(m) ==
  /\ m \in Nat
  /\ m <= Len(history_assumptions) /\ m <= Len(history_assumptions')
  /\ m <= Len(history_assumptions_interp) /\ m <= Len(history_assumptions_interp')
  /\ \A k \in 1 .. m :
       /\ trace'[k] = trace[k]
       /\ history_assumptions'[k] = history_assumptions[k]
       /\ history_assumptions_interp'[k] = history_assumptions_interp[k]
       /\ history_choice'[k].assmpt_len = history_choice[k].assmpt_len

LEMMA SavedKeeps ==
  ASSUME IInv, IInv', NEW m, SameBelow(m)
  PROVE  \A i \in 1 .. 2 * m : Saved(i)' = Saved(i)
<1>1. /\ history_assumptions \in Seq(Seq(Assumption))
      /\ history_assumptions' \in Seq(Seq(Assumption))
      /\ history_assumptions_interp \in Seq(Seq(Label))
      /\ history_assumptions_interp' \in Seq(Seq(Label))
  BY DEF IInv, TypeOK
<1>2. m \in Nat
  BY DEF SameBelow
<1>3. ASSUME NEW k \in 0 .. m
      PROVE  /\ SubSeq(history_assumptions', 1, k) = SubSeq(history_assumptions, 1, k)
             /\ SubSeq(history_assumptions_interp', 1, k)
                  = SubSeq(history_assumptions_interp, 1, k)
  <2>1. /\ k \in 0 .. Len(history_assumptions) /\ k <= Len(history_assumptions')
        /\ k \in 0 .. Len(history_assumptions_interp)
        /\ k <= Len(history_assumptions_interp')
    BY <1>1, <1>2 DEF SameBelow
  <2>2. /\ \A j \in 1 .. k : history_assumptions'[j] = history_assumptions[j]
        /\ \A j \in 1 .. k : history_assumptions_interp'[j] = history_assumptions_interp[j]
    BY <1>2 DEF SameBelow
  <2>3. SubSeq(history_assumptions', 1, k) = SubSeq(history_assumptions, 1, k)
    BY <1>1, <2>1, <2>2, SamePrefix
  <2>4. SubSeq(history_assumptions_interp', 1, k) = SubSeq(history_assumptions_interp, 1, k)
    BY <1>1, <2>1, <2>2, SamePrefix
  <2> QED BY <2>3, <2>4
<1>4. ASSUME NEW k \in 1 .. m
      PROVE  BeforeChoice(k)' = BeforeChoice(k) /\ AfterChoice(k)' = AfterChoice(k)
  <2>1. k \in 0 .. m /\ k - 1 \in 0 .. m
    BY <1>2
  <2>2. /\ trace'[k] = trace[k]
        /\ history_assumptions'[k] = history_assumptions[k]
        /\ history_assumptions_interp'[k] = history_assumptions_interp[k]
        /\ history_choice'[k].assmpt_len = history_choice[k].assmpt_len
    BY DEF SameBelow
  <2>3. BeforeChoice(k)' = BeforeChoice(k)
    BY <1>3, <2>1, <2>2 DEF BeforeChoice, Cut
  <2>4. AfterChoice(k)' = AfterChoice(k)
    BY <1>3, <2>1, <2>2 DEF AfterChoice
  <2> QED BY <2>3, <2>4
<1>5. TAKE i \in 1 .. 2 * m
<1>6. /\ i % 2 = 1 => (i + 1) \div 2 \in 1 .. m
      /\ i % 2 # 1 => i \div 2 \in 1 .. m
  BY <1>2, Halves
<1>7. CASE i % 2 = 1
  <2>1. PICK k \in 1 .. m : k = (i + 1) \div 2
    BY <1>6, <1>7
  <2> QED BY <1>4, <1>7, <2>1 DEF Saved
<1>8. CASE i % 2 # 1
  <2>1. PICK k \in 1 .. m : k = i \div 2
    BY <1>6, <1>8
  <2> QED BY <1>4, <1>8, <2>1 DEF Saved
<1> QED BY <1>7, <1>8
-----------------------------------------------------------------------------
\* The copies after a step that leaves the frames up to choice m alone.
LEMMA SavesOne ==
  ASSUME IInv, IInv', NEW m, SameBelow(m), NEW p \in Nat, p <= 2 * m,
         Copies = p, Copies' = p + 1, Saved(p + 1)' = curBar
  PROVE  savedBar' = Append(savedBar, curBar)
<1>1. savedBar = [i \in 1 .. p |-> Saved(i)] /\ savedBar' = [i \in 1 .. p + 1 |-> Saved(i)']
  BY CopiesType
<1>2. m \in Nat /\ \A i \in 1 .. 2 * m : Saved(i)' = Saved(i)
  BY SavedKeeps DEF SameBelow
<1>3. \A i \in 1 .. p : i \in 1 .. 2 * m
  BY <1>2
<1>4. \A i \in 1 .. p : savedBar'[i] = savedBar[i]
  <2> TAKE i \in 1 .. p
  <2>1. i \in 1 .. p + 1
    OBVIOUS
  <2> QED BY <1>1, <1>2, <1>3, <2>1
<1>5. savedBar'[p + 1] = curBar
  <2>1. p + 1 \in 1 .. p + 1
    OBVIOUS
  <2> QED BY <1>1, <2>1
<1>6. /\ savedBar = [i \in 1 .. p |-> savedBar[i]]
      /\ savedBar' = [i \in 1 .. p + 1 |-> savedBar'[i]]
  BY <1>1
<1>7. savedBar' = Append(savedBar, savedBar'[p + 1])
  BY ONLY p \in Nat, <1>4, <1>6, AppendFunction
<1> QED BY <1>5, <1>7

LEMMA DropsOne ==
  ASSUME IInv, IInv', NEW m, SameBelow(m), NEW p \in Nat, p <= 2 * m,
         Copies = p + 1, Copies' = p
  PROVE  savedBar # <<>> /\ savedBar' = Front(savedBar) /\ Last(savedBar) = Saved(p + 1)
<1>1. savedBar = [i \in 1 .. p + 1 |-> Saved(i)] /\ savedBar' = [i \in 1 .. p |-> Saved(i)']
  BY CopiesType
<1>2. m \in Nat /\ \A i \in 1 .. 2 * m : Saved(i)' = Saved(i)
  BY SavedKeeps DEF SameBelow
<1>3. \A i \in 1 .. p : i \in 1 .. 2 * m
  BY <1>2
<1>4. \A i \in 1 .. p : savedBar'[i] = savedBar[i]
  <2> TAKE i \in 1 .. p
  <2>1. i \in 1 .. p + 1
    OBVIOUS
  <2> QED BY <1>1, <1>2, <1>3, <2>1
<1>5. /\ savedBar = [i \in 1 .. p + 1 |-> savedBar[i]]
      /\ savedBar' = [i \in 1 .. p |-> savedBar'[i]]
  BY <1>1
<1>6. /\ savedBar # <<>> /\ savedBar' = Front(savedBar)
      /\ Last(savedBar) = savedBar[p + 1]
  BY ONLY p \in Nat, <1>4, <1>5, FrontFunction
<1>7. p + 1 \in 1 .. p + 1
  OBVIOUS
<1> QED BY <1>1, <1>6, <1>7

\* A stack of lists, its top cut, and its top extended.
LEMMA TopCut ==
  ASSUME NEW X, NEW lists \in Seq(Seq(X)), lists # <<>>,
         NEW len \in 0 .. Len(lists[Len(lists)])
  PROVE  ResizeTop(lists, len) = Cut(lists, Len(lists), len)
<1> DEFINE n == Len(lists)
           l == ResizeTop(lists, len)
           below == SubSeq(lists, 1, n - 1)
           top == SubSeq(lists[n], 1, len)
<1>1. n \in Nat \ {0} /\ n - 1 \in 0 .. n /\ lists[n] \in Seq(X)
  OBVIOUS
<1>2. /\ l \in Seq(Seq(X)) /\ Len(l) = n
      /\ \A k \in 1 .. n - 1 : l[k] = lists[k]
      /\ l[n] = top
  BY ResizeTopType
<1>3. below \in Seq(Seq(X)) /\ Len(below) = n - 1 /\ \A k \in 1 .. n - 1 : below[k] = lists[k]
  BY <1>1, PrefixType
<1>4. top \in Seq(X)
  BY <1>1, PrefixType
<1> DEFINE r == Append(below, top)
<1> HIDE DEF n, l, below, top
<1>5. /\ r \in Seq(Seq(X)) /\ Len(r) = n /\ r[n] = top
      /\ \A k \in 1 .. n - 1 : r[k] = below[k]
  BY <1>1, <1>3, <1>4
<1> HIDE DEF r
<1>6. \A k \in 1 .. Len(l) : l[k] = r[k]
  <2> TAKE k \in 1 .. Len(l)
  <2>1. k = n \/ k \in 1 .. n - 1
    BY <1>1, <1>2
  <2> QED BY <1>2, <1>3, <1>5, <2>1
<1>7. l = r
  BY ONLY <1>2, <1>5, <1>6, SameSequence
<1> QED BY <1>7 DEF Cut, l, r, below, top, n

LEMMA TopExtended ==
  ASSUME NEW X, NEW lists \in Seq(Seq(X)), lists # <<>>, NEW items \in Seq(X)
  PROVE  /\ Cut(PushTop(lists, items), Len(lists), Len(Last(lists))) = lists
         /\ Front(PushTop(lists, items)) = Front(lists)
         /\ IsPrefix(Last(lists), Last(PushTop(lists, items)))
<1> DEFINE n == Len(lists)
           l == PushTop(lists, items)
<1>1. n \in Nat \ {0} /\ Last(lists) = lists[n] /\ lists[n] \in Seq(X)
  BY LastType
<1>2. /\ l \in Seq(Seq(X)) /\ Len(l) = n
      /\ \A k \in 1 .. n - 1 : l[k] = lists[k]
      /\ l[n] = lists[n] \o items
  BY PushTopType
<1> HIDE DEF l
<1>3. l # <<>> /\ Last(l) = l[n]
  BY <1>1, <1>2 DEF Last
<1>4. Cut(l, n, Len(Last(lists))) = lists
  <2>1. Len(lists[n]) \in 0 .. Len(l[n])
    BY <1>1, <1>2
  <2>2. ResizeTop(l, Len(Last(lists))) = Cut(l, n, Len(Last(lists)))
    <3> HIDE DEF n
    <3> QED BY <1>1, <1>2, <1>3, <2>1, TopCut
  <2>3. ResizeTop(l, Len(Last(lists))) = lists
    BY PushThenResize DEF l
  <2> QED BY <2>2, <2>3
<1>5. Front(l) = Front(lists)
  <2>1. /\ Front(l) \in Seq(Seq(X)) /\ Len(Front(l)) = n - 1
        /\ \A k \in 1 .. n - 1 : Front(l)[k] = l[k]
    BY <1>2, <1>3, FrontType
  <2>2. /\ Front(lists) \in Seq(Seq(X)) /\ Len(Front(lists)) = n - 1
        /\ \A k \in 1 .. n - 1 : Front(lists)[k] = lists[k]
    BY FrontType
  <2>3. \A k \in 1 .. Len(Front(l)) : Front(l)[k] = Front(lists)[k]
    BY <1>2, <2>1, <2>2
  <2> QED BY ONLY <2>1, <2>2, <2>3, SameSequence
<1>6. IsPrefix(Last(lists), Last(l))
  BY <1>1, <1>2, <1>3, ConcatPrefix
<1> QED BY <1>4, <1>5, <1>6 DEF l
-----------------------------------------------------------------------------
\* The undo stack's operators on sequences are those used here.
LEMMA SameOperators ==
  /\ \A l : Undoable!Front(l) = Front(l) /\ Undoable!Last(l) = Last(l)
  /\ \A l, m : Undoable!IsPrefix(l, m) <=> IsPrefix(l, m)
  /\ \A l : Undoable!FlattenSeq(l) = FlattenSeq(l)
<1>1. \A l : Undoable!Front(l) = Front(l) /\ Undoable!Last(l) = Last(l)
  BY DEF Undoable!Front, Front, Undoable!Last, Last
<1>2. \A l, m : Undoable!IsPrefix(l, m) <=> IsPrefix(l, m)
  BY DEF Undoable!IsPrefix, IsPrefix
<1>3. \A l : Undoable!FlattenSeq(l) = FlattenSeq(l)
  BY DEF Undoable!FlattenSeq, FlattenSeq
<1> QED BY <1>1, <1>2, <1>3

\* init is the first state of the undo stack.
LEMMA StartSimulates ==
  ASSUME IInv, IInv', Start
  PROVE  Undoable!Start
<1>1. PICK given \in Given(StateVars) : trace = <<>> /\ init(given)
  BY DEF Start
<1> DEFINE root == Complete(StateVars, given)
           a == [what |-> "init", over |-> <<root>>]
           l == [what |-> "init", at |-> 0]
<1>2. /\ trace' = Append(trace, <<root>>)
      /\ history_assumptions' = Append(history_assumptions, <<a>>)
      /\ history_assumptions_interp' = Append(history_assumptions_interp, <<l>>)
      /\ history_choice' = history_choice /\ ret' = ret
  BY <1>1 DEF init
<1>3. /\ history_choice = <<>> /\ history_assumptions = <<>>
      /\ history_assumptions_interp = <<>>
  BY <1>1 DEF IInv, StacksAligned, TypeOK
<1> HIDE DEF root, l
<1>4. /\ trace' = <<<<root>>>> /\ history_assumptions' = <<<<a>>>>
      /\ history_assumptions_interp' = <<<<l>>>>
  <2> HIDE DEF a
  <2> QED BY <1>1, <1>2, <1>3
<1> HIDE DEF a
<1>5. curBar = NoState
  BY <1>1 DEF curBar
<1>6. /\ curBar' = StateAt(Last(trace'), history_assumptions', history_assumptions_interp')
      /\ curBar' # NoState
  <2>1. trace' # <<>>
    BY <1>4
  <2> QED BY <2>1, CurrentIs
<1>7. Last(trace') = <<root>>
  BY <1>4 DEF Last
<1>8. /\ Len(curBar'.frame) = 1 /\ Len(curBar'.asmpt) = 1 /\ Len(curBar'.interp) = 1
  BY <1>4, <1>6, <1>7 DEF StateAt
<1>9. savedBar = <<>> /\ savedBar' = <<>>
  <2>1. ~ Pending /\ ~ Pending' /\ Len(history_choice) = 0 /\ Len(history_choice') = 0
    BY <1>2, <1>3 DEF Pending
  <2>2. Copies = 0 /\ Copies' = 0
    BY <2>1, CopiesType
  <2>3. savedBar = [i \in 1 .. 0 |-> Saved(i)] /\ savedBar' = [i \in 1 .. 0 |-> Saved(i)']
    BY <2>2, CopiesType
  <2> QED BY <2>3
<1> QED BY <1>2, <1>5, <1>6, <1>8, <1>9 DEF Undoable!Start
\* set_input saves the current state and constrains its top frame.
LEMMA ChooseSimulates ==
  ASSUME IInv, IInv', Choose
  PROVE  Undoable!Constrain
<1>1. PICK given \in Given(InVars), pre \in PreLists : set_input(given, pre)
  BY DEF Choose
<1> DEFINE over == Append(Last(trace), Complete(InVars, given))
           A == AddedAssumptions(pre, over)
           L == AddedLabels(pre, Len(trace) - 1)
           c == [assumptions |-> pre, var_assign |-> Complete(InVars, given),
                 UsedInSim |-> FALSE, assmpt_len |-> Len(Last(history_assumptions))]
<1>2. /\ trace # <<>> /\ ~ Pending /\ trace' = trace /\ ret' = ret
      /\ history_choice' = Append(history_choice, c)
      /\ history_assumptions' = PushTop(history_assumptions, A)
      /\ history_assumptions_interp' = PushTop(history_assumptions_interp, L)
  BY <1>1 DEF set_input
<1>3. A \in Seq(Assumption) /\ L \in Seq(Label)
  <2>1. CanMint(Unassigned(InVars, given)) /\ InVars \in SUBSET Vars
    BY <1>1 DEF set_input, Vars
  <2>2. Complete(InVars, given) \in Assignment
    BY <2>1, CompleteType DEF IInv, TypeOK, Assignment
  <2>3. Last(trace) \in Path /\ Len(trace) - 1 \in Int
    BY <1>2, Shape DEF IInv
  <2>4. over \in Path /\ pre \in Seq(Pre)
    BY <2>2, <2>3, PreListType DEF Path
  <2> HIDE DEF over
  <2> QED BY <2>3, <2>4, AddedType
<1>4. c.UsedInSim = FALSE /\ c.assmpt_len = Len(Last(history_assumptions))
  OBVIOUS
<1> HIDE DEF A, L, c
<1>5. PICK n \in Nat \ {0} : n = Len(trace)
  BY <1>2, Shape DEF IInv
<1>6. /\ Last(trace) = trace[n] /\ Len(history_choice) = n - 1
      /\ history_choice \in Seq(ChoiceItem)
      /\ history_assumptions # <<>> /\ Len(history_assumptions) = n
      /\ history_assumptions_interp # <<>> /\ Len(history_assumptions_interp) = n
      /\ history_assumptions \in Seq(Seq(Assumption))
      /\ history_assumptions_interp \in Seq(Seq(Label))
  BY <1>2, <1>5, Shape DEF IInv, TypeOK
<1>7. /\ Len(history_choice') = n /\ history_choice'[n] = c
      /\ \A k \in 1 .. n - 1 : history_choice'[k] = history_choice[k]
      /\ history_choice' # <<>> /\ Last(history_choice') = c
  <2>1. history_choice \in Seq(ChoiceItem \cup {c}) /\ c \in ChoiceItem \cup {c}
    BY <1>6
  <2>2. /\ history_choice' # <<>> /\ Len(history_choice') = Len(history_choice) + 1
        /\ \A k \in 1 .. Len(history_choice) : history_choice'[k] = history_choice[k]
        /\ history_choice'[Len(history_choice) + 1] = c
    BY <1>2, <2>1, AppendType
  <2> QED BY <1>6, <2>2 DEF Last
<1>8. /\ Len(history_assumptions') = n /\ Len(history_assumptions_interp') = n
      /\ \A k \in 1 .. n - 1 : history_assumptions'[k] = history_assumptions[k]
      /\ \A k \in 1 .. n - 1 : history_assumptions_interp'[k] = history_assumptions_interp[k]
  <2>1. /\ Len(history_assumptions') = n
        /\ \A k \in 1 .. Len(history_assumptions) - 1 :
             history_assumptions'[k] = history_assumptions[k]
    <3>1. /\ PushTop(history_assumptions, A) \in Seq(Seq(Assumption))
          /\ Len(PushTop(history_assumptions, A)) = Len(history_assumptions)
          /\ \A k \in 1 .. Len(history_assumptions) - 1 :
               PushTop(history_assumptions, A)[k] = history_assumptions[k]
          /\ PushTop(history_assumptions, A)[Len(history_assumptions)]
               = history_assumptions[Len(history_assumptions)] \o A
      BY ONLY <1>3, <1>6, PushTopType
    <3> QED BY <1>2, <1>6, <3>1
  <2>2. /\ Len(history_assumptions_interp') = n
        /\ \A k \in 1 .. Len(history_assumptions_interp) - 1 :
             history_assumptions_interp'[k] = history_assumptions_interp[k]
    <3>1. /\ PushTop(history_assumptions_interp, L) \in Seq(Seq(Label))
          /\ Len(PushTop(history_assumptions_interp, L)) = Len(history_assumptions_interp)
          /\ \A k \in 1 .. Len(history_assumptions_interp) - 1 :
               PushTop(history_assumptions_interp, L)[k] = history_assumptions_interp[k]
          /\ PushTop(history_assumptions_interp, L)[Len(history_assumptions_interp)]
               = history_assumptions_interp[Len(history_assumptions_interp)] \o L
      BY ONLY <1>3, <1>6, PushTopType
    <3> QED BY <1>2, <1>6, <3>1
  <2> QED BY <1>6, <2>1, <2>2
<1>9. /\ Cut(history_assumptions', n, Len(Last(history_assumptions))) = history_assumptions
      /\ Front(history_assumptions') = Front(history_assumptions)
      /\ IsPrefix(Last(history_assumptions), Last(history_assumptions'))
  BY <1>2, <1>3, <1>6, TopExtended
<1>10. /\ Cut(history_assumptions_interp', n, Len(Last(history_assumptions_interp)))
            = history_assumptions_interp
       /\ IsPrefix(Last(history_assumptions_interp), Last(history_assumptions_interp'))
  BY <1>2, <1>3, <1>6, TopExtended
<1>11. Len(Last(history_assumptions)) = Len(Last(history_assumptions_interp))
  <2>1. n \in 1 .. n
    BY <1>5
  <2>2. Len(history_assumptions_interp[n]) = Len(history_assumptions[n])
    BY <1>5, <2>1 DEF IInv, LabelsNameAssumptions
  <2> QED BY <1>6, <2>2 DEF Last
<1>12. /\ curBar = StateAt(trace[n], history_assumptions, history_assumptions_interp)
       /\ curBar' = StateAt(trace[n], history_assumptions', history_assumptions_interp')
       /\ curBar # NoState
  <2>1. trace' # <<>> /\ Last(trace') = trace[n]
    BY <1>2, <1>6
  <2> QED BY <1>2, <1>6, <2>1, CurrentIs
<1>13. BeforeChoice(n)' = curBar
  <2>1. history_choice'[n].assmpt_len = Len(Last(history_assumptions)) /\ trace'[n] = trace[n]
    BY <1>2, <1>4, <1>7
  <2> QED BY <1>9, <1>10, <1>11, <1>12, <2>1 DEF BeforeChoice
<1>14. savedBar' = Append(savedBar, curBar)
  <2>1. SameBelow(n - 1)
    <3>1. n - 1 \in Nat /\ n - 1 <= n
      BY <1>5
    <3> QED BY <1>2, <1>6, <1>7, <1>8, <3>1 DEF SameBelow
  <2> DEFINE p == 2 * (n - 1)
  <2>2. p \in Nat /\ p <= 2 * (n - 1)
    BY <1>5
  <2>3. Copies = p
    BY <1>2, <1>6, CopiesType
  <2>4. Copies' = p + 1
    <3>1. Pending'
      BY <1>4, <1>7 DEF Pending
    <3>2. Copies' = 2 * Len(history_choice') - 1
      BY <3>1, CopiesType
    <3> QED BY <1>5, <1>7, <3>2
  <2>5. Saved(p + 1)' = curBar
    <3>1. (p + 1) % 2 = 1 /\ ((p + 1) + 1) \div 2 = n
      BY <1>5, Halves
    <3> HIDE DEF p
    <3> QED BY <1>13, <3>1 DEF Saved
  <2> HIDE DEF p
  <2> QED BY <1>5, <2>1, <2>2, <2>3, <2>4, <2>5, SavesOne
<1>15. /\ curBar'.frame = curBar.frame
       /\ Len(curBar'.asmpt) = Len(curBar.asmpt)
       /\ Front(curBar'.asmpt) = Front(curBar.asmpt)
       /\ IsPrefix(Last(curBar.asmpt), Last(curBar'.asmpt))
       /\ IsPrefix(Last(curBar.interp), Last(curBar'.interp))
  BY <1>6, <1>8, <1>9, <1>10, <1>12 DEF StateAt
<1> QED BY <1>2, <1>12, <1>14, <1>15, SameOperators DEF Undoable!Constrain
\* undo_set_input gives back the state in which the choice was made.
LEMMA WithdrawSimulates ==
  ASSUME IInv, IInv', Withdraw
  PROVE  Undoable!Undo
<1>1. /\ Pending /\ trace' = trace /\ ret' = ret
      /\ history_choice' = Front(history_choice)
      /\ history_assumptions' =
           ResizeTop(history_assumptions, Last(history_choice).assmpt_len)
      /\ history_assumptions_interp' =
           ResizeTop(history_assumptions_interp, Last(history_choice).assmpt_len)
  BY DEF Withdraw, undo_set_input
<1>2. history_choice # <<>> /\ trace # <<>>
  BY <1>1 DEF Pending, IInv, StacksAligned
<1>3. PICK n \in Nat \ {0} : n = Len(trace)
  BY <1>2, Shape DEF IInv
<1>4. /\ Last(trace) = trace[n] /\ Len(history_choice) = n
      /\ Last(history_choice) = history_choice[n] /\ history_choice[n] \in ChoiceItem
      /\ history_choice \in Seq(ChoiceItem) /\ history_choice' \in Seq(ChoiceItem)
      /\ history_assumptions # <<>> /\ Len(history_assumptions) = n
      /\ history_assumptions_interp # <<>> /\ Len(history_assumptions_interp) = n
      /\ history_assumptions \in Seq(Seq(Assumption))
      /\ history_assumptions_interp \in Seq(Seq(Label))
  BY <1>1, <1>2, <1>3, Shape DEF IInv, TypeOK
<1>5. PICK len \in Nat : len = history_choice[n].assmpt_len
  BY <1>4 DEF ChoiceItem
<1>6. len \in 0 .. Len(history_assumptions[n]) /\ len \in 0 .. Len(history_assumptions_interp[n])
  <2>1. n \in 1 .. n /\ history_assumptions[n] \in Seq(Assumption)
    BY <1>3, <1>4
  <2>2. len <= Len(history_assumptions[n])
    BY <1>4, <1>5, <2>1 DEF IInv, Replay, AssumptionsReplayChoices
  <2>3. Len(history_assumptions_interp[n]) = Len(history_assumptions[n])
    BY <1>3, <2>1 DEF IInv, LabelsNameAssumptions
  <2> QED BY <2>1, <2>2, <2>3
<1>7. /\ history_assumptions' = Cut(history_assumptions, n, len)
      /\ Len(history_assumptions') = n
      /\ \A k \in 1 .. n - 1 : history_assumptions'[k] = history_assumptions[k]
  <2>1. history_assumptions' = ResizeTop(history_assumptions, len)
    BY <1>1, <1>4, <1>5
  <2>2. ResizeTop(history_assumptions, len) = Cut(history_assumptions, n, len)
    BY <1>4, <1>6, TopCut
  <2>3. len \in 0 .. Len(history_assumptions[Len(history_assumptions)])
    BY <1>4, <1>6
  <2> DEFINE l == ResizeTop(history_assumptions, len)
  <2>4. /\ l \in Seq(Seq(Assumption)) /\ Len(l) = Len(history_assumptions)
        /\ \A k \in 1 .. Len(history_assumptions) - 1 : l[k] = history_assumptions[k]
        /\ l[Len(history_assumptions)]
             = SubSeq(history_assumptions[Len(history_assumptions)], 1, len)
    BY ONLY <1>4, <2>3, ResizeTopType
  <2> QED BY <1>4, <2>1, <2>2, <2>4
<1>8. /\ history_assumptions_interp' = Cut(history_assumptions_interp, n, len)
      /\ Len(history_assumptions_interp') = n
      /\ \A k \in 1 .. n - 1 : history_assumptions_interp'[k] = history_assumptions_interp[k]
  <2>1. history_assumptions_interp' = ResizeTop(history_assumptions_interp, len)
    BY <1>1, <1>4, <1>5
  <2>2. ResizeTop(history_assumptions_interp, len) = Cut(history_assumptions_interp, n, len)
    BY <1>4, <1>6, TopCut
  <2>3. len \in 0 .. Len(history_assumptions_interp[Len(history_assumptions_interp)])
    BY <1>4, <1>6
  <2> DEFINE l == ResizeTop(history_assumptions_interp, len)
  <2>4. /\ l \in Seq(Seq(Label)) /\ Len(l) = Len(history_assumptions_interp)
        /\ \A k \in 1 .. Len(history_assumptions_interp) - 1 : l[k] = history_assumptions_interp[k]
        /\ l[Len(history_assumptions_interp)]
             = SubSeq(history_assumptions_interp[Len(history_assumptions_interp)], 1, len)
    BY ONLY <1>4, <2>3, ResizeTopType
  <2> QED BY <1>4, <2>1, <2>2, <2>4
<1>9. /\ Len(history_choice') = n - 1
      /\ \A k \in 1 .. n - 1 : history_choice'[k] = history_choice[k]
  BY <1>1, <1>2, <1>4, FrontType
<1>10. curBar' = BeforeChoice(n)
  <2>1. trace' # <<>> /\ Last(trace') = trace[n]
    BY <1>1, <1>2, <1>4
  <2> QED BY <1>5, <1>7, <1>8, <2>1, CurrentIs DEF BeforeChoice
<1>11. ~ Pending'
  <2>1. CASE history_choice' = <<>>
    BY <2>1 DEF Pending
  <2>2. CASE history_choice' # <<>>
    <3>1. Last(history_choice') = history_choice[n - 1] /\ n - 1 \in 1 .. n - 1
      BY <1>3, <1>4, <1>9, <2>2 DEF Last
    <3>2. history_choice[n - 1].UsedInSim
      BY <1>4, <3>1 DEF IInv, StacksAligned
    <3> QED BY <3>1, <3>2 DEF Pending
  <2> QED BY <2>1, <2>2
<1>12. savedBar # <<>> /\ savedBar' = Front(savedBar) /\ Last(savedBar) = BeforeChoice(n)
  <2>1. SameBelow(n - 1)
    <3>1. n - 1 \in Nat /\ n - 1 <= n
      BY <1>3
    <3> QED BY <1>1, <1>4, <1>7, <1>8, <1>9, <3>1 DEF SameBelow
  <2> DEFINE p == 2 * (n - 1)
  <2>2. p \in Nat /\ p <= 2 * (n - 1)
    BY <1>3
  <2>3. Copies = p + 1
    <3>1. Copies = 2 * Len(history_choice) - 1
      BY <1>1, CopiesType
    <3> QED BY <1>3, <1>4, <3>1
  <2>4. Copies' = p
    BY <1>9, <1>11, CopiesType
  <2>5. Saved(p + 1) = BeforeChoice(n)
    <3>1. (p + 1) % 2 = 1 /\ ((p + 1) + 1) \div 2 = n
      BY <1>3, Halves
    <3> HIDE DEF p
    <3> QED BY <3>1 DEF Saved
  <2> HIDE DEF p
  <2>6. savedBar # <<>> /\ savedBar' = Front(savedBar) /\ Last(savedBar) = Saved(p + 1)
    BY <1>3, <2>1, <2>2, <2>3, <2>4, DropsOne
  <2> QED BY <2>5, <2>6
<1> QED BY <1>1, <1>10, <1>12, SameOperators DEF Undoable!Undo

\* sim_one_step saves the current state and adds a frame.
LEMMA AdvanceSimulates ==
  ASSUME IInv, IInv', Advance
  PROVE  Undoable!Extend
<1> DEFINE c == Last(history_choice)
           f == Append(Last(trace), c.var_assign)
<1>1. /\ Pending /\ trace' = Append(trace, f) /\ ret' = ret
      /\ history_choice' = [history_choice EXCEPT ![Len(history_choice)].UsedInSim = TRUE]
      /\ history_assumptions' = Append(history_assumptions, <<>>)
      /\ history_assumptions_interp' = Append(history_assumptions_interp, <<>>)
  BY DEF Advance, sim_one_step
<1>2. history_choice # <<>> /\ trace # <<>>
  BY <1>1 DEF Pending, IInv, StacksAligned
<1>3. PICK n \in Nat \ {0} : n = Len(trace)
  BY <1>2, Shape DEF IInv
<1>4. /\ Last(trace) = trace[n] /\ Last(trace) \in Path /\ trace \in Seq(Path)
      /\ Len(history_choice) = n /\ c = history_choice[n] /\ c \in ChoiceItem
      /\ history_choice \in Seq(ChoiceItem) /\ history_choice' \in Seq(ChoiceItem)
      /\ Len(history_assumptions) = n /\ Len(history_assumptions_interp) = n
      /\ history_assumptions \in Seq(Seq(Assumption))
      /\ history_assumptions_interp \in Seq(Seq(Label))
  BY <1>1, <1>2, <1>3, Shape DEF IInv, TypeOK
<1>5. f \in Path /\ Len(f) = Len(Last(trace)) + 1 /\ IsPrefix(Last(trace), f)
  <2>1. c.var_assign \in Assignment
    BY <1>4 DEF ChoiceItem, Assignment
  <2>2. Last(trace) \in Seq(Assignment) /\ <<c.var_assign>> \in Seq(Assignment)
    BY <1>4, <2>1 DEF Path
  <2>3. f = Last(trace) \o <<c.var_assign>>
    BY <2>1, <2>2
  <2>4. IsPrefix(Last(trace), Last(trace) \o <<c.var_assign>>)
    BY <2>2, ConcatPrefix
  <2>5. f \in Path /\ Len(f) = Len(Last(trace)) + 1
    BY <2>1, <2>2 DEF Path
  <2> QED BY <2>3, <2>4, <2>5
<1> HIDE DEF f
<1>6. /\ trace' # <<>> /\ Last(trace') = f /\ \A k \in 1 .. n : trace'[k] = trace[k]
  BY <1>1, <1>3, <1>4, <1>5 DEF Last
<1>7. /\ Len(history_assumptions') = n + 1 /\ Len(history_assumptions_interp') = n + 1
      /\ \A k \in 1 .. n : /\ history_assumptions'[k] = history_assumptions[k]
                           /\ history_assumptions_interp'[k] = history_assumptions_interp[k]
  BY <1>1, <1>4
<1>8. /\ Len(history_choice') = n /\ history_choice'[n].UsedInSim = TRUE
      /\ \A k \in 1 .. n : history_choice'[k].assmpt_len = history_choice[k].assmpt_len
  <2>1. /\ Len(history_choice') = n /\ n \in DOMAIN history_choice
        /\ history_choice' = [history_choice EXCEPT ![n].UsedInSim = TRUE]
    BY <1>1, <1>3, <1>4
  <2>2. history_choice'[n] = [history_choice[n] EXCEPT !.UsedInSim = TRUE]
    BY <1>4, <2>1
  <2>3. /\ history_choice'[n].UsedInSim = TRUE
        /\ history_choice'[n].assmpt_len = history_choice[n].assmpt_len
    BY <1>4, <2>2 DEF ChoiceItem
  <2>4. \A k \in 1 .. n : k # n => history_choice'[k] = history_choice[k]
    BY <1>4, <2>1
  <2> QED BY <2>1, <2>3, <2>4
<1>9. ~ Pending'
  BY <1>3, <1>4, <1>8 DEF Pending, Last
<1>10. /\ curBar = StateAt(trace[n], history_assumptions, history_assumptions_interp)
       /\ curBar' = StateAt(f, history_assumptions', history_assumptions_interp')
       /\ curBar # NoState
  BY <1>2, <1>4, <1>6, CurrentIs
<1>11. AfterChoice(n) = curBar
  <2>1. /\ SubSeq(history_assumptions, 1, n) = history_assumptions
        /\ SubSeq(history_assumptions_interp, 1, n) = history_assumptions_interp
    BY <1>4
  <2> QED BY <1>10, <2>1 DEF AfterChoice
<1>12. savedBar' = Append(savedBar, curBar)
  <2>1. SameBelow(n)
    BY <1>3, <1>4, <1>6, <1>7, <1>8 DEF SameBelow
  <2> DEFINE p == 2 * n - 1
  <2>2. p \in Nat /\ p <= 2 * n /\ p + 1 = 2 * n
    BY <1>3
  <2>3. Copies = p
    BY <1>1, <1>4, CopiesType
  <2>4. Copies' = p + 1
    BY <1>8, <1>9, <2>2, CopiesType
  <2>5. Saved(p + 1)' = curBar
    <3>1. Saved(2 * n) = AfterChoice(n)
      <4>1. (2 * n) % 2 = 0 /\ (2 * n) \div 2 = n
        BY <1>3, Halves
      <4> QED BY <4>1 DEF Saved
    <3>2. \A i \in 1 .. 2 * n : Saved(i)' = Saved(i)
      BY <2>1, SavedKeeps
    <3>3. 2 * n \in 1 .. 2 * n
      BY <1>3
    <3> HIDE DEF p
    <3> QED BY <1>11, <2>2, <3>1, <3>2, <3>3
  <2> HIDE DEF p
  <2> QED BY <1>3, <2>1, <2>2, <2>3, <2>4, <2>5, SavesOne
<1>13. /\ Len(curBar'.frame) = Len(curBar.frame) + 1
       /\ IsPrefix(curBar.frame, curBar'.frame)
       /\ curBar'.asmpt = Append(curBar.asmpt, <<>>)
       /\ curBar'.interp = Append(curBar.interp, <<>>)
  BY <1>1, <1>4, <1>5, <1>10 DEF StateAt
<1> QED BY <1>1, <1>10, <1>12, <1>13, SameOperators DEF Undoable!Extend
\* backtrack gives back the state the choice was simulated in.
LEMMA RetreatSimulates ==
  ASSUME IInv, IInv', Retreat
  PROVE  Undoable!Undo
<1>1. /\ ~ Pending /\ history_choice # <<>> /\ trace' = Front(trace) /\ ret' = ret
      /\ history_choice' = [history_choice EXCEPT ![Len(history_choice)].UsedInSim = FALSE]
      /\ history_assumptions' = Front(history_assumptions)
      /\ history_assumptions_interp' = Front(history_assumptions_interp)
  BY DEF Retreat, backtrack
<1>2. trace # <<>>
  BY <1>1 DEF IInv, StacksAligned
<1>3. PICK n \in Nat \ {0} : n = Len(history_choice)
  <2>1. Len(history_choice) \in Nat \ {0}
    BY <1>1, LastType DEF IInv, TypeOK
  <2> QED BY <2>1
<1>4. /\ Len(trace) = n + 1 /\ trace \in Seq(Path)
      /\ history_choice[n] \in ChoiceItem
      /\ history_choice \in Seq(ChoiceItem) /\ history_choice' \in Seq(ChoiceItem)
      /\ history_assumptions # <<>> /\ Len(history_assumptions) = n + 1
      /\ history_assumptions_interp # <<>> /\ Len(history_assumptions_interp) = n + 1
      /\ history_assumptions \in Seq(Seq(Assumption))
      /\ history_assumptions_interp \in Seq(Seq(Label))
  BY <1>1, <1>2, <1>3, Shape DEF IInv, TypeOK
<1>5. /\ Len(trace') = n /\ \A k \in 1 .. n : trace'[k] = trace[k]
      /\ trace' # <<>> /\ Last(trace') = trace[n]
  <2>1. Len(trace') = Len(trace) - 1 /\ \A k \in 1 .. Len(trace) - 1 : trace'[k] = trace[k]
    BY <1>1, <1>2, <1>4, FrontType
  <2>2. Len(trace') = n /\ \A k \in 1 .. n : trace'[k] = trace[k]
    BY <1>3, <1>4, <2>1
  <2> QED BY <1>3, <2>2 DEF Last
<1>6. /\ history_assumptions' = SubSeq(history_assumptions, 1, n)
      /\ Len(history_assumptions') = n
      /\ \A k \in 1 .. n : history_assumptions'[k] = history_assumptions[k]
  <2>1. history_assumptions' = SubSeq(history_assumptions, 1, n)
    BY <1>1, <1>3, <1>4 DEF Front
  <2>2. n \in 0 .. Len(history_assumptions)
    BY <1>3, <1>4
  <2> QED BY <1>4, <2>1, <2>2, PrefixType
<1>7. /\ history_assumptions_interp' = SubSeq(history_assumptions_interp, 1, n)
      /\ Len(history_assumptions_interp') = n
      /\ \A k \in 1 .. n : history_assumptions_interp'[k] = history_assumptions_interp[k]
  <2>1. history_assumptions_interp' = SubSeq(history_assumptions_interp, 1, n)
    BY <1>1, <1>3, <1>4 DEF Front
  <2>2. n \in 0 .. Len(history_assumptions_interp)
    BY <1>3, <1>4
  <2> QED BY <1>4, <2>1, <2>2, PrefixType
<1>8. /\ Len(history_choice') = n /\ history_choice'[n].UsedInSim = FALSE
      /\ \A k \in 1 .. n : history_choice'[k].assmpt_len = history_choice[k].assmpt_len
  <2>1. /\ Len(history_choice') = n /\ n \in DOMAIN history_choice
        /\ history_choice' = [history_choice EXCEPT ![n].UsedInSim = FALSE]
    BY <1>1, <1>3, <1>4
  <2>2. history_choice'[n] = [history_choice[n] EXCEPT !.UsedInSim = FALSE]
    BY <1>4, <2>1
  <2>3. /\ history_choice'[n].UsedInSim = FALSE
        /\ history_choice'[n].assmpt_len = history_choice[n].assmpt_len
    BY <1>4, <2>2 DEF ChoiceItem
  <2>4. \A k \in 1 .. n : k # n => history_choice'[k] = history_choice[k]
    BY <1>4, <2>1
  <2> QED BY <2>1, <2>3, <2>4
<1>9. Pending'
  BY <1>3, <1>4, <1>8 DEF Pending, Last
<1>10. curBar' = AfterChoice(n)
  BY <1>5, <1>6, <1>7, CurrentIs DEF AfterChoice
<1>11. savedBar # <<>> /\ savedBar' = Front(savedBar) /\ Last(savedBar) = AfterChoice(n)
  <2>1. SameBelow(n)
    BY <1>3, <1>4, <1>5, <1>6, <1>7, <1>8 DEF SameBelow
  <2> DEFINE p == 2 * n - 1
  <2>2. p \in Nat /\ p <= 2 * n /\ p + 1 = 2 * n
    BY <1>3
  <2>3. Copies = p + 1
    BY <1>1, <1>3, <2>2, CopiesType
  <2>4. Copies' = p
    BY <1>8, <1>9, CopiesType
  <2>5. Saved(p + 1) = AfterChoice(n)
    <3>1. (2 * n) % 2 = 0 /\ (2 * n) \div 2 = n
      BY <1>3, Halves
    <3> HIDE DEF p
    <3> QED BY <2>2, <3>1 DEF Saved
  <2> HIDE DEF p
  <2>6. savedBar # <<>> /\ savedBar' = Front(savedBar) /\ Last(savedBar) = Saved(p + 1)
    BY <1>3, <2>1, <2>2, <2>3, <2>4, DropsOne
  <2> QED BY <2>5, <2>6
<1> QED BY <1>1, <1>10, <1>11, SameOperators DEF Undoable!Undo

\* Steps that leave the four stacks alone leave the undo stack alone.
LEMMA StacksKeep ==
  ASSUME UNCHANGED stacks
  PROVE  curBar' = curBar /\ savedBar' = savedBar
BY DEF stacks, curBar, savedBar, Pending, BeforeChoice, AfterChoice

\* get_curr_state copies the current state and changes nothing else.
LEMMA CopySimulates ==
  ASSUME IInv, IInv', Copy
  PROVE  Undoable!Copy
<1>1. /\ trace # <<>> /\ UNCHANGED stacks /\ ret' \in StateAsmpt /\ ret'.sv = Last(trace)
      /\ \E A \in Seq(Assumption), L \in Seq(Label) :
           /\ ret'.asmpt = FlattenSeq(history_assumptions) \o A
           /\ ret'.interp = FlattenSeq(history_assumptions_interp) \o L
  BY CopyAdds
<1>2. PICK A \in Seq(Assumption), L \in Seq(Label) :
        /\ ret'.asmpt = FlattenSeq(history_assumptions) \o A
        /\ ret'.interp = FlattenSeq(history_assumptions_interp) \o L
  BY <1>1
<1>3. /\ FlattenSeq(history_assumptions) \in Seq(Assumption)
      /\ FlattenSeq(history_assumptions_interp) \in Seq(Label)
  BY FlattenType DEF IInv, TypeOK
<1>4. /\ IsPrefix(FlattenSeq(history_assumptions), ret'.asmpt)
      /\ IsPrefix(FlattenSeq(history_assumptions_interp), ret'.interp)
  BY <1>2, <1>3, ConcatPrefix
<1>5. /\ curBar = StateAt(Last(trace), history_assumptions, history_assumptions_interp)
      /\ curBar # NoState
  BY <1>1, CurrentIs
<1>6. /\ ret' # NoState /\ ret'.sv = curBar.frame
      /\ IsPrefix(FlattenSeq(curBar.asmpt), ret'.asmpt)
      /\ IsPrefix(FlattenSeq(curBar.interp), ret'.interp)
  BY <1>1, <1>4, <1>5, NoStateAssumption DEF StateAt
<1>7. curBar' = curBar /\ savedBar' = savedBar
  BY <1>1, StacksKeep
<1> QED BY <1>5, <1>6, <1>7, SameOperators DEF Undoable!Copy

\* set_current_state with a copy installs it, with nothing to go back to.
LEMMA RebaseSimulates ==
  ASSUME IInv, IInv', Rebase
  PROVE  Undoable!Install
<1>1. /\ ret # NoState /\ ret' = ret /\ trace' = <<ret.sv>> /\ history_choice' = <<>>
      /\ history_assumptions' = <<ret.asmpt>>
      /\ history_assumptions_interp' = <<ret.interp>>
  BY DEF Rebase, set_current_state
<1>2. trace' # <<>> /\ Last(trace') = ret.sv
  BY <1>1 DEF Last
<1>3. curBar' = StateAt(ret.sv, <<ret.asmpt>>, <<ret.interp>>)
  BY <1>1, <1>2, CurrentIs
<1>4. savedBar' = <<>>
  <2>1. ~ Pending' /\ Len(history_choice') = 0
    BY <1>1 DEF Pending
  <2>2. Copies' = 0
    BY <2>1, CopiesType
  <2>3. savedBar' = [i \in 1 .. 0 |-> Saved(i)']
    BY <2>2, CopiesType
  <2> QED BY <2>3
<1> QED BY <1>1, <1>3, <1>4 DEF Undoable!Install, StateAt
-----------------------------------------------------------------------------
LEMMA InitSimulates == Init => Undoable!Init
<1> SUFFICES ASSUME Init PROVE Undoable!Init
  OBVIOUS
<1>1. /\ trace = <<>> /\ history_choice = <<>> /\ ret = NoState
      /\ ~ Pending /\ Len(history_choice) = 0
  BY DEF Init, Pending
<1>2. curBar = NoState
  BY <1>1 DEF curBar
<1>3. savedBar = <<>>
  <2>1. Copies = 0
    BY <1>1, InitIInv, CopiesType
  <2>2. savedBar = [i \in 1 .. 0 |-> Saved(i)]
    BY <2>1, InitIInv, CopiesType
  <2> QED BY <2>2
<1> QED BY <1>1, <1>2, <1>3 DEF Undoable!Init

LEMMA NextSimulates == IInv /\ IInv' /\ [Next]_vars => [Undoable!Next]_(Undoable!uvars)
<1> SUFFICES ASSUME IInv, IInv', [Next]_vars PROVE [Undoable!Next]_(Undoable!uvars)
  OBVIOUS
<1>1. CASE Start
  BY <1>1, StartSimulates DEF Undoable!Next
<1>2. CASE Choose
  BY <1>2, ChooseSimulates DEF Undoable!Next
<1>3. CASE Withdraw
  BY <1>3, WithdrawSimulates DEF Undoable!Next
<1>4. CASE Advance
  BY <1>4, AdvanceSimulates DEF Undoable!Next
<1>5. CASE Retreat
  BY <1>5, RetreatSimulates DEF Undoable!Next
<1>6. CASE Copy
  BY <1>6, CopySimulates DEF Undoable!Next
<1>7. CASE Rebase
  BY <1>7, RebaseSimulates DEF Undoable!Next
<1>8. ASSUME UNCHANGED stacks, ret' = ret
      PROVE  UNCHANGED Undoable!uvars
  BY <1>8, StacksKeep DEF Undoable!uvars
<1>9. CASE Share
  BY <1>8, <1>9 DEF Share, MakeSymbol
<1>10. CASE UNCHANGED vars
  BY <1>8, <1>10 DEF vars, stacks
<1> QED BY <1>1, <1>2, <1>3, <1>4, <1>5, <1>6, <1>7, <1>9, <1>10 DEF Next

\* Every step of the simulator is a step of the undo stack or none: undo_set_input
\* and backtrack give back exactly the state that was there, although only the
\* length of a list was recorded.
THEOREM SimulatorIsUndoStack == Spec => ImplementsUndoStack
<1>1. Spec => [][Next]_vars /\ Init
  BY DEF Spec
<1> QED BY <1>1, InitSimulates, NextSimulates, Invariance, PTL
        DEF ImplementsUndoStack, Undoable!Spec
=============================================================================

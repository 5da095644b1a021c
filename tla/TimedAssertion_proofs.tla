------------------------ MODULE TimedAssertion_proofs ------------------------
(***************************************************************************)
(* That every variable of an assertion has a term when the term of the     *)
(* assertion is made, and that the first verdict is right, for all designs *)
(* and assertions.                                                         *)
(*                                                                         *)
(* The symbols are new at each cycle, so the terms recorded so far say     *)
(* nothing of those to come: each valuation of the symbols is a run of the *)
(* design as far as it was simulated, and each such run is a valuation     *)
(* (ValuationsAreRuns, RunsAreValuations).  The verdict compares the two.  *)
(***************************************************************************)
EXTENDS TimedAssertion, SequenceFacts

Verdicts == {"correct", "counterexample"}

Typed ==
  /\ design \in Designs
  /\ IsFiniteSet(assertion.vars)
  /\ \A x \in assertion.vars : x[1] \in {"r"} \cup Inputs /\ x[2] \in Nat
  /\ now \in 0 .. MaxFrames /\ cycle \in Nat /\ base \in Nat /\ checks \in Nat
  /\ frame \in [Valuations -> Values]
  /\ negated \subseteq Valuations
  /\ verdict \in {"none"} \cup Verdicts
  /\ "r" \in syms

\* What the loop has done: it is one frame behind the cycle, unless it has not
\* begun or the caller has stepped on.
Clocked ==
  /\ base + cycle = now + (IF cycle > 0 /\ pc # "idle" THEN 1 ELSE 0)
  /\ \A k \in 0 .. cycle - 1 : k \in 0 .. MaxFrames /\ NamesAt(k) \subseteq syms

\* Variables of the cycles that were simulated have terms, and no others have.
RecordedSoFar ==
  /\ DOMAIN termmap = {x \in assertion.vars : x[2] < cycle}
  /\ \A x \in DOMAIN termmap : x[1] \in {"r"} \cup Assigned
                               /\ termmap[x] \in [Valuations -> Values]
  /\ pc \in {"simulated", "asserted", "answered"} \/ verdict # "none" => cycle > max_cycle

TInv == Typed /\ Clocked /\ RecordedSoFar

-----------------------------------------------------------------------------
(***************************************************************************)
(* The terms                                                               *)
(***************************************************************************)
InputsOf(val, c) == [v \in Assigned |-> InputTerm(v, c)[val]]

LEMMA InputTermIs ==
  ASSUME NEW c \in 0 .. MaxFrames, NEW v \in Assigned
  PROVE  /\ InputTerm(v, c) \in [Valuations -> Values]
         /\ \A val \in Valuations :
              InputTerm(v, c)[val] = IF v \in Reset THEN ResetValue ELSE val[NameOf(v, c)]
<1>1. v \notin Reset => NameOf(v, c) \in Symbols
  BY DEF Symbols, Assigned
<1> QED BY <1>1 DEF InputTerm, Valuations, Values, ResetValue

LEMMA InputsOfIs ==
  ASSUME NEW c \in 0 .. MaxFrames, NEW val \in Valuations
  PROVE  /\ InputsOf(val, c) \in InputsAt
         /\ \A v \in Assigned :
              InputsOf(val, c)[v] = IF v \in Reset THEN ResetValue ELSE val[NameOf(v, c)]
BY InputTermIs DEF InputsOf, InputsAt

LEMMA NextFrameIs ==
  ASSUME Typed, NEW c \in 0 .. MaxFrames
  PROVE  /\ NextFrame(c) \in [Valuations -> Values]
         /\ \A val \in Valuations :
              NextFrame(c)[val] = design.next[<<frame[val], InputsOf(val, c)>>]
<1>1. \A val \in Valuations : design.next[<<frame[val], InputsOf(val, c)>>] \in Values
  BY InputsOfIs, DesignsAndAssertions DEF Typed
<1>2. NextFrame(c) = [val \in Valuations |-> design.next[<<frame[val], InputsOf(val, c)>>]]
  BY DEF NextFrame, InputsOf
<1> QED BY <1>1, <1>2

LEMMA MaxCycleBounds ==
  ASSUME Typed
  PROVE  max_cycle \in Nat /\ \A x \in assertion.vars : x[2] <= max_cycle
<1> DEFINE cycles == {v[2] : v \in assertion.vars}
           f == [v \in assertion.vars |-> v[2]]
<1>1. cycles \in SUBSET Nat
  BY DEF Typed
<1>2. f \in Surjection(assertion.vars, cycles)
  BY DEF Surjection
<1>3. IsFiniteSet(cycles)
  BY <1>2, FS_Surjection DEF Typed
<1>4. IsFiniteSet({0} \cup cycles)
  BY <1>3, FS_AddElement
<1>5. max_cycle = Max({0} \cup cycles)
  BY DEF max_cycle
<1> HIDE DEF cycles
<1>6. Max({0} \cup cycles) \in {0} \cup cycles /\ \A y \in cycles : y <= Max({0} \cup cycles)
  BY <1>1, <1>4, MaxOfNats
<1> USE DEF cycles
<1> QED BY <1>1, <1>5, <1>6

-----------------------------------------------------------------------------
(***************************************************************************)
(* What is recorded                                                        *)
(***************************************************************************)
LEMMA SteppedIs ==
  ASSUME TInv, pc = "simulating"
  PROVE  /\ SteppedFrame \in [Valuations -> Values]
         /\ cycle = 0 => SteppedFrame = frame
         /\ cycle > 0 => /\ cycle - 1 \in 0 .. MaxFrames
                         /\ \A val \in Valuations :
                              SteppedFrame[val] =
                                design.next[<<frame[val], InputsOf(val, cycle - 1)>>]
<1>1. CASE cycle = 0
  BY <1>1 DEF SteppedFrame, TInv, Typed
<1>2. CASE cycle # 0
  <2>1. cycle - 1 \in 0 .. MaxFrames
    BY <1>2 DEF TInv, Typed, Clocked
  <2>2. SteppedFrame = NextFrame(cycle - 1)
    BY <1>2 DEF SteppedFrame
  <2> QED BY <1>2, <2>1, <2>2, NextFrameIs DEF TInv, Typed
<1> QED BY <1>1, <1>2

\* What one iteration records.
LEMMA CycleRecords ==
  ASSUME TInv, SimCycle
  PROVE  /\ cycle \in 0 .. MaxFrames /\ cycle' = cycle + 1
         /\ DOMAIN termmap' = {x \in assertion.vars : x[2] < cycle'}
         /\ \A x \in assertion.vars :
              x[2] < cycle => x \in DOMAIN termmap /\ termmap'[x] = termmap[x]
         /\ \A x \in assertion.vars :
              x[2] = cycle => /\ x[1] \in {"r"} \cup Assigned
                              /\ termmap'[x] = IF x[1] = "r" THEN SteppedFrame
                                                             ELSE InputTerm(x[1], cycle)
<1> DEFINE new == Recorded(cycle, SteppedFrame)
<1>1. /\ termmap' = Inserted(new, termmap) /\ cycle' = cycle + 1 /\ ~ReadsClock(cycle)
      /\ now' <= MaxFrames /\ now' = (IF cycle = 0 THEN now ELSE now + 1)
      /\ pc = "simulating"
  BY DEF SimCycle
<1>2. /\ DOMAIN new = {x \in assertion.vars : x[2] = cycle}
      /\ \A x \in DOMAIN new : new[x] = IF x[1] = "r" THEN SteppedFrame
                                                      ELSE InputTerm(x[1], cycle)
  BY DEF Recorded
<1> HIDE DEF new
<1>3. /\ DOMAIN termmap' = DOMAIN new \cup DOMAIN termmap
      /\ \A x \in DOMAIN termmap' :
           termmap'[x] = IF x \in DOMAIN new THEN new[x] ELSE termmap[x]
  BY <1>1 DEF Inserted
<1>4. DOMAIN termmap = {x \in assertion.vars : x[2] < cycle}
  BY DEF TInv, RecordedSoFar
<1>5. \A x \in assertion.vars : x[2] \in Nat /\ cycle \in Nat
  BY DEF TInv, Typed
<1>6. DOMAIN termmap' = {x \in assertion.vars : x[2] < cycle'}
  BY <1>1, <1>2, <1>3, <1>4, <1>5
<1>7. \A x \in assertion.vars :
        x[2] < cycle => x \in DOMAIN termmap /\ termmap'[x] = termmap[x]
  BY <1>2, <1>3, <1>4, <1>5
<1>8. \A x \in assertion.vars :
        x[2] = cycle => termmap'[x] = IF x[1] = "r" THEN SteppedFrame
                                                    ELSE InputTerm(x[1], cycle)
  BY <1>2, <1>3
<1>9. \A x \in assertion.vars : x[2] = cycle => x[1] \in {"r"} \cup Assigned
  BY <1>1 DEF ReadsClock, TInv, Typed, Inputs, Assigned
<1>10. cycle \in 0 .. MaxFrames
  BY <1>1, DesignsAndAssertions DEF TInv, Typed, Clocked
<1> QED BY <1>1, <1>6, <1>7, <1>8, <1>9, <1>10

LEMMA CycleKeeps ==
  ASSUME TInv, SimCycle
  PROVE  TInv'
<1>1. /\ pc = "simulating" /\ pc' = "simulating"
      /\ frame' = SteppedFrame
      /\ now' = (IF cycle = 0 THEN now ELSE now + 1) /\ now' <= MaxFrames
      /\ syms' = syms \cup NamesAt(cycle)
      /\ cycle' = cycle + 1 /\ cycle <= max_cycle
      /\ UNCHANGED <<design, assertion, base, negated, verdict, checks, pc>>
  BY DEF SimCycle
<1>2. Typed'
  BY <1>1, SteppedIs DEF TInv, Typed
<1>3. Clocked'
  BY <1>1, CycleRecords DEF TInv, Typed, Clocked, NamesAt
<1>4. verdict = "none"
  <2>1. max_cycle \in Nat
    BY MaxCycleBounds DEF TInv
  <2> QED BY <1>1, <2>1 DEF TInv, RecordedSoFar, Typed
<1>5. RecordedSoFar'
  <2>1. ASSUME NEW x \in DOMAIN termmap'
        PROVE  x[1] \in {"r"} \cup Assigned /\ termmap'[x] \in [Valuations -> Values]
    <3>1. x \in assertion.vars /\ x[2] \in Nat /\ x[2] < cycle + 1 /\ cycle \in Nat
      BY <2>1, CycleRecords DEF TInv, Typed
    <3>2. CASE x[2] < cycle
      BY <3>1, <3>2, CycleRecords DEF TInv, RecordedSoFar
    <3>3. CASE x[2] = cycle
      BY <1>1, <3>1, <3>3, CycleRecords, SteppedIs, InputTermIs
    <3> QED BY <3>1, <3>2, <3>3
  <2>2. DOMAIN termmap' = {x \in assertion'.vars : x[2] < cycle'}
    BY <1>1, CycleRecords
  <2> QED BY <1>1, <1>4, <2>1, <2>2 DEF RecordedSoFar
<1> QED BY <1>2, <1>3, <1>5 DEF TInv

LEMMA NextKeepsTInv == TInv /\ [Next]_tavars => TInv'
<1> SUFFICES ASSUME TInv, [Next]_tavars PROVE TInv'
  OBVIOUS
<1>1. CASE UNCHANGED tavars
  BY <1>1 DEF tavars, TInv, Typed, Clocked, RecordedSoFar, NamesAt, max_cycle
<1>2. ASSUME NEW a \in Assertions, Construct(a)
      PROVE  TInv'
  <2>1. Typed'
    BY <1>2, DesignsAndAssertions DEF Construct, TInv, Typed
  <2>2. Clocked'
    BY <1>2 DEF Construct, TInv, Typed, Clocked, NamesAt
  <2>3. DOMAIN termmap' = {}
    BY <1>2 DEF Construct
  <2>4. RecordedSoFar'
    BY <1>2, <2>1, <2>3 DEF Construct, RecordedSoFar, Typed
  <2> QED BY <2>1, <2>2, <2>4 DEF TInv
<1>3. CASE SimCycle
  BY <1>3, CycleKeeps
<1>4. CASE SimFails
  BY <1>4 DEF SimFails, sim, TInv, Typed, Clocked, RecordedSoFar, NamesAt, max_cycle
<1>5. CASE SimDone
  <2>1. max_cycle \in Nat
    BY MaxCycleBounds DEF TInv
  <2> QED BY <1>5, <2>1 DEF SimDone, sim, TInv, Typed, Clocked, RecordedSoFar, NamesAt, max_cycle
<1>6. CASE assert_formula
  BY <1>6 DEF assert_formula, sim, NowNegated, TInv, Typed, Clocked, RecordedSoFar, NamesAt,
              max_cycle
<1>7. CASE check_sat
  BY <1>7 DEF check_sat, sim, TInv, Typed, Verdicts, Clocked, RecordedSoFar, NamesAt, max_cycle
<1>8. CASE CallerSteps
  <2>1. /\ pc = "answered" /\ now < MaxFrames /\ frame' = NextFrame(cycle - 1) /\ now' = now + 1
        /\ pc' = "idle"
        /\ UNCHANGED <<design, syms, assertion, base, cycle, termmap, negated, verdict, checks>>
    BY <1>8 DEF CallerSteps
  <2>2. cycle > max_cycle /\ max_cycle \in Nat
    BY <2>1, MaxCycleBounds DEF TInv, RecordedSoFar
  <2>3. cycle > 0 /\ cycle - 1 \in 0 .. MaxFrames
    BY <2>2 DEF TInv, Typed, Clocked
  <2>4. frame' \in [Valuations -> Values]
    BY <2>1, <2>3, NextFrameIs DEF TInv
  <2>5. Typed'
    BY <2>1, <2>4, DesignsAndAssertions DEF TInv, Typed
  <2>6. Clocked'
    BY <2>1, <2>3 DEF TInv, Typed, Clocked, NamesAt
  <2>7. RecordedSoFar'
    BY <2>1, <2>2 DEF TInv, RecordedSoFar, max_cycle
  <2> QED BY <2>5, <2>6, <2>7 DEF TInv
<1> QED BY <1>1, <1>2, <1>3, <1>4, <1>5, <1>6, <1>7, <1>8 DEF Next

LEMMA InitTInv == Init => TInv
<1> SUFFICES ASSUME Init PROVE TInv
  OBVIOUS
<1>1. "r" \in Symbols
  BY DEF Symbols
<1>2. assertion.vars = {} /\ DOMAIN termmap = {}
  BY DEF Init
<1>3. Typed
  BY <1>1, <1>2, FS_EmptySet, DesignsAndAssertions DEF Init, Typed, Valuations
<1>4. Clocked
  BY <1>3 DEF Init, Clocked, Typed
<1>5. RecordedSoFar
  BY <1>2 DEF Init, RecordedSoFar
<1> QED BY <1>3, <1>4, <1>5 DEF TInv

LEMMA RecordingInvariance == Spec => []TInv
<1> QED BY InitTInv, NextKeepsTInv, PTL DEF Spec

\* The loop stops late enough: when the term of the assertion is made, each of
\* its variables has a term.
THEOREM EveryVariableIsRecorded == Spec => []EveryVariableRecorded
<1>1. TInv => EveryVariableRecorded
  <2> SUFFICES ASSUME TInv, pc = "simulated" PROVE DOMAIN termmap = assertion.vars
    BY DEF EveryVariableRecorded
  <2>1. cycle > max_cycle /\ cycle \in Nat
    BY DEF TInv, RecordedSoFar, Typed
  <2>2. max_cycle \in Nat /\ \A x \in assertion.vars : x[2] <= max_cycle /\ x[2] \in Nat
    BY MaxCycleBounds DEF TInv, Typed
  <2> QED BY <2>1, <2>2 DEF TInv, RecordedSoFar
<1> QED BY <1>1, RecordingInvariance, PTL

-----------------------------------------------------------------------------
(***************************************************************************)
(* Runs, and the valuations they are                                       *)
(***************************************************************************)

\* Runs of n steps from any register value, however the design is constrained.
DesignRuns(d, n) ==
  {run \in [r : [0 .. n -> Values], in : [0 .. n -> InputsAt]] :
     /\ \A k \in 0 .. n : \A v \in Reset : run.in[k][v] = ResetValue
     /\ \A k \in 0 .. n - 1 : run.r[k + 1] = d.next[<<run.r[k], run.in[k]>>]}

ValueIn(run, x) == IF x[1] = "r" THEN run.r[x[2]] ELSE run.in[x[2]][x[1]]

\* The run is what the terms say under the valuation.
Matches(run, val) ==
  /\ run.r[0] = val["r"]
  /\ \A k \in 0 .. now : k < cycle => run.in[k] = InputsOf(val, k)
  /\ frame[val] = run.r[now]
  /\ \A x \in DOMAIN termmap : termmap[x][val] = ValueIn(run, x)

ValuationsAreRuns ==
  \A val \in Valuations : \E run \in DesignRuns(design, now) : Matches(run, val)

RunsAreValuations ==
  \A run \in DesignRuns(design, now) : \E val \in Valuations : Matches(run, val)

\* Terms are over the symbols the solver has.
Alike(val, wal) == \A s \in syms \cap Symbols : val[s] = wal[s]

TermsOverSymbols ==
  \A val, wal \in Valuations : Alike(val, wal) =>
     /\ frame[val] = frame[wal]
     /\ \A x \in DOMAIN termmap : termmap[x][val] = termmap[x][wal]

LEMMA RunIs ==
  ASSUME NEW d, NEW n \in Nat, NEW run \in DesignRuns(d, n)
  PROVE  /\ \A k \in 0 .. n : /\ run.r[k] \in Values /\ run.in[k] \in InputsAt
                              /\ \A v \in Reset : run.in[k][v] = ResetValue
         /\ \A k \in 0 .. n - 1 : run.r[k + 1] = d.next[<<run.r[k], run.in[k]>>]
<1>1. run \in [r : [0 .. n -> Values], in : [0 .. n -> InputsAt]]
  BY DEF DesignRuns
<1>2. run.r \in [0 .. n -> Values] /\ run.in \in [0 .. n -> InputsAt]
  BY <1>1
<1> QED BY <1>2 DEF DesignRuns

\* A run goes on with any input, and its beginning is a run.
LEMMA RunGoesOn ==
  ASSUME NEW d \in Designs, NEW n \in Nat, NEW run \in DesignRuns(d, n),
         NEW in \in InputsAt, \A v \in Reset : in[v] = ResetValue
  PROVE  \E longer \in DesignRuns(d, n + 1) :
           /\ \A k \in 0 .. n : longer.r[k] = run.r[k] /\ longer.in[k] = run.in[k]
           /\ longer.in[n + 1] = in
<1> DEFINE r == [k \in 0 .. n + 1 |-> IF k <= n THEN run.r[k]
                                                ELSE d.next[<<run.r[n], run.in[n]>>]]
           i == [k \in 0 .. n + 1 |-> IF k <= n THEN run.in[k] ELSE in]
           longer == [r |-> r, in |-> i]
<1>1. /\ \A k \in 0 .. n : /\ run.r[k] \in Values /\ run.in[k] \in InputsAt
                           /\ \A v \in Reset : run.in[k][v] = ResetValue
      /\ \A k \in 0 .. n - 1 : run.r[k + 1] = d.next[<<run.r[k], run.in[k]>>]
  BY RunIs
<1>2. d.next[<<run.r[n], run.in[n]>>] \in Values
  BY <1>1, DesignsAndAssertions
<1>3. r \in [0 .. n + 1 -> Values] /\ i \in [0 .. n + 1 -> InputsAt]
  BY <1>1, <1>2
<1>4. \A k \in 0 .. n + 1 : \A v \in Reset : i[k][v] = ResetValue
  BY <1>1
<1>5. \A k \in 0 .. n : r[k + 1] = d.next[<<r[k], i[k]>>]
  <2> TAKE k \in 0 .. n
  <2>1. CASE k = n
    <3>1. k + 1 \in 0 .. n + 1 /\ ~(k + 1 <= n) /\ k <= n /\ k \in 0 .. n + 1
      BY <2>1
    <3>2. r[k + 1] = d.next[<<run.r[n], run.in[n]>>] /\ r[k] = run.r[n] /\ i[k] = run.in[n]
      BY <2>1, <3>1
    <3> QED BY <3>2
  <2>2. CASE k # n
    <3>1. k \in 0 .. n - 1 /\ k \in 0 .. n /\ k + 1 \in 0 .. n /\ k + 1 <= n
      BY <2>2
    <3>2. r[k + 1] = run.r[k + 1] /\ r[k] = run.r[k] /\ i[k] = run.in[k]
      BY <3>1
    <3> QED BY <1>1, <3>1, <3>2
  <2> QED BY <2>1, <2>2
<1>6. \A k \in 0 .. n : r[k] = run.r[k] /\ i[k] = run.in[k]
  OBVIOUS
<1>7. i[n + 1] = in
  OBVIOUS
<1> HIDE DEF r, i
<1>8. longer \in DesignRuns(d, n + 1)
  BY <1>3, <1>4, <1>5 DEF DesignRuns
<1> QED BY <1>6, <1>7, <1>8

LEMMA RunBegins ==
  ASSUME NEW d, NEW n \in Nat, NEW run \in DesignRuns(d, n + 1)
  PROVE  \E shorter \in DesignRuns(d, n) :
           \A k \in 0 .. n : shorter.r[k] = run.r[k] /\ shorter.in[k] = run.in[k]
<1> DEFINE r == [k \in 0 .. n |-> run.r[k]]
           i == [k \in 0 .. n |-> run.in[k]]
           shorter == [r |-> r, in |-> i]
<1>1. /\ \A k \in 0 .. n + 1 : /\ run.r[k] \in Values /\ run.in[k] \in InputsAt
                               /\ \A v \in Reset : run.in[k][v] = ResetValue
      /\ \A k \in 0 .. n : run.r[k + 1] = d.next[<<run.r[k], run.in[k]>>]
  BY RunIs
<1>2. r \in [0 .. n -> Values] /\ i \in [0 .. n -> InputsAt]
  BY <1>1
<1>3. \A k \in 0 .. n : r[k] = run.r[k] /\ i[k] = run.in[k]
  OBVIOUS
<1> HIDE DEF r, i
<1>4. \A k \in 0 .. n : \A v \in Reset : i[k][v] = ResetValue
  BY <1>1, <1>3
<1>5. \A k \in 0 .. n - 1 : r[k + 1] = d.next[<<r[k], i[k]>>]
  <2> TAKE k \in 0 .. n - 1
  <2>1. k \in 0 .. n /\ k + 1 \in 0 .. n
    OBVIOUS
  <2> QED BY <1>1, <1>3, <2>1
<1>6. shorter \in DesignRuns(d, n)
  BY <1>2, <1>4, <1>5 DEF DesignRuns
<1> QED BY <1>3, <1>6

\* Giving the symbols of a cycle the values of an input.
LEMMA NewValues ==
  ASSUME NEW c \in 0 .. MaxFrames, NamesAt(c) \cap syms = {}, NEW val \in Valuations,
         NEW in \in InputsAt, \A v \in Reset : in[v] = ResetValue
  PROVE  \E wal \in Valuations : Alike(val, wal) /\ InputsOf(wal, c) = in
<1> DEFINE wal == [s \in Symbols |->
                     IF s \in NamesAt(c) THEN in[CHOOSE v \in FreeInputs : NameOf(v, c) = s]
                                         ELSE val[s]]
<1>1. ASSUME NEW v \in FreeInputs
      PROVE  /\ NameOf(v, c) \in Symbols /\ NameOf(v, c) \in NamesAt(c)
             /\ (CHOOSE w \in FreeInputs : NameOf(w, c) = NameOf(v, c)) = v
  BY InputsAreDistinct DEF Symbols, NamesAt
<1>2. \A s \in Symbols : wal[s] \in Values
  <2> TAKE s \in Symbols
  <2>1. CASE s \in NamesAt(c)
    <3>1. PICK v \in FreeInputs : s = NameOf(v, c)
      BY <2>1 DEF NamesAt
    <3>2. wal[s] = in[v]
      BY <1>1, <2>1, <3>1
    <3> QED BY <3>2 DEF InputsAt, Assigned
  <2>2. CASE s \notin NamesAt(c)
    BY <2>2 DEF Valuations
  <2> QED BY <2>1, <2>2
<1>3. wal \in Valuations
  BY <1>2 DEF Valuations
<1>4. Alike(val, wal)
  BY DEF Alike
<1>5. \A v \in FreeInputs : wal[NameOf(v, c)] = in[v]
  BY <1>1
<1> HIDE DEF wal
<1>6. \A v \in Assigned : InputsOf(wal, c)[v] = in[v]
  BY <1>3, <1>5, InputsOfIs DEF Assigned
<1>7. InputsOf(wal, c) = in
  BY <1>3, <1>6, InputsOfIs DEF InputsAt
<1> QED BY <1>3, <1>4, <1>7

LEMMA SameInputs ==
  ASSUME TInv, NEW val \in Valuations, NEW wal \in Valuations, Alike(val, wal),
         NEW k \in 0 .. cycle - 1
  PROVE  InputsOf(val, k) = InputsOf(wal, k)
<1>1. k \in 0 .. MaxFrames /\ NamesAt(k) \subseteq syms
  BY DEF TInv, Clocked
<1>2. \A v \in FreeInputs : val[NameOf(v, k)] = wal[NameOf(v, k)]
  BY <1>1 DEF Alike, NamesAt, Symbols
<1>3. \A v \in Assigned : InputsOf(val, k)[v] = InputsOf(wal, k)[v]
  BY <1>1, <1>2, InputsOfIs DEF Assigned
<1> QED BY <1>1, <1>3, InputsOfIs DEF InputsAt

-----------------------------------------------------------------------------
(***************************************************************************)
(* The first verdict                                                       *)
(***************************************************************************)

\* The first checker begins where the simulator does.
FirstCheck ==
  /\ base = 0
  /\ checks = 0 => pc = "idle" /\ verdict = "none" /\ cycle = 0
  /\ pc \in {"simulating", "simulated", "asserted"} => verdict = "none"
  /\ pc = "answered" => verdict # "none"

Asserted ==
  negated = IF pc \in {"asserted", "answered"} \/ verdict # "none"
              THEN Valuations \ Substituted ELSE Valuations

Answered == verdict # "none" => (verdict = "correct" <=> negated = {})

FInv ==
  /\ TInv /\ TermsOverSymbols
  /\ checks <= 1 => /\ FirstCheck /\ ValuationsAreRuns /\ RunsAreValuations
                    /\ Asserted /\ Answered

LEMMA AlikeMatches ==
  ASSUME TInv, TermsOverSymbols, NEW val \in Valuations, NEW wal \in Valuations,
         Alike(val, wal), NEW run, Matches(run, val)
  PROVE  Matches(run, wal)
<1>1. val["r"] = wal["r"]
  BY DEF Alike, Symbols, TInv, Typed
<1>2. \A k \in 0 .. now : k < cycle => InputsOf(val, k) = InputsOf(wal, k)
  BY SameInputs DEF TInv, Typed
<1> QED BY <1>1, <1>2 DEF Matches, TermsOverSymbols

\* In the loop, and after it, the frame follows the last cycle.
LEMMA NowFollows ==
  ASSUME TInv, base = 0, pc # "idle"
  PROVE  cycle \in Nat /\ now \in Nat /\ now = IF cycle = 0 THEN 0 ELSE cycle - 1
BY DEF TInv, Typed, Clocked

\* The frame after a step is the run's.
LEMMA NextMatches ==
  ASSUME TInv, base = 0, pc # "idle", cycle > 0,
         NEW val \in Valuations, NEW run, Matches(run, val),
         NEW longer \in DesignRuns(design, now + 1),
         \A k \in 0 .. now : longer.r[k] = run.r[k] /\ longer.in[k] = run.in[k]
  PROVE  design.next[<<frame[val], InputsOf(val, cycle - 1)>>] = longer.r[now + 1]
<1>1. now \in Nat /\ now = cycle - 1 /\ now < cycle
  BY NowFollows
<1>2. frame[val] = longer.r[now] /\ InputsOf(val, cycle - 1) = longer.in[now]
  BY <1>1 DEF Matches
<1>3. longer.r[now + 1] = design.next[<<longer.r[now], longer.in[now]>>]
  BY <1>1, RunIs
<1> QED BY <1>2, <1>3

\* Terms recorded in earlier cycles are those of the shorter run.
LEMMA SameValueIn ==
  ASSUME TInv, NEW run, NEW longer, NEW x \in DOMAIN termmap,
         x[2] \in 0 .. now,
         \A k \in 0 .. now : longer.r[k] = run.r[k] /\ (k < cycle => longer.in[k] = run.in[k])
  PROVE  ValueIn(longer, x) = ValueIn(run, x)
<1>1. x[2] < cycle
  BY DEF TInv, RecordedSoFar
<1> QED BY <1>1 DEF ValueIn

LEMMA CycleMatches ==
  ASSUME TInv, SimCycle, base = 0,
         NEW val \in Valuations, NEW run, Matches(run, val),
         NEW longer \in DesignRuns(design, now'),
         \A k \in 0 .. now : longer.r[k] = run.r[k] /\ (k < cycle => longer.in[k] = run.in[k]),
         InputsOf(val, cycle) = longer.in[cycle]
  PROVE  Matches(longer, val)'
<1>1. /\ pc = "simulating" /\ frame' = SteppedFrame
      /\ now' = (IF cycle = 0 THEN now ELSE now + 1)
      /\ assertion' = assertion
  BY DEF SimCycle
<1>2. cycle \in Nat /\ now \in Nat /\ now = (IF cycle = 0 THEN 0 ELSE cycle - 1)
  BY <1>1, NowFollows
<1>3. now' = cycle /\ cycle' = cycle + 1
  BY <1>1, <1>2, CycleRecords
<1>4. longer.r[0] = val["r"]
  BY <1>2 DEF Matches
<1>5. ASSUME NEW k \in 0 .. cycle
      PROVE  longer.in[k] = InputsOf(val, k)
  <2>1. CASE k = cycle
    BY <2>1
  <2>2. CASE k # cycle
    <3>1. k \in 0 .. now /\ k < cycle
      BY <1>2, <2>2
    <3> QED BY <3>1 DEF Matches
  <2> QED BY <2>1, <2>2
<1>6. SteppedFrame[val] = longer.r[cycle]
  <2>1. CASE cycle = 0
    BY <1>1, <1>2, <2>1, SteppedIs DEF Matches
  <2>2. CASE cycle # 0
    <3>1. cycle > 0 /\ now + 1 = cycle /\ now' = now + 1
          /\ \A k \in 0 .. now : longer.in[k] = run.in[k]
      BY <1>2, <1>3, <2>2
    <3>2. design.next[<<frame[val], InputsOf(val, cycle - 1)>>] = longer.r[now + 1]
      BY <1>1, <3>1, NextMatches
    <3> QED BY <1>1, <3>1, <3>2, SteppedIs
  <2> QED BY <2>1, <2>2
<1>7. ASSUME NEW x \in DOMAIN termmap'
      PROVE  termmap'[x][val] = ValueIn(longer, x)
  <2>1. x \in assertion.vars /\ x[2] \in Nat /\ x[2] < cycle + 1
    BY <1>3, <1>7, CycleRecords DEF TInv, Typed
  <2>2. CASE x[2] < cycle
    <3>1. x \in DOMAIN termmap /\ termmap'[x] = termmap[x] /\ x[2] \in 0 .. now
      BY <1>2, <2>1, <2>2, CycleRecords
    <3> QED BY <3>1, SameValueIn DEF Matches
  <2>3. CASE x[2] = cycle
    <3>1. x[1] \in {"r"} \cup Assigned
          /\ termmap'[x] = IF x[1] = "r" THEN SteppedFrame ELSE InputTerm(x[1], cycle)
      BY <2>1, <2>3, CycleRecords
    <3>2. CASE x[1] = "r"
      BY <1>6, <2>3, <3>1, <3>2 DEF ValueIn
    <3>3. CASE x[1] # "r"
      <4>1. InputTerm(x[1], cycle)[val] = InputsOf(val, cycle)[x[1]]
        BY <3>1, <3>3 DEF InputsOf
      <4> QED BY <2>3, <3>1, <3>3, <4>1 DEF ValueIn
    <3> QED BY <3>2, <3>3
  <2> QED BY <1>2, <2>1, <2>2, <2>3
<1>8. frame'[val] = longer.r[now']
  BY <1>1, <1>3, <1>6
<1> QED BY <1>3, <1>4, <1>5, <1>7, <1>8 DEF Matches, InputsOf, InputTerm

LEMMA CycleKeepsTermsOverSymbols ==
  ASSUME TInv, TermsOverSymbols, SimCycle
  PROVE  TermsOverSymbols'
<1>1. /\ pc = "simulating" /\ frame' = SteppedFrame /\ syms' = syms \cup NamesAt(cycle)
  BY DEF SimCycle
<1> SUFFICES ASSUME NEW val \in Valuations, NEW wal \in Valuations, Alike(val, wal)'
             PROVE  /\ frame'[val] = frame'[wal]
                    /\ \A x \in DOMAIN termmap' : termmap'[x][val] = termmap'[x][wal]
  BY DEF TermsOverSymbols
<1>2. Alike(val, wal) /\ \A s \in NamesAt(cycle) \cap Symbols : val[s] = wal[s]
  BY <1>1 DEF Alike, Symbols, NameOf
<1>3. cycle \in 0 .. MaxFrames /\ cycle' = cycle + 1
  BY CycleRecords
<1>4. SteppedFrame[val] = SteppedFrame[wal]
  <2>1. frame[val] = frame[wal]
    BY <1>2 DEF TermsOverSymbols
  <2>2. CASE cycle = 0
    BY <1>1, <2>1, <2>2, SteppedIs
  <2>3. CASE cycle # 0
    <3>1. cycle > 0 /\ cycle - 1 \in 0 .. cycle - 1
      BY <1>3, <2>3
    <3>2. InputsOf(val, cycle - 1) = InputsOf(wal, cycle - 1)
      BY <1>2, <3>1, SameInputs
    <3> QED BY <1>1, <2>1, <3>1, <3>2, SteppedIs
  <2> QED BY <2>2, <2>3
<1>5. ASSUME NEW x \in DOMAIN termmap'
      PROVE  termmap'[x][val] = termmap'[x][wal]
  <2>1. x \in assertion.vars /\ x[2] \in Nat /\ x[2] < cycle + 1
    BY <1>3, <1>5, CycleRecords DEF TInv, Typed
  <2>2. CASE x[2] < cycle
    BY <1>2, <2>1, <2>2, CycleRecords DEF TermsOverSymbols
  <2>3. CASE x[2] = cycle
    <3>1. x[1] \in {"r"} \cup Assigned
          /\ termmap'[x] = IF x[1] = "r" THEN SteppedFrame ELSE InputTerm(x[1], cycle)
      BY <2>1, <2>3, CycleRecords
    <3>2. CASE x[1] = "r"
      BY <1>4, <3>1, <3>2
    <3>3. CASE x[1] # "r" /\ x[1] \in Reset
      BY <1>3, <3>1, <3>3, InputTermIs
    <3>4. CASE x[1] # "r" /\ x[1] \notin Reset
      <4>1. x[1] \in FreeInputs
        BY <3>1, <3>4 DEF Assigned
      <4>2. NameOf(x[1], cycle) \in NamesAt(cycle) \cap Symbols
        BY <1>3, <4>1 DEF NamesAt, Symbols
      <4> QED BY <1>2, <1>3, <3>1, <3>4, <4>2, InputTermIs
    <3> QED BY <3>1, <3>2, <3>3, <3>4
  <2> QED BY <1>3, <2>1, <2>2, <2>3
<1> QED BY <1>1, <1>4, <1>5

\* Cycle 0 gives the first frame its input, the later ones make a step.
LEMMA CycleKeepsRuns ==
  ASSUME TInv, TermsOverSymbols, base = 0, SimCycle, ValuationsAreRuns, RunsAreValuations
  PROVE  ValuationsAreRuns' /\ RunsAreValuations'
<1>1. /\ pc = "simulating" /\ now' = (IF cycle = 0 THEN now ELSE now + 1) /\ design' = design
      /\ NamesAt(cycle) \cap syms = {}
  BY DEF SimCycle
<1>2. cycle \in Nat /\ now \in Nat /\ now = (IF cycle = 0 THEN 0 ELSE cycle - 1)
  BY <1>1, NowFollows
<1>3. now' = cycle /\ cycle \in 0 .. MaxFrames /\ design \in Designs
  BY <1>1, <1>2, CycleRecords DEF TInv, Typed
<1>4. ASSUME NEW val \in Valuations
      PROVE  \E run \in DesignRuns(design, now') : Matches(run, val)'
  <2>1. PICK run \in DesignRuns(design, now) : Matches(run, val)
    BY DEF ValuationsAreRuns
  <2> DEFINE in == InputsOf(val, cycle)
  <2>2. in \in InputsAt /\ \A v \in Reset : in[v] = ResetValue
    BY <1>3, InputsOfIs DEF Assigned
  <2>3. PICK longer \in DesignRuns(design, now') :
          /\ \A k \in 0 .. now : longer.r[k] = run.r[k] /\ (k < cycle => longer.in[k] = run.in[k])
          /\ longer.in[cycle] = in
    <3>1. CASE cycle = 0
      <4> DEFINE longer == [r |-> run.r, in |-> [k \in 0 .. 0 |-> in]]
      <4>1. run.r \in [0 .. 0 -> Values]
        BY <1>2, <3>1 DEF DesignRuns
      <4>2. longer \in DesignRuns(design, 0)
        BY <2>2, <4>1 DEF DesignRuns
      <4>3. longer.in[0] = in /\ longer.r = run.r
        OBVIOUS
      <4> QED BY <1>2, <1>3, <3>1, <4>2, <4>3
    <3>2. CASE cycle # 0
      <4>1. now' = now + 1 /\ cycle = now + 1
        BY <1>2, <1>3, <3>2
      <4> HIDE DEF in
      <4>2. PICK longer \in DesignRuns(design, now + 1) :
              /\ \A k \in 0 .. now : longer.r[k] = run.r[k] /\ longer.in[k] = run.in[k]
              /\ longer.in[now + 1] = in
        BY <1>2, <1>3, <2>2, RunGoesOn
      <4> QED BY <4>1, <4>2
    <3> QED BY <3>1, <3>2
  <2>4. Matches(longer, val)'
    BY <2>1, <2>3, CycleMatches
  <2> QED BY <2>3, <2>4
<1>5. ASSUME NEW longer \in DesignRuns(design, now')
      PROVE  \E val \in Valuations : Matches(longer, val)'
  <2>1. PICK run \in DesignRuns(design, now) :
          \A k \in 0 .. now : longer.r[k] = run.r[k] /\ (k < cycle => longer.in[k] = run.in[k])
    <3>1. CASE cycle = 0
      BY <1>2, <1>3, <3>1
    <3>2. CASE cycle # 0
      <4>1. now' = now + 1
        BY <1>2, <1>3, <3>2
      <4> QED BY <1>2, <4>1, RunBegins
    <3> QED BY <3>1, <3>2
  <2>2. PICK val \in Valuations : Matches(run, val)
    BY DEF RunsAreValuations
  <2>3. longer.in[cycle] \in InputsAt /\ \A v \in Reset : longer.in[cycle][v] = ResetValue
    BY <1>2, <1>3, RunIs
  <2>4. PICK wal \in Valuations : Alike(val, wal) /\ InputsOf(wal, cycle) = longer.in[cycle]
    BY <1>1, <1>3, <2>3, NewValues
  <2>5. Matches(run, wal)
    BY <2>2, <2>4, AlikeMatches
  <2>6. Matches(longer, wal)'
    BY <2>1, <2>4, <2>5, CycleMatches
  <2> QED BY <2>6
<1>6. ValuationsAreRuns'
  BY <1>1, <1>4 DEF ValuationsAreRuns
<1>7. RunsAreValuations'
  BY <1>1, <1>5 DEF RunsAreValuations
<1> QED BY <1>6, <1>7

\* The caller's step goes on from the last cycle, and gives no input.
LEMMA CallerKeepsRuns ==
  ASSUME TInv, TermsOverSymbols, CallerSteps
  PROVE  /\ TermsOverSymbols'
         /\ base = 0 /\ ValuationsAreRuns => ValuationsAreRuns'
         /\ base = 0 /\ RunsAreValuations => RunsAreValuations'
<1>1. /\ pc = "answered" /\ frame' = NextFrame(cycle - 1) /\ now' = now + 1
      /\ UNCHANGED <<design, syms, assertion, base, cycle, termmap>>
  BY DEF CallerSteps
<1>2. cycle \in Nat /\ cycle > 0 /\ cycle - 1 \in 0 .. MaxFrames /\ cycle - 1 \in 0 .. cycle - 1
  BY <1>1, MaxCycleBounds DEF TInv, RecordedSoFar, Typed, Clocked
<1>3. \A val \in Valuations :
        frame'[val] = design.next[<<frame[val], InputsOf(val, cycle - 1)>>]
  BY <1>1, <1>2, NextFrameIs DEF TInv
<1>4. TermsOverSymbols'
  <2> SUFFICES ASSUME NEW val \in Valuations, NEW wal \in Valuations, Alike(val, wal)'
               PROVE  /\ frame'[val] = frame'[wal]
                      /\ \A x \in DOMAIN termmap' : termmap'[x][val] = termmap'[x][wal]
    BY DEF TermsOverSymbols
  <2>1. Alike(val, wal)
    BY <1>1 DEF Alike
  <2>2. InputsOf(val, cycle - 1) = InputsOf(wal, cycle - 1)
    BY <1>2, <2>1, SameInputs
  <2> QED BY <1>1, <1>3, <2>1, <2>2 DEF TermsOverSymbols
<1>5. ASSUME base = 0, NEW val \in Valuations, NEW run, Matches(run, val),
             NEW longer \in DesignRuns(design, now + 1),
             \A k \in 0 .. now : longer.r[k] = run.r[k] /\ longer.in[k] = run.in[k]
      PROVE  Matches(longer, val)'
  <2>1. now \in Nat /\ now = cycle - 1
    BY <1>1, <1>2, <1>5, NowFollows
  <2>2. frame'[val] = longer.r[now']
    BY <1>1, <1>2, <1>3, <1>5, NextMatches
  <2>3. longer.r[0] = val["r"]
    BY <1>5, <2>1 DEF Matches
  <2>4. \A k \in 0 .. now' : k < cycle => longer.in[k] = InputsOf(val, k)
    BY <1>1, <1>2, <1>5, <2>1 DEF Matches
  <2>5. ASSUME NEW x \in DOMAIN termmap
        PROVE  termmap[x][val] = ValueIn(longer, x)
    <3>1. x[2] \in 0 .. now
      BY <2>1, <2>5 DEF TInv, Typed, RecordedSoFar
    <3> QED BY <1>5, <3>1, SameValueIn DEF Matches
  <2> QED BY <1>1, <2>2, <2>3, <2>4, <2>5 DEF Matches, InputsOf, InputTerm
<1>6. ASSUME base = 0, ValuationsAreRuns, NEW val \in Valuations
      PROVE  \E run \in DesignRuns(design, now + 1) : Matches(run, val)'
  <2>1. PICK run \in DesignRuns(design, now) : Matches(run, val)
    BY <1>6 DEF ValuationsAreRuns
  <2>2. now \in 0 .. MaxFrames /\ now \in Nat /\ design \in Designs
    BY DEF TInv, Typed
  <2> DEFINE in == InputsOf(val, cycle - 1)
  <2>3. in \in InputsAt /\ \A v \in Reset : in[v] = ResetValue
    BY <1>2, InputsOfIs DEF Assigned
  <2> HIDE DEF in
  <2>4. PICK longer \in DesignRuns(design, now + 1) :
          \A k \in 0 .. now : longer.r[k] = run.r[k] /\ longer.in[k] = run.in[k]
    BY <2>2, <2>3, RunGoesOn
  <2> QED BY <1>5, <1>6, <2>1, <2>4
<1>7. ASSUME base = 0, RunsAreValuations, NEW longer \in DesignRuns(design, now + 1)
      PROVE  \E val \in Valuations : Matches(longer, val)'
  <2>1. PICK run \in DesignRuns(design, now) :
          \A k \in 0 .. now : run.r[k] = longer.r[k] /\ run.in[k] = longer.in[k]
    BY RunBegins DEF TInv, Typed
  <2>2. PICK val \in Valuations : Matches(run, val)
    BY <1>7 DEF RunsAreValuations
  <2> QED BY <1>5, <1>7, <2>1, <2>2
<1>8. base = 0 /\ ValuationsAreRuns => ValuationsAreRuns'
  BY <1>1, <1>6 DEF ValuationsAreRuns
<1>9. base = 0 /\ RunsAreValuations => RunsAreValuations'
  BY <1>1, <1>7 DEF RunsAreValuations
<1> QED BY <1>4, <1>8, <1>9

\* The other actions leave the simulator, the loop and its terms alone.
LEMMA OthersKeepRuns ==
  ASSUME UNCHANGED <<design, syms, now, frame, base, cycle, termmap>>
  PROVE  /\ TermsOverSymbols => TermsOverSymbols'
         /\ ValuationsAreRuns => ValuationsAreRuns'
         /\ RunsAreValuations => RunsAreValuations'
<1>1. ASSUME NEW run, NEW val
      PROVE  Matches(run, val)' <=> Matches(run, val)
  BY DEF Matches, InputsOf, InputTerm
<1>2. TermsOverSymbols => TermsOverSymbols'
  BY DEF TermsOverSymbols, Alike
<1>3. ValuationsAreRuns => ValuationsAreRuns'
  BY <1>1 DEF ValuationsAreRuns
<1>4. RunsAreValuations => RunsAreValuations'
  BY <1>1 DEF RunsAreValuations
<1> QED BY <1>2, <1>3, <1>4

\* So does the first checker, when it begins.
LEMMA ConstructKeepsRuns ==
  ASSUME TInv, TermsOverSymbols, NEW a \in Assertions, Construct(a)
  PROVE  /\ TermsOverSymbols'
         /\ cycle = 0 /\ ValuationsAreRuns => ValuationsAreRuns'
         /\ cycle = 0 /\ RunsAreValuations => RunsAreValuations'
<1>1. /\ UNCHANGED <<design, syms, now, frame>> /\ cycle' = 0 /\ DOMAIN termmap' = {}
  BY DEF Construct
<1>2. TermsOverSymbols'
  BY <1>1 DEF TermsOverSymbols, Alike
<1>3. ASSUME NEW run, NEW val, cycle = 0, Matches(run, val)
      PROVE  Matches(run, val)'
  BY <1>1, <1>3 DEF Matches, TInv, Typed
<1>4. cycle = 0 /\ ValuationsAreRuns => ValuationsAreRuns'
  BY <1>1, <1>3 DEF ValuationsAreRuns
<1>5. cycle = 0 /\ RunsAreValuations => RunsAreValuations'
  BY <1>1, <1>3 DEF RunsAreValuations
<1> QED BY <1>2, <1>4, <1>5

LEMMA NextKeepsFInv == FInv /\ [Next]_tavars => FInv'
<1> SUFFICES ASSUME FInv, [Next]_tavars PROVE FInv'
  OBVIOUS
<1>1. TInv /\ TermsOverSymbols /\ TInv' /\ checks \in Nat
  BY NextKeepsTInv DEF FInv, TInv, Typed
<1>2. checks <= 1 => FirstCheck /\ ValuationsAreRuns /\ RunsAreValuations /\ Asserted /\ Answered
  BY DEF FInv
<1>3. CASE UNCHANGED tavars
  BY <1>1, <1>2, <1>3, OthersKeepRuns
    DEF tavars, FInv, FirstCheck, Asserted, Answered, Substituted
<1>4. ASSUME NEW a \in Assertions, Construct(a)
      PROVE  FInv'
  <2>1. /\ base' = now /\ cycle' = 0 /\ verdict' = "none" /\ checks' = checks + 1
        /\ pc' = "simulating" /\ negated' = negated
    BY <1>4 DEF Construct
  <2>2. CASE checks' <= 1
    <3>1. checks = 0 /\ FirstCheck /\ ValuationsAreRuns /\ RunsAreValuations /\ Asserted
      BY <1>1, <1>2, <2>1, <2>2
    <3>2. cycle = 0 /\ base = 0 /\ now = 0 /\ verdict = "none" /\ pc = "idle"
      BY <1>1, <3>1 DEF FirstCheck, TInv, Typed, Clocked
    <3>3. FirstCheck' /\ Asserted' /\ Answered'
      BY <2>1, <2>2, <3>1, <3>2 DEF FirstCheck, Asserted, Answered
    <3> QED BY <1>1, <1>4, <3>1, <3>2, <3>3, ConstructKeepsRuns DEF FInv
  <2>3. CASE ~(checks' <= 1)
    BY <1>1, <1>4, <2>3, ConstructKeepsRuns DEF FInv
  <2> QED BY <2>2, <2>3
<1>5. CASE SimCycle
  <2>1. /\ pc = "simulating"
        /\ UNCHANGED <<design, assertion, base, negated, verdict, checks, pc>>
    BY <1>5 DEF SimCycle
  <2>2. TermsOverSymbols'
    BY <1>1, <1>5, CycleKeepsTermsOverSymbols
  <2>3. ASSUME checks <= 1
        PROVE  (FirstCheck /\ ValuationsAreRuns /\ RunsAreValuations /\ Asserted /\ Answered)'
    <3>1. FirstCheck /\ ValuationsAreRuns /\ RunsAreValuations /\ Asserted
      BY <1>2, <2>3
    <3>2. base = 0 /\ verdict = "none" /\ checks # 0
      BY <2>1, <3>1 DEF FirstCheck
    <3>3. ValuationsAreRuns' /\ RunsAreValuations'
      BY <1>1, <1>5, <3>1, <3>2, CycleKeepsRuns
    <3>4. FirstCheck' /\ Asserted' /\ Answered'
      BY <2>1, <3>1, <3>2 DEF FirstCheck, Asserted, Answered
    <3> QED BY <3>3, <3>4
  <2> QED BY <1>1, <2>1, <2>2, <2>3 DEF FInv
<1>6. CASE SimFails
  BY <1>1, <1>2, <1>6, OthersKeepRuns
    DEF SimFails, sim, FInv, FirstCheck, Asserted, Answered
<1>7. CASE SimDone
  BY <1>1, <1>2, <1>7, OthersKeepRuns
    DEF SimDone, sim, FInv, FirstCheck, Asserted, Answered
<1>8. CASE assert_formula
  <2>1. /\ pc = "simulated" /\ pc' = "asserted" /\ negated' = negated \ Substituted
        /\ UNCHANGED <<assertion, base, cycle, termmap, verdict, checks>>
    BY <1>8 DEF assert_formula, NowNegated
  <2>2. checks <= 1 => FirstCheck' /\ Asserted' /\ Answered'
    BY <1>2, <2>1 DEF FirstCheck, Asserted, Answered, Substituted
  <2> QED BY <1>1, <1>2, <1>8, <2>1, <2>2, OthersKeepRuns DEF assert_formula, sim, FInv
<1>9. CASE check_sat
  <2>1. /\ pc = "asserted" /\ pc' = "answered" /\ negated' = negated
        /\ verdict' = (IF negated = {} THEN "correct" ELSE "counterexample")
        /\ UNCHANGED <<assertion, base, cycle, termmap, checks>>
    BY <1>9 DEF check_sat
  <2>2. checks <= 1 => FirstCheck' /\ Asserted' /\ Answered'
    BY <1>2, <2>1 DEF FirstCheck, Asserted, Answered, Substituted
  <2> QED BY <1>1, <1>2, <1>9, <2>1, <2>2, OthersKeepRuns DEF check_sat, sim, FInv
<1>10. CASE CallerSteps
  <2>1. /\ pc = "answered" /\ pc' = "idle"
        /\ UNCHANGED <<assertion, base, cycle, termmap, negated, verdict, checks>>
    BY <1>10 DEF CallerSteps
  <2>2. checks <= 1 => FirstCheck' /\ Asserted' /\ Answered'
    BY <1>2, <2>1 DEF FirstCheck, Asserted, Answered, Substituted
  <2> QED BY <1>1, <1>2, <1>10, <2>1, <2>2, CallerKeepsRuns DEF FInv, FirstCheck
<1> QED BY <1>3, <1>4, <1>5, <1>6, <1>7, <1>8, <1>9, <1>10 DEF Next

LEMMA InitFInv == Init => FInv
<1> SUFFICES ASSUME Init PROVE FInv
  OBVIOUS
<1>1. /\ design \in Designs /\ syms = {"r"} \cup Inputs /\ now = 0 /\ cycle = 0 /\ base = 0
      /\ frame = [val \in Valuations |-> val["r"]] /\ DOMAIN termmap = {}
      /\ negated = Valuations /\ verdict = "none" /\ checks = 0 /\ pc = "idle"
  BY DEF Init
<1>2. "r" \in Symbols
  BY DEF Symbols
<1>3. TInv
  BY InitTInv
<1>4. TermsOverSymbols
  BY <1>1, <1>2 DEF TermsOverSymbols, Alike
<1>5. FirstCheck /\ Asserted /\ Answered
  BY <1>1 DEF FirstCheck, Asserted, Answered
<1>6. ASSUME NEW val \in Valuations
      PROVE  \E run \in DesignRuns(design, now) : Matches(run, val)
  <2> DEFINE in == [v \in Assigned |-> ResetValue]
             run == [r |-> [k \in 0 .. 0 |-> val["r"]], in |-> [k \in 0 .. 0 |-> in]]
  <2>1. val["r"] \in Values /\ in \in InputsAt
    BY <1>2 DEF Valuations, Values, ResetValue, InputsAt
  <2>2. \A v \in Reset : in[v] = ResetValue
    BY DEF Assigned
  <2> HIDE DEF in
  <2>3. run \in DesignRuns(design, 0)
    BY <2>1, <2>2 DEF DesignRuns
  <2>4. run.r[0] = val["r"]
    OBVIOUS
  <2> HIDE DEF run
  <2>5. Matches(run, val)
    BY <1>1, <2>4 DEF Matches
  <2> QED BY <1>1, <2>3, <2>5
<1>7. ASSUME NEW run \in DesignRuns(design, now)
      PROVE  \E val \in Valuations : Matches(run, val)
  <2> DEFINE val == [s \in Symbols |-> run.r[0]]
  <2>1. run.r[0] \in Values
    BY <1>1, RunIs
  <2>2. val \in Valuations /\ val["r"] = run.r[0]
    BY <1>2, <2>1 DEF Valuations
  <2>3. Matches(run, val)
    BY <1>1, <2>2 DEF Matches
  <2> QED BY <2>2, <2>3
<1> QED BY <1>3, <1>4, <1>5, <1>6, <1>7 DEF FInv, ValuationsAreRuns, RunsAreValuations

LEMMA VerdictInvariance == Spec => []FInv
<1> QED BY InitFInv, NextKeepsFInv, PTL DEF Spec

\* What the first check calls correct holds on all runs, however the design is
\* constrained; and where nothing is constrained, what holds on all runs is
\* called correct.
THEOREM FirstVerdictIsRight == Spec => []FirstVerdictRight
<1>1. FInv => FirstVerdictRight
  <2> SUFFICES ASSUME FInv PROVE FirstVerdictRight
    OBVIOUS
  <2>1. TInv
    BY DEF FInv
  <2>2. TATypeOK
    BY <2>1 DEF TATypeOK, TInv, Typed, Verdicts, Clocked, RecordedSoFar
  <2>3. ASSUME verdict # "none", checks = 1
        PROVE  /\ verdict = "correct" => AlwaysCorrect
               /\ design.init = Values /\ design.constraint = Values \X InputsAt
                    => (AlwaysCorrect => verdict = "correct")
    <3>1. /\ base = 0 /\ ValuationsAreRuns /\ RunsAreValuations
          /\ negated = Valuations \ Substituted
          /\ verdict = "correct" <=> negated = {}
      BY <2>3 DEF FInv, FirstCheck, Asserted, Answered
    <3>2. DOMAIN termmap = assertion.vars
      <4>1. cycle > max_cycle /\ cycle \in Nat
        BY <2>1, <2>3 DEF TInv, RecordedSoFar, Typed
      <4>2. max_cycle \in Nat /\ \A x \in assertion.vars : x[2] <= max_cycle /\ x[2] \in Nat
        BY <2>1, MaxCycleBounds DEF TInv, Typed
      <4> QED BY <2>1, <4>1, <4>2 DEF TInv, RecordedSoFar
    <3>3. ASSUME NEW run, NEW val \in Valuations, Matches(run, val)
          PROVE  True(run) <=> val \in Substituted
      <4>1. \A x \in assertion.vars : 0 + x[2] = x[2]
        BY <2>1 DEF TInv, Typed
      <4>2. \A x \in assertion.vars :
              termmap[x][val] = IF x[1] = "r" THEN run.r[base + x[2]]
                                              ELSE run.in[base + x[2]][x[1]]
        BY <3>1, <3>2, <3>3, <4>1 DEF Matches, ValueIn
      <4>3. [x \in assertion.vars |-> termmap[x][val]]
              = [x \in assertion.vars |-> IF x[1] = "r" THEN run.r[base + x[2]]
                                                        ELSE run.in[base + x[2]][x[1]]]
        BY <4>2
      <4> QED BY <4>3 DEF True, Substituted
    <3>4. ASSUME verdict = "correct", NEW run \in Runs
          PROVE  True(run)
      <4>1. run \in DesignRuns(design, now)
        BY DEF Runs, DesignRuns
      <4>2. PICK val \in Valuations : Matches(run, val)
        BY <3>1, <4>1 DEF RunsAreValuations
      <4> QED BY <3>1, <3>3, <3>4, <4>2
    <3>5. ASSUME design.init = Values, design.constraint = Values \X InputsAt, AlwaysCorrect,
                 NEW val \in Valuations
          PROVE  val \in Substituted
      <4>1. PICK run \in DesignRuns(design, now) : Matches(run, val)
        BY <3>1 DEF ValuationsAreRuns
      <4>2. /\ now \in Nat
            /\ \A k \in 0 .. now : /\ run.r[k] \in Values /\ run.in[k] \in InputsAt
                                   /\ \A v \in Reset : run.in[k][v] = ResetValue
        BY <2>1, RunIs DEF TInv, Typed
      <4>3. run \in Runs
        BY <3>5, <4>2 DEF Runs, DesignRuns
      <4> QED BY <3>3, <3>5, <4>1, <4>3 DEF AlwaysCorrect
    <3> QED BY <3>1, <3>4, <3>5 DEF AlwaysCorrect
  <2> QED BY <2>2, <2>3 DEF FirstVerdictRight
<1> QED BY <1>1, VerdictInvariance, PTL
=============================================================================

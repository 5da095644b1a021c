---------------------------- MODULE SequenceFacts ----------------------------
(***************************************************************************)
(* Facts about numbers and sequences that the proofs of this project need. *)
(* Induction is by least counterexample: a statement about all numbers is  *)
(* stated as membership in a set, which needs no operator parameter.       *)
(***************************************************************************)
EXTENDS SequencesExt, Integers, TLAPS, WellFoundedInduction, FiniteSetTheorems

(***************************************************************************)
(* Numbers                                                                 *)
(***************************************************************************)

\* A non-empty set of natural numbers has a least element.
LEMMA MinOfNats ==
  ASSUME NEW S \in SUBSET Nat, S # {}
  PROVE  Min(S) \in S /\ \A y \in S : Min(S) <= y
<1> DEFINE R == OpToRel(<, Nat)
<1>1. IsWellFoundedOn(R, Nat)
  BY NatLessThanWellFounded
<1>2. PICK m \in S : \A y \in S : ~ (<<y, m>> \in R)
  <2> HIDE DEF R
  <2> QED BY <1>1, WFMin
<1>3. \A k, y \in Nat : <<y, k>> \in R <=> y < k
  BY DEF OpToRel
<1>4. \A y \in S : m <= y
  <2> TAKE y \in S
  <2>1. m \in Nat /\ y \in Nat
    OBVIOUS
  <2>2. ~ (y < m)
    <3> HIDE DEF R
    <3> QED BY <1>2, <1>3, <2>1
  <2> QED BY <2>1, <2>2
<1> QED BY <1>4 DEF Min

\* A set that contains 0 and with each number the next one contains all.
LEMMA SetInduction ==
  ASSUME NEW S, 0 \in S, \A k \in Nat : k \in S => k + 1 \in S
  PROVE  \A k \in Nat : k \in S
<1> DEFINE Bad == {k \in Nat : k \notin S}
<1> SUFFICES ASSUME Bad # {} PROVE FALSE
  OBVIOUS
<1> DEFINE m == Min(Bad)
<1>1. m \in Bad /\ \A y \in Bad : m <= y
  <2> Bad \in SUBSET Nat
    OBVIOUS
  <2> HIDE DEF Bad
  <2> QED BY MinOfNats
<1> HIDE DEF m
<1>2. m \in Nat /\ m # 0
  BY <1>1
<1>3. m - 1 \in Nat /\ m - 1 \in S
  BY <1>1, <1>2
<1> QED BY <1>1, <1>2, <1>3

\* A non-empty finite set of natural numbers has a greatest element.
LEMMA MaxOfNats ==
  ASSUME NEW T \in SUBSET Nat, IsFiniteSet(T), T # {}
  PROVE  Max(T) \in T /\ \A y \in T : y <= Max(T)
<1> DEFINE Bounded(U) == \E m \in U : \A y \in U : m >= y
           S == {k \in Nat : \A U \in SUBSET Nat :
                   IsFiniteSet(U) /\ Cardinality(U) = k + 1 => Bounded(U)}
<1>1. 0 \in S
  <2>1. ASSUME NEW U \in SUBSET Nat, IsFiniteSet(U), Cardinality(U) = 1
        PROVE  Bounded(U)
    <3>1. PICK x : U = {x}
      BY <2>1, FS_Singleton
    <3> QED BY <3>1
  <2> QED BY <2>1
<1>2. ASSUME NEW k \in Nat, k \in S
      PROVE  k + 1 \in S
  <2> SUFFICES ASSUME NEW U \in SUBSET Nat, IsFiniteSet(U), Cardinality(U) = k + 1 + 1
               PROVE  Bounded(U)
    OBVIOUS
  <2>1. U # {}
    BY FS_EmptySet
  <2>2. PICK x \in U : TRUE
    BY <2>1
  <2>3. IsFiniteSet(U \ {x}) /\ Cardinality(U \ {x}) = k + 1
    BY FS_RemoveElement
  <2>4. PICK m \in U \ {x} : \A y \in U \ {x} : m >= y
    BY <1>2, <2>3
  <2>5. CASE m >= x
    BY <2>4, <2>5
  <2>6. CASE ~(m >= x)
    <3>1. \A y \in U : x >= y
      BY <2>4, <2>6
    <3> QED BY <2>2, <3>1
  <2> QED BY <2>5, <2>6
<1> HIDE DEF S
<1>3. \A k \in Nat : k \in S
  BY <1>1, <1>2, SetInduction
<1> USE DEF S
<1>4. Cardinality(T) \in Nat /\ Cardinality(T) # 0
  BY FS_CardinalityType, FS_EmptySet
<1>5. Cardinality(T) - 1 \in S
  BY <1>3, <1>4
<1>6. Bounded(T)
  BY <1>4, <1>5
<1>7. Max(T) \in T /\ \A y \in T : Max(T) >= y
  BY <1>6 DEF Max
<1> QED BY <1>7

-----------------------------------------------------------------------------
(***************************************************************************)
(* Flattening a sequence of sequences                                      *)
(***************************************************************************)

\* The recursive function in FlattenSeq exists.
LEMMA FlattenExists ==
  ASSUME NEW seqs, Len(seqs) \in Nat
  PROVE  \E g : g = [i \in 1 .. Len(seqs) |->
                       IF i = 1 THEN seqs[i] ELSE g[i - 1] \o seqs[i]]
<1> DEFINE Defined(k) == \E g : g = [i \in 1 .. k |->
                             IF i = 1 THEN seqs[i] ELSE g[i - 1] \o seqs[i]]
           S == {k \in Nat : Defined(k)}
<1>1. 0 \in S
  <2>1. <<>> = [i \in 1 .. 0 |-> IF i = 1 THEN seqs[i] ELSE <<>>[i - 1] \o seqs[i]]
    OBVIOUS
  <2> QED BY <2>1
<1>2. ASSUME NEW k \in Nat, k \in S
      PROVE  k + 1 \in S
  <2>1. PICK g : g = [i \in 1 .. k |->
                        IF i = 1 THEN seqs[i] ELSE g[i - 1] \o seqs[i]]
    BY <1>2
  <2> DEFINE h == [i \in 1 .. k + 1 |->
                     IF i <= k THEN g[i]
                     ELSE IF i = 1 THEN seqs[i] ELSE g[k] \o seqs[i]]
  <2>2. \A i \in 1 .. k : g[i] = IF i = 1 THEN seqs[i] ELSE g[i - 1] \o seqs[i]
    BY <2>1
  <2>3. \A i \in 1 .. k + 1 :
          h[i] = IF i = 1 THEN seqs[i] ELSE h[i - 1] \o seqs[i]
    BY <2>2
  <2>4. h = [i \in 1 .. k + 1 |->
               IF i = 1 THEN seqs[i] ELSE h[i - 1] \o seqs[i]]
    BY <2>3
  <2>5. Defined(k + 1)
    <3> HIDE DEF h
    <3> QED BY <2>4
  <2> HIDE DEF Defined
  <2> QED BY <2>5
<1>3. \A k \in Nat : k \in S
  <2> HIDE DEF S
  <2> QED BY <1>1, <1>2, SetInduction
<1> QED BY <1>3

\* The partial results of FlattenSeq, and what FlattenSeq is.
LEMMA FlattenUnfold ==
  ASSUME NEW X, NEW seqs \in Seq(Seq(X)), seqs # <<>>
  PROVE  \E g : /\ FlattenSeq(seqs) = g[Len(seqs)]
                /\ g[1] = seqs[1]
                /\ \A i \in 2 .. Len(seqs) : g[i] = g[i - 1] \o seqs[i]
<1> DEFINE g == CHOOSE f : f = [i \in 1 .. Len(seqs) |->
                       IF i = 1 THEN seqs[i] ELSE f[i - 1] \o seqs[i]]
<1>0. Len(seqs) \in Nat \ {0}
  OBVIOUS
<1>1. g = [i \in 1 .. Len(seqs) |->
             IF i = 1 THEN seqs[i] ELSE g[i - 1] \o seqs[i]]
  BY <1>0, FlattenExists
<1>2. FlattenSeq(seqs) = g[Len(seqs)]
  BY <1>0 DEF FlattenSeq
<1> HIDE DEF g
<1>3. g[1] = seqs[1]
  BY <1>0, <1>1
<1>4. \A i \in 2 .. Len(seqs) : g[i] = g[i - 1] \o seqs[i]
  <2> TAKE i \in 2 .. Len(seqs)
  <2>1. i \in 1 .. Len(seqs) /\ i # 1
    BY <1>0
  <2> DEFINE body(j) == IF j = 1 THEN seqs[j] ELSE g[j - 1] \o seqs[j]
  <2>2. g = [j \in 1 .. Len(seqs) |-> body(j)]
    BY <1>1
  <2>3. g[i] = body(i)
    <3> HIDE DEF body
    <3> QED BY <2>1, <2>2
  <2> QED BY <2>1, <2>3
<1> QED BY <1>2, <1>3, <1>4

\* Flattening a sequence of sequences over X gives a sequence over X.
LEMMA FlattenType ==
  ASSUME NEW X, NEW seqs \in Seq(Seq(X))
  PROVE  FlattenSeq(seqs) \in Seq(X)
<1>1. CASE seqs = <<>>
  BY <1>1 DEF FlattenSeq
<1>2. CASE seqs # <<>>
  <2>0. Len(seqs) \in Nat \ {0} /\ \A i \in 1 .. Len(seqs) : seqs[i] \in Seq(X)
    BY <1>2
  <2>1. PICK g : /\ FlattenSeq(seqs) = g[Len(seqs)]
                 /\ g[1] = seqs[1]
                 /\ \A i \in 2 .. Len(seqs) : g[i] = g[i - 1] \o seqs[i]
    BY <1>2, FlattenUnfold
  <2> DEFINE S == {k \in Nat : k + 1 \in 1 .. Len(seqs) => g[k + 1] \in Seq(X)}
  <2>2. 0 \in S
    BY <2>0, <2>1
  <2>3. ASSUME NEW k \in Nat, k \in S
        PROVE  k + 1 \in S
    <3> SUFFICES ASSUME k + 2 \in 1 .. Len(seqs) PROVE g[k + 2] \in Seq(X)
      OBVIOUS
    <3>1. g[k + 2] = g[k + 1] \o seqs[k + 2]
      <4>1. k + 2 \in 2 .. Len(seqs) /\ (k + 2) - 1 = k + 1
        BY <2>0
      <4> QED BY <2>1, <4>1
    <3>2. g[k + 1] \in Seq(X) /\ seqs[k + 2] \in Seq(X)
      BY <2>0, <2>3
    <3> QED BY <3>1, <3>2
  <2>4. \A k \in Nat : k \in S
    <3> HIDE DEF S
    <3> QED BY <2>2, <2>3, SetInduction
  <2>5. Len(seqs) - 1 \in S
    <3>1. Len(seqs) - 1 \in Nat
      BY <2>0
    <3> HIDE DEF S
    <3> QED BY <2>4, <3>1
  <2> QED BY <2>0, <2>1, <2>5
<1> QED BY <1>1, <1>2

-----------------------------------------------------------------------------
(***************************************************************************)
(* The list on top of a stack of lists                                     *)
(***************************************************************************)

\* Replacing what is on top of a stack.
LEMMA ReplaceLast ==
  ASSUME NEW X, NEW seq \in Seq(X), seq # <<>>, NEW x \in X
  PROVE  /\ [seq EXCEPT ![Len(seq)] = x] \in Seq(X)
         /\ Len([seq EXCEPT ![Len(seq)] = x]) = Len(seq)
         /\ \A k \in 1 .. Len(seq) - 1 : [seq EXCEPT ![Len(seq)] = x][k] = seq[k]
         /\ [seq EXCEPT ![Len(seq)] = x][Len(seq)] = x
  OBVIOUS

\* Sequences of the same length with the same elements are the same.
LEMMA SameSequence ==
  ASSUME NEW X, NEW s \in Seq(X), NEW t \in Seq(X), Len(s) = Len(t),
         \A k \in 1 .. Len(s) : s[k] = t[k]
  PROVE  s = t
  OBVIOUS

\* The top of a non-empty stack.
LEMMA LastType ==
  ASSUME NEW X, NEW seq \in Seq(X), seq # <<>>
  PROVE  Last(seq) \in X /\ Last(seq) = seq[Len(seq)] /\ Len(seq) \in Nat \ {0}
  BY DEF Last

\* A non-empty stack without its top.
LEMMA FrontType ==
  ASSUME NEW X, NEW seq \in Seq(X), seq # <<>>
  PROVE  /\ Front(seq) \in Seq(X)
         /\ Len(Front(seq)) = Len(seq) - 1
         /\ \A k \in 1 .. Len(seq) - 1 : Front(seq)[k] = seq[k]
  BY DEF Front

\* A stack with one more element.
LEMMA AppendType ==
  ASSUME NEW X, NEW seq \in Seq(X), NEW x \in X
  PROVE  /\ Append(seq, x) \in Seq(X)
         /\ Append(seq, x) # <<>>
         /\ Len(Append(seq, x)) = Len(seq) + 1
         /\ \A k \in 1 .. Len(seq) : Append(seq, x)[k] = seq[k]
         /\ Append(seq, x)[Len(seq) + 1] = x
  OBVIOUS

\* A stack of one element.
LEMMA Singleton ==
  ASSUME NEW X, NEW x \in X
  PROVE  /\ <<x>> \in Seq(X) /\ <<x>> # <<>> /\ Len(<<x>>) = 1
         /\ \A k \in 1 .. Len(<<x>>) : k = 1 /\ <<x>>[k] = x
  OBVIOUS

\* The first n elements of a sequence.
LEMMA PrefixType ==
  ASSUME NEW X, NEW seq \in Seq(X), NEW n \in 0 .. Len(seq)
  PROVE  /\ SubSeq(seq, 1, n) \in Seq(X)
         /\ Len(SubSeq(seq, 1, n)) = n
         /\ \A k \in 1 .. n : SubSeq(seq, 1, n)[k] = seq[k]
  OBVIOUS

\* A concatenation, and that cutting it off after the first part undoes it.
LEMMA ConcatType ==
  ASSUME NEW X, NEW s \in Seq(X), NEW t \in Seq(X)
  PROVE  /\ s \o t \in Seq(X)
         /\ Len(s \o t) = Len(s) + Len(t)
         /\ \A k \in 1 .. Len(s) : (s \o t)[k] = s[k]
         /\ \A k \in 1 .. Len(t) : (s \o t)[Len(s) + k] = t[k]
         /\ SubSeq(s \o t, 1, Len(s)) = s
  OBVIOUS

-----------------------------------------------------------------------------
(***************************************************************************)
(* The elements of a flattened sequence                                    *)
(***************************************************************************)

\* A concatenation has the elements of both parts.
LEMMA ConcatElements ==
  ASSUME NEW X, NEW s \in Seq(X), NEW t \in Seq(X)
  PROVE  ToSet(s \o t) = ToSet(s) \cup ToSet(t)
<1> DEFINE u == s \o t
<1>1. /\ Len(u) = Len(s) + Len(t) /\ Len(s) \in Nat /\ Len(t) \in Nat
      /\ \A k \in 1 .. Len(s) : u[k] = s[k]
      /\ \A k \in 1 .. Len(t) : u[Len(s) + k] = t[k]
  BY ConcatType
<1>2. ToSet(u) = {u[i] : i \in 1 .. Len(u)}
  BY ConcatType DEF ToSet
<1>3. ToSet(s) = {s[i] : i \in 1 .. Len(s)} /\ ToSet(t) = {t[i] : i \in 1 .. Len(t)}
  BY DEF ToSet
<1> HIDE DEF u
<1>4. ASSUME NEW i \in 1 .. Len(u)
      PROVE  u[i] \in ToSet(s) \cup ToSet(t)
  <2>1. CASE i \in 1 .. Len(s)
    BY <1>1, <1>3, <2>1
  <2>2. CASE i \notin 1 .. Len(s)
    <3>1. PICK k \in 1 .. Len(t) : i = Len(s) + k
      <4>1. i - Len(s) \in 1 .. Len(t) /\ i = Len(s) + (i - Len(s))
        BY <1>1, <2>2
      <4> QED BY <4>1
    <3> QED BY <1>1, <1>3, <3>1
  <2> QED BY <2>1, <2>2
<1>5. \A k \in 1 .. Len(s) : k \in 1 .. Len(u)
  BY <1>1
<1>6. \A k \in 1 .. Len(t) : Len(s) + k \in 1 .. Len(u)
  BY <1>1
<1>7. ToSet(s) \cup ToSet(t) \subseteq ToSet(u)
  BY <1>1, <1>2, <1>3, <1>5, <1>6
<1>8. ToSet(u) \subseteq ToSet(s) \cup ToSet(t)
  BY <1>2, <1>4
<1> QED BY <1>7, <1>8 DEF u

LEMMA ConcatAssociates ==
  ASSUME NEW X, NEW a \in Seq(X), NEW b \in Seq(X), NEW c \in Seq(X)
  PROVE  a \o (b \o c) = (a \o b) \o c
<1> DEFINE l == a \o (b \o c)
           r == (a \o b) \o c
<1>1. b \o c \in Seq(X) /\ a \o b \in Seq(X) /\ l \in Seq(X) /\ r \in Seq(X)
  OBVIOUS
<1>2. Len(l) = Len(a) + Len(b) + Len(c) /\ Len(r) = Len(l)
  OBVIOUS
<1>3. \A k \in 1 .. Len(l) : l[k] = r[k]
  OBVIOUS
<1> HIDE DEF l, r
<1>4. l = r
  BY <1>1, <1>2, <1>3, SameSequence
<1> QED BY <1>4 DEF l, r

\* What FlattenUnfold says, for each number of parts.
LEMMA FlattenParts ==
  ASSUME NEW X, NEW seqs \in Seq(Seq(X)), seqs # <<>>
  PROVE  \E g : /\ FlattenSeq(seqs) = g[Len(seqs)] /\ g[1] = seqs[1]
                /\ \A k \in Nat : k + 2 \in 1 .. Len(seqs) =>
                     g[k + 2] = g[k + 1] \o seqs[k + 2]
                /\ \A k \in Nat : k + 1 \in 1 .. Len(seqs) => g[k + 1] \in Seq(X)
<1>1. PICK g : /\ FlattenSeq(seqs) = g[Len(seqs)] /\ g[1] = seqs[1]
               /\ \A i \in 2 .. Len(seqs) : g[i] = g[i - 1] \o seqs[i]
  BY FlattenUnfold
<1>2. /\ Len(seqs) \in Nat \ {0}
      /\ \A i \in 1 .. Len(seqs) : seqs[i] \in Seq(X)
  OBVIOUS
<1>3. \A k \in Nat : k + 2 \in 1 .. Len(seqs) => g[k + 2] = g[k + 1] \o seqs[k + 2]
  <2> TAKE k \in Nat
  <2> HAVE k + 2 \in 1 .. Len(seqs)
  <2>1. k + 2 \in 2 .. Len(seqs) /\ (k + 2) - 1 = k + 1
    BY <1>2
  <2> QED BY <1>1, <2>1
<1> DEFINE S == {k \in Nat : k + 1 \in 1 .. Len(seqs) => g[k + 1] \in Seq(X)}
<1>4. 0 \in S
  BY <1>1, <1>2
<1>5. ASSUME NEW k \in Nat, k \in S
      PROVE  k + 1 \in S
  <2> SUFFICES ASSUME k + 2 \in 1 .. Len(seqs) PROVE g[k + 2] \in Seq(X)
    OBVIOUS
  <2>1. g[k + 1] \in Seq(X) /\ seqs[k + 2] \in Seq(X)
    BY <1>2, <1>5
  <2>2. g[k + 2] = g[k + 1] \o seqs[k + 2]
    BY <1>3
  <2> QED BY <2>1, <2>2
<1>6. \A k \in Nat : k \in S
  <2> HIDE DEF S
  <2> QED BY <1>4, <1>5, SetInduction
<1> QED BY <1>1, <1>3, <1>6

\* A flattened sequence has the elements of its parts.
LEMMA FlattenElements ==
  ASSUME NEW X, NEW seqs \in Seq(Seq(X)), NEW k \in 1 .. Len(seqs)
  PROVE  ToSet(seqs[k]) \subseteq ToSet(FlattenSeq(seqs))
<1>1. Len(seqs) \in Nat \ {0} /\ \A i \in 1 .. Len(seqs) : seqs[i] \in Seq(X)
  OBVIOUS
<1>2. PICK g : /\ FlattenSeq(seqs) = g[Len(seqs)] /\ g[1] = seqs[1]
               /\ \A j \in Nat : j + 2 \in 1 .. Len(seqs) =>
                    g[j + 2] = g[j + 1] \o seqs[j + 2]
               /\ \A j \in Nat : j + 1 \in 1 .. Len(seqs) => g[j + 1] \in Seq(X)
  <2>1. seqs # <<>>
    BY <1>1
  <2> QED BY ONLY <2>1, FlattenParts
<1> DEFINE S == {j \in Nat : j + 1 \in 1 .. Len(seqs) =>
                   \A i \in 1 .. j + 1 : ToSet(seqs[i]) \subseteq ToSet(g[j + 1])}
<1>3. 0 \in S
  BY <1>2
<1>4. ASSUME NEW j \in Nat, j \in S
      PROVE  j + 1 \in S
  <2> SUFFICES ASSUME j + 2 \in 1 .. Len(seqs)
               PROVE  \A i \in 1 .. j + 2 : ToSet(seqs[i]) \subseteq ToSet(g[j + 2])
    <3>1. (j + 1) + 1 = j + 2 /\ j + 1 \in Nat
      OBVIOUS
    <3> QED BY <3>1
  <2>1. j + 1 \in 1 .. Len(seqs)
    BY <1>1
  <2>2. g[j + 1] \in Seq(X) /\ seqs[j + 2] \in Seq(X)
    BY <1>1, <1>2, <2>1
  <2>3. ToSet(g[j + 2]) = ToSet(g[j + 1]) \cup ToSet(seqs[j + 2])
    <3>1. g[j + 2] = g[j + 1] \o seqs[j + 2]
      BY <1>2
    <3> QED BY <2>2, <3>1, ConcatElements
  <2>4. \A i \in 1 .. j + 1 : ToSet(seqs[i]) \subseteq ToSet(g[j + 1])
    BY <1>4, <2>1
  <2>5. \A i \in 1 .. j + 2 : i \in 1 .. j + 1 \/ i = j + 2
    OBVIOUS
  <2> QED BY <2>3, <2>4, <2>5
<1>5. \A j \in Nat : j \in S
  <2> HIDE DEF S
  <2> QED BY <1>3, <1>4, SetInduction
<1>6. Len(seqs) - 1 \in Nat /\ (Len(seqs) - 1) + 1 = Len(seqs)
  BY <1>1
<1>7. Len(seqs) - 1 \in S
  <2> HIDE DEF S
  <2> QED BY <1>5, <1>6
<1>8. \A i \in 1 .. Len(seqs) : ToSet(seqs[i]) \subseteq ToSet(g[Len(seqs)])
  BY <1>1, <1>6, <1>7
<1> QED BY <1>2, <1>8

\* What is added to the last part is added to the flattened sequence.
LEMMA FlattenExtended ==
  ASSUME NEW X, NEW s \in Seq(Seq(X)), NEW t \in Seq(Seq(X)), NEW items \in Seq(X),
         s # <<>>, Len(t) = Len(s),
         \A k \in 1 .. Len(s) - 1 : t[k] = s[k],
         t[Len(s)] = s[Len(s)] \o items
  PROVE  FlattenSeq(t) = FlattenSeq(s) \o items
<1> DEFINE n == Len(s)
<1>1. /\ n \in Nat \ {0} /\ t # <<>>
      /\ \A i \in 1 .. n : s[i] \in Seq(X)
  OBVIOUS
<1>2. PICK g : /\ FlattenSeq(s) = g[n] /\ g[1] = s[1]
               /\ \A k \in Nat : k + 2 \in 1 .. n => g[k + 2] = g[k + 1] \o s[k + 2]
               /\ \A k \in Nat : k + 1 \in 1 .. n => g[k + 1] \in Seq(X)
  BY <1>1, FlattenParts
<1>3. PICK h : /\ FlattenSeq(t) = h[n] /\ h[1] = t[1]
               /\ \A k \in Nat : k + 2 \in 1 .. n => h[k + 2] = h[k + 1] \o t[k + 2]
  <2>1. t # <<>>
    BY <1>1
  <2>2. PICK h : /\ FlattenSeq(t) = h[Len(t)] /\ h[1] = t[1]
                 /\ \A k \in Nat : k + 2 \in 1 .. Len(t) =>
                      h[k + 2] = h[k + 1] \o t[k + 2]
                 /\ \A k \in Nat : k + 1 \in 1 .. Len(t) => h[k + 1] \in Seq(X)
    BY ONLY <2>1, t \in Seq(Seq(X)), FlattenParts
  <2> QED BY <2>2
<1> DEFINE S == {k \in Nat : k + 1 \in 1 .. n - 1 => h[k + 1] = g[k + 1]}
<1> HIDE DEF n
<1>4. \A k \in 1 .. n - 1 : t[k] = s[k]
  BY DEF n
<1>5. 0 \in S
  BY <1>1, <1>2, <1>3, <1>4
<1>6. ASSUME NEW k \in Nat, k \in S
      PROVE  k + 1 \in S
  <2> SUFFICES ASSUME k + 2 \in 1 .. n - 1 PROVE h[k + 2] = g[k + 2]
    OBVIOUS
  <2>1. k + 1 \in 1 .. n - 1 /\ k + 2 \in 1 .. n
    BY <1>1
  <2>2. h[k + 1] = g[k + 1] /\ t[k + 2] = s[k + 2]
    BY <1>4, <1>6, <2>1
  <2> QED BY <1>2, <1>3, <2>1, <2>2
<1>7. \A k \in Nat : k \in S
  <2> HIDE DEF S
  <2> QED BY <1>5, <1>6, SetInduction
<1>8. CASE n = 1
  BY <1>2, <1>3, <1>8 DEF n
<1>9. CASE n # 1
  <2>1. /\ n - 2 \in Nat /\ (n - 2) + 1 \in 1 .. n - 1 /\ (n - 2) + 2 \in 1 .. n
        /\ (n - 2) + 1 \in 1 .. n /\ (n - 2) + 2 = n
    BY <1>1, <1>9
  <2>2. h[(n - 2) + 1] = g[(n - 2) + 1]
    BY <1>7, <2>1
  <2>3. h[n] = g[(n - 2) + 1] \o t[n] /\ g[n] = g[(n - 2) + 1] \o s[n]
    BY <1>2, <1>3, <2>1, <2>2
  <2>4. g[(n - 2) + 1] \in Seq(X) /\ s[n] \in Seq(X)
    BY <1>1, <1>2, <2>1
  <2>5. t[n] = s[n] \o items
    BY DEF n
  <2> HIDE DEF S
  <2>6. g[(n - 2) + 1] \o (s[n] \o items) = (g[(n - 2) + 1] \o s[n]) \o items
    <3> DEFINE a == g[(n - 2) + 1]
               b == s[n]
    <3>1. a \in Seq(X) /\ b \in Seq(X) /\ items \in Seq(X)
      BY <2>4
    <3> HIDE DEF a, b
    <3>2. a \o (b \o items) = (a \o b) \o items
      BY ONLY <3>1, ConcatAssociates
    <3> QED BY <3>2 DEF a, b
  <2> QED BY <1>2, <1>3, <2>3, <2>5, <2>6
<1> QED BY <1>8, <1>9
=============================================================================

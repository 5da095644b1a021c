-------------------------- MODULE Traversal_proofs --------------------------
(***************************************************************************)
(* Proofs about the exploration of a design, for all designs and branching *)
(* points: the search over the choices of one state visits each            *)
(* combination of values once; the two traversals follow the documented    *)
(* use of the simulator, whatever the solver answers, give it back as it   *)
(* was, and record no node that cannot be reached.                         *)
(*                                                                         *)
(* The last part says what a copied state stands for: it is described by a *)
(* path of inputs and by what was asked of each, and a model of its path   *)
(* constraints is a way, the cells and the nodes these lead to.           *)
(***************************************************************************)
EXTENDS ChoiceSearch, Traverse, TraverseOneStep, SymSim_proofs
-----------------------------------------------------------------------------
(***************************************************************************)
(* The choices of one state.                                               *)
(*                                                                         *)
(* The values on the stack are a prefix p of a combination.  Settling p    *)
(* and going on to the next choice passes the combinations that p covers   *)
(* and no others: what comes before the new prefix came before p or is     *)
(* covered by it, since the nodes that are popped are at their last value. *)
(***************************************************************************)

LEMMA PowersArePositive == \A w \in 1 .. MaxWidth : 2 ^ w \in Nat \ {0}
<1>1. /\ 2 ^ 1 >= 1  /\ 2 ^ 2 >= 1  /\ 2 ^ 3 >= 1  /\ 2 ^ 4 >= 1  /\ 2 ^ 5 >= 1  /\ 2 ^ 6 >= 1
      /\ 2 ^ 7 >= 1  /\ 2 ^ 8 >= 1  /\ 2 ^ 9 >= 1  /\ 2 ^ 10 >= 1  /\ 2 ^ 11 >= 1  /\ 2 ^ 12 >= 1
      /\ 2 ^ 13 >= 1  /\ 2 ^ 14 >= 1  /\ 2 ^ 15 >= 1  /\ 2 ^ 16 >= 1  /\ 2 ^ 17 >= 1  /\ 2 ^ 18 >= 1
      /\ 2 ^ 19 >= 1  /\ 2 ^ 20 >= 1  /\ 2 ^ 21 >= 1  /\ 2 ^ 22 >= 1  /\ 2 ^ 23 >= 1  /\ 2 ^ 24 >= 1
      /\ 2 ^ 25 >= 1  /\ 2 ^ 26 >= 1  /\ 2 ^ 27 >= 1  /\ 2 ^ 28 >= 1  /\ 2 ^ 29 >= 1  /\ 2 ^ 30 >= 1
  OBVIOUS
<1>2. \A w \in 1 .. 30 : \/ w = 1 \/ w = 2 \/ w = 3 \/ w = 4 \/ w = 5 \/ w = 6 \/ w = 7 \/ w = 8 \/ w = 9 \/ w = 10
                   \/ w = 11 \/ w = 12 \/ w = 13 \/ w = 14 \/ w = 15 \/ w = 16 \/ w = 17 \/ w = 18 \/ w = 19 \/ w = 20
                   \/ w = 21 \/ w = 22 \/ w = 23 \/ w = 24 \/ w = 25 \/ w = 26 \/ w = 27 \/ w = 28 \/ w = 29 \/ w = 30
  OBVIOUS
<1>3. \A w \in Nat : 2 ^ w \in Int
  OBVIOUS
<1>4. \A w \in 1 .. 30 : 2 ^ w >= 1
  BY <1>1, <1>2
<1>5. \A w \in 1 .. 30 : w \in Nat /\ 2 ^ w \in Nat \ {0}
  <2> TAKE w \in 1 .. 30
  <2>1. w \in Nat
    OBVIOUS
  <2>2. 2 ^ w \in Int
    BY <1>3, <2>1
  <2>3. 2 ^ w >= 1
    BY <1>4
  <2> QED BY <2>1, <2>2, <2>3
<1> QED BY <1>5 DEF MaxWidth

\* A set of numbers that has a bound has a greatest element.
LEMMA MaxOfBounded ==
  ASSUME NEW n \in Nat, NEW S \in SUBSET (1 .. n), S # {}
  PROVE  Max(S) \in S /\ \A y \in S : y <= Max(S)
<1> DEFINE T == {k \in Nat : n - k \in S}
<1>1. T \in SUBSET Nat /\ T # {}
  <2>1. PICK y \in S : TRUE
    OBVIOUS
  <2>2. y \in 1 .. n /\ n - y \in Nat /\ n - (n - y) = y
    OBVIOUS
  <2> QED BY <2>1, <2>2
<1>2. PICK k \in T : \A j \in T : k <= j
  BY <1>1, MinOfNats
<1>3. \A y \in S : n - y \in T
  <2> TAKE y \in S
  <2>1. y \in 1 .. n /\ n - y \in Nat /\ n - (n - y) = y
    OBVIOUS
  <2> QED BY <2>1
<1>4. n - k \in S /\ \A y \in S : y <= n - k
  <2>1. n - k \in S /\ k \in Nat
    OBVIOUS
  <2>2. ASSUME NEW y \in S PROVE y <= n - k
    <3>1. k <= n - y /\ y \in 1 .. n
      BY <1>2, <1>3
    <3> QED BY <2>1, <3>1
  <2> QED BY <2>1, <2>2
<1> HIDE DEF T
<1>5. \A x, y \in S : x >= y <=> y <= x
  OBVIOUS
<1> QED BY <1>4, <1>5 DEF Max
-----------------------------------------------------------------------------
\* What StackFollowsPoints says of the stack.
Follows(s) ==
  /\ s \in [stack : Seq(Node), ptr : Nat, no_next_choice : BOOLEAN]
  /\ s.ptr = Len(s.stack)
  /\ Len(s.stack) <= Len(BranchingPoint)
  /\ \A i \in 1 .. Len(s.stack) :
       s.stack[i].point = BranchingPoint[i] /\ s.stack[i].value \in ValuesAt(i)
  /\ s.no_next_choice => s.stack = <<>>

Width(i) == BranchingPoint[i].v_width

LEMMA Points ==
  /\ Len(BranchingPoint) \in Nat
  /\ \A i \in Levels : /\ BranchingPoint[i] \in ToSet(BranchingPoint)
                       /\ Width(i) \in 1 .. MaxWidth
                       /\ 2 ^ Width(i) \in Nat \ {0}
                       /\ ValuesAt(i) = 0 .. 2 ^ Width(i) - 1
<1> DEFINE P == [v_name : STRING, v_width : 1 .. MaxWidth, branch_on_inputvar : BOOLEAN]
<1>1. BranchingPoint \in Seq(P)
  BY BranchingPointAssumption
<1> HIDE DEF P
<1>2. /\ Len(BranchingPoint) \in Nat
      /\ \A i \in Levels : BranchingPoint[i] \in P /\ i \in DOMAIN BranchingPoint
  BY <1>1 DEF Levels
<1>3. \A i \in Levels : BranchingPoint[i] \in ToSet(BranchingPoint)
  BY <1>2 DEF ToSet
<1>4. \A i \in Levels : Width(i) \in 1 .. MaxWidth
  BY <1>2 DEF P, Width
<1>5. \A i \in Levels : 2 ^ Width(i) \in Nat \ {0}
  BY <1>4, PowersArePositive
<1> QED BY <1>2, <1>3, <1>4, <1>5 DEF ValuesAt, Values, Width

\* The next choice keeps the values below some node, moves that node on, and
\* pops the nodes above it, which are all at their last values.
NextAt(s, t, top) ==
  /\ top \in 1 .. Len(s.stack) /\ Len(t.stack) = top
  /\ \A i \in 1 .. top - 1 : t.stack[i] = s.stack[i]
  /\ t.stack[top] = [s.stack[top] EXCEPT !.value = @ + 1]
  /\ HasNext(s.stack[top])
  /\ \A i \in top + 1 .. Len(s.stack) : ~HasNext(s.stack[i])
  /\ t.ptr = top /\ t.no_next_choice = s.no_next_choice

LEMMA NextChoice ==
  ASSUME NEW s, Follows(s), ~s.no_next_choice
  PROVE  \/ /\ \A i \in 1 .. Len(s.stack) : ~HasNext(s.stack[i])
            /\ next_choice(s) = [stack |-> <<>>, ptr |-> 0, no_next_choice |-> TRUE]
         \/ /\ \E top \in 1 .. Len(s.stack) : NextAt(s, next_choice(s), top)
            /\ Follows(next_choice(s))
<1> DEFINE n == Len(s.stack)
           movable == {i \in 1 .. n : HasNext(s.stack[i])}
           top == Max(movable)
           t == next_choice(s)
<1>1. s.stack \in Seq(Node) /\ n \in Nat /\ s.ptr = n
  BY DEF Follows
<1>2. CASE movable = {}
  BY <1>1, <1>2 DEF next_choice
<1>3. CASE movable # {}
  <2>1. top \in movable /\ \A i \in movable : i <= top
    <3> HIDE DEF movable
    <3>1. movable \in SUBSET (1 .. n)
      BY DEF movable
    <3> HIDE DEF n
    <3> QED BY <1>1, <1>3, <3>1, MaxOfBounded
  <2> DEFINE q == SubSeq(s.stack, 1, top)
  <2>2. /\ t.stack = [q EXCEPT ![top].value = @ + 1]
        /\ t.ptr = s.ptr - (n - top) /\ t.no_next_choice = s.no_next_choice
        /\ t = [stack |-> t.stack, ptr |-> t.ptr, no_next_choice |-> t.no_next_choice]
    BY <1>1, <1>3 DEF next_choice
  <2> HIDE DEF top, t
  <2>3. top \in 1 .. n /\ HasNext(s.stack[top]) /\ top \in Nat /\ n - (n - top) = top
    BY <1>1, <2>1
  <2>4. \A i \in top + 1 .. n : ~HasNext(s.stack[i])
    <3> TAKE i \in top + 1 .. n
    <3>1. i \in 1 .. n /\ ~(i <= top)
      BY <1>1, <2>3
    <3> QED BY <2>1, <3>1
  <2> HIDE DEF movable
  <2> DEFINE x == [s.stack[top] EXCEPT !.value = @ + 1]
  <2>5. /\ q \in Seq(Node) /\ Len(q) = top
        /\ \A i \in 1 .. top : q[i] = s.stack[i]
    BY <1>1, <2>3, PrefixType
  <2>6. s.stack[top] \in Node /\ x \in Node /\ top \in Levels
    <3>1. s.stack[top] \in Node
      BY <1>1, <2>3
    <3>2. x \in Node
      BY <3>1 DEF Node
    <3>3. top \in Levels
      BY <1>1, <2>3, Points DEF Follows, Levels
    <3> QED BY <3>1, <3>2, <3>3
  <2>7. /\ t.stack = [q EXCEPT ![top] = x] /\ t.ptr = top
        /\ t.no_next_choice = s.no_next_choice
        /\ t = [stack |-> t.stack, ptr |-> t.ptr, no_next_choice |-> t.no_next_choice]
    <3>1. [q EXCEPT ![top].value = @ + 1] = [q EXCEPT ![top] = [q[top] EXCEPT !.value = @ + 1]]
      <4> HIDE DEF q
      <4> QED OBVIOUS
    <3>2. q[top] = s.stack[top]
      BY <2>3, <2>5
    <3> QED BY <1>1, <2>2, <2>3, <3>1, <3>2
  <2> HIDE DEF q, x
  <2>8. /\ t.stack \in Seq(Node) /\ Len(t.stack) = top /\ t.stack[top] = x
        /\ \A i \in 1 .. top - 1 : t.stack[i] = q[i]
    BY <2>3, <2>5, <2>6, <2>7
  <2>9. NextAt(s, t, top)
    BY <2>3, <2>4, <2>5, <2>7, <2>8 DEF NextAt, x
  <2>10. x.point = s.stack[top].point /\ x.value = s.stack[top].value + 1
    BY <2>6 DEF x, Node
  <2>11. x.value \in ValuesAt(top)
    <3>1. s.stack[top].value \in ValuesAt(top) /\ s.stack[top].point = BranchingPoint[top]
      BY <2>3 DEF Follows
    <3>2. s.stack[top].value + 1 # 2 ^ Width(top)
      BY <2>3, <3>1 DEF HasNext, Width
    <3> QED BY <2>6, <2>10, <3>1, <3>2, Points
  <2>12. Follows(t)
    <3>1. \A i \in 1 .. top - 1 : i \in 1 .. n /\ t.stack[i] = s.stack[i]
      BY <1>1, <2>3, <2>5, <2>8
    <3>2. \A i \in 1 .. top :
            t.stack[i].point = BranchingPoint[i] /\ t.stack[i].value \in ValuesAt(i)
      <4> TAKE i \in 1 .. top
      <4>1. i = top \/ i \in 1 .. top - 1
        BY <2>3
      <4> QED BY <2>3, <2>8, <2>10, <2>11, <3>1, <4>1 DEF Follows
    <3>3. top <= Len(BranchingPoint)
      BY <2>3, Points DEF Follows
    <3> QED BY <2>3, <2>7, <2>8, <3>2, <3>3 DEF Follows
  <2> QED BY <2>3, <2>9, <2>12 DEF t
<1> QED BY <1>2, <1>3
-----------------------------------------------------------------------------
LEMMA PrefixFacts ==
  ASSUME NEW s, Follows(s)
  PROVE  /\ Prefix(s) \in Seq(Nat) /\ Len(Prefix(s)) = Len(s.stack)
         /\ Len(s.stack) \in Nat
         /\ \A i \in 1 .. Len(s.stack) : i \in Levels /\ Prefix(s)[i] = s.stack[i].value
<1>1. s.stack \in Seq(Node) /\ Len(s.stack) \in Nat
  BY DEF Follows
<1>2. \A i \in 1 .. Len(s.stack) : s.stack[i] \in Node
  BY <1>1
<1>3. \A i \in 1 .. Len(s.stack) : s.stack[i].value \in Nat
  BY <1>2 DEF Node
<1>4. \A i \in 1 .. Len(s.stack) : i \in Levels
  BY <1>1, Points DEF Follows, Levels
<1> QED BY <1>1, <1>3, <1>4 DEF Prefix

\* The values of a combination are numbers, and none is greater than the last
\* value of a node.
LEMMA CellFacts ==
  ASSUME NEW s, Follows(s), NEW c \in Cells, NEW i \in 1 .. Len(s.stack)
  PROVE  /\ c[i] \in Nat /\ Prefix(s)[i] \in Nat
         /\ ~HasNext(s.stack[i]) => c[i] <= Prefix(s)[i]
<1>1. i \in Levels /\ Prefix(s)[i] = s.stack[i].value
  BY PrefixFacts
<1>2. /\ s.stack[i].value \in ValuesAt(i) /\ s.stack[i].point = BranchingPoint[i]
      /\ c[i] \in ValuesAt(i)
  BY <1>1 DEF Follows, Cells
<1>3. 2 ^ Width(i) \in Nat \ {0} /\ ValuesAt(i) = 0 .. 2 ^ Width(i) - 1
  BY <1>1, Points
<1>4. ~HasNext(s.stack[i]) => s.stack[i].value + 1 = 2 ^ Width(i)
  BY <1>2 DEF HasNext, Width
<1> HIDE DEF Width
<1> QED BY <1>1, <1>2, <1>3, <1>4

LEMMA Exclusive ==
  ASSUME NEW s, Follows(s), NEW c \in Cells, Before(c, Prefix(s))
  PROVE  ~Covers(Prefix(s), c)
<1>1. PICK i \in 1 .. Len(Prefix(s)) : c[i] < Prefix(s)[i]
  BY DEF Before
<1>2. c[i] \in Nat /\ Prefix(s)[i] \in Nat
  BY PrefixFacts, CellFacts
<1> QED BY <1>1, <1>2 DEF Covers

\* From a place on, nodes at their last value: what agrees with the prefix below
\* is before it or covered.
LEMMA LastNodes ==
  ASSUME NEW s, Follows(s), NEW c \in Cells, NEW k \in Nat \ {0},
         \A i \in 1 .. k - 1 : i \in 1 .. Len(s.stack) => Prefix(s)[i] = c[i],
         \A i \in k .. Len(s.stack) : ~HasNext(s.stack[i])
  PROVE  Before(c, Prefix(s)) \/ Covers(Prefix(s), c)
<1> DEFINE p == Prefix(s)
           n == Len(s.stack)
<1>0. n \in Nat /\ Len(p) = n
  BY PrefixFacts
<1> SUFFICES ASSUME ~Covers(p, c) PROVE Before(c, p)
  OBVIOUS
<1>1. PICK i \in 1 .. n : p[i] # c[i]
  BY <1>0 DEF Covers
<1>2. i \in k .. n
  <2>1. ~(i \in 1 .. k - 1)
    BY <1>1
  <2> QED BY <1>0, <1>1, <2>1
<1>3. \E m \in k .. n : p[m] # c[m] /\ \A j \in k .. m - 1 : p[j] = c[j]
  <2> DEFINE D == {j \in k .. n : p[j] # c[j]}
  <2>1. D \in SUBSET Nat /\ D # {}
    BY <1>0, <1>1, <1>2
  <2> HIDE DEF D
  <2>2. PICK m \in D : \A y \in D : m <= y
    BY <2>1, MinOfNats
  <2>3. m \in k .. n /\ p[m] # c[m]
    BY <2>2 DEF D
  <2>4. \A j \in k .. m - 1 : j \in k .. n /\ ~(m <= j)
    BY <1>0, <2>3
  <2>5. \A j \in k .. m - 1 : p[j] = c[j]
    BY <2>2, <2>4 DEF D
  <2> QED BY <2>3, <2>5
<1> PICK m \in k .. n : p[m] # c[m] /\ \A j \in k .. m - 1 : p[j] = c[j]
  BY <1>3
<1>4. m \in 1 .. n /\ \A j \in 1 .. m - 1 : p[j] = c[j]
  <2>1. m \in 1 .. n
    BY <1>0, <1>3
  <2>2. \A j \in 1 .. m - 1 : j \in 1 .. n /\ (j \in 1 .. k - 1 \/ j \in k .. m - 1)
    BY <1>0, <2>1
  <2> QED BY <1>3, <2>1, <2>2
<1>5. c[m] \in Nat /\ p[m] \in Nat /\ c[m] <= p[m]
  BY <1>3, <1>4, CellFacts
<1>6. c[m] < p[m]
  BY <1>3, <1>5
<1> QED BY <1>0, <1>4, <1>6 DEF Before

\* Going on to the next choice passes what the prefix covers, and no more.
LEMMA PassesCovered ==
  ASSUME NEW s, Follows(s), ~s.no_next_choice, NEW c \in Cells
  PROVE  next_choice(s).no_next_choice \/ Before(c, Prefix(next_choice(s)))
           <=> Before(c, Prefix(s)) \/ Covers(Prefix(s), c)
<1> DEFINE p == Prefix(s)
           t == next_choice(s)
           q == Prefix(t)
           n == Len(s.stack)
<1> SUFFICES (t.no_next_choice \/ Before(c, q)) <=> (Before(c, p) \/ Covers(p, c))
  OBVIOUS
<1>0. n \in Nat /\ Len(p) = n
  BY PrefixFacts
<1>1. CASE /\ \A i \in 1 .. n : ~HasNext(s.stack[i])
           /\ t = [stack |-> <<>>, ptr |-> 0, no_next_choice |-> TRUE]
  <2>1. t.no_next_choice
    BY <1>1
  <2>2. Before(c, p) \/ Covers(p, c)
    BY <1>1, LastNodes
  <2> QED BY <2>1, <2>2
<1>2. CASE (\E top \in 1 .. n : NextAt(s, t, top)) /\ Follows(t)
  <2> HIDE DEF t
  <2>1. PICK top \in 1 .. n : NextAt(s, t, top)
    BY <1>2
  <2>2. /\ ~t.no_next_choice /\ Len(q) = top /\ top \in Nat
        /\ \A i \in 1 .. top : q[i] = t.stack[i].value
    BY <1>0, <1>2, <2>1, PrefixFacts DEF NextAt
  <2>3. q[top] = p[top] + 1
    <3>1. s.stack[top] \in Node
      BY <2>1 DEF Follows
    <3>2. t.stack[top].value = s.stack[top].value + 1
      BY <2>1, <3>1 DEF NextAt, Node
    <3> QED BY <2>1, <2>2, <3>2, PrefixFacts
  <2>4. \A i \in 1 .. top - 1 : i \in 1 .. n /\ i \in 1 .. top /\ q[i] = p[i]
    <3> TAKE i \in 1 .. top - 1
    <3>1. i \in 1 .. n /\ i \in 1 .. top
      BY <1>0, <2>1
    <3>2. t.stack[i] = s.stack[i]
      BY <2>1 DEF NextAt
    <3>3. q[i] = t.stack[i].value /\ p[i] = s.stack[i].value
      BY <2>2, <3>1, PrefixFacts
    <3> QED BY <3>1, <3>2, <3>3
  <2>5. \A i \in 1 .. n : c[i] \in Nat /\ p[i] \in Nat
    BY CellFacts
  <2> HIDE DEF p, q, n
  <2>6. ASSUME Before(c, p) \/ Covers(p, c) PROVE Before(c, q)
    <3>1. CASE \E i \in 1 .. top : c[i] < p[i] /\ \A j \in 1 .. i - 1 : c[j] = p[j]
      <4>1. PICK i \in 1 .. top : c[i] < p[i] /\ \A j \in 1 .. i - 1 : c[j] = p[j]
        BY <3>1
      <4>2. c[i] < q[i]
        <5>1. CASE i = top
          BY <2>1, <2>3, <2>5, <4>1, <5>1
        <5>2. CASE i # top
          <6>1. i \in 1 .. top - 1
            BY <2>2, <5>2
          <6> QED BY <2>4, <4>1, <6>1
        <5> QED BY <5>1, <5>2
      <4>3. \A j \in 1 .. i - 1 : j \in 1 .. top - 1
        BY <2>2
      <4>4. \A j \in 1 .. i - 1 : c[j] = q[j]
        BY <2>4, <4>1, <4>3
      <4> QED BY <2>2, <4>2, <4>4 DEF Before
    <3>2. CASE \A i \in 1 .. top : c[i] = p[i]
      <4>1. c[top] < q[top]
        BY <2>1, <2>2, <2>3, <2>5, <3>2
      <4>2. \A j \in 1 .. top - 1 : c[j] = q[j]
        BY <2>4, <3>2
      <4>3. top \in 1 .. Len(q)
        BY <2>1, <2>2
      <4> QED BY <4>1, <4>2, <4>3 DEF Before
    <3>3. ASSUME NEW i \in 1 .. n, c[i] < p[i], \A j \in 1 .. i - 1 : c[j] = p[j],
                 i \notin 1 .. top
          PROVE  \A j \in 1 .. top : c[j] = p[j]
      <4>1. \A j \in 1 .. top : j \in 1 .. i - 1
        BY <1>0, <2>2, <3>3
      <4> QED BY <3>3, <4>1
    <3>4. Covers(p, c) => \A i \in 1 .. top : c[i] = p[i]
      <4>1. \A i \in 1 .. top : i \in 1 .. n
        BY <1>0, <2>1
      <4> QED BY <1>0, <4>1 DEF Covers
    <3>5. CASE Before(c, p)
      BY <1>0, <3>1, <3>2, <3>3, <3>5 DEF Before
    <3>6. CASE Covers(p, c)
      BY <3>2, <3>4, <3>6
    <3> QED BY <2>6, <3>5, <3>6
  <2>7. ASSUME Before(c, q) PROVE Before(c, p) \/ Covers(p, c)
    <3>1. PICK i \in 1 .. top : c[i] < q[i] /\ \A j \in 1 .. i - 1 : c[j] = q[j]
      BY <2>2, <2>7 DEF Before
    <3>2. \A j \in 1 .. i - 1 : j \in 1 .. top - 1 /\ c[j] = p[j]
      <4>1. \A j \in 1 .. i - 1 : j \in 1 .. top - 1
        BY <2>2
      <4> QED BY <2>4, <3>1, <4>1
    <3>3. i \in 1 .. n
      BY <1>0, <2>1
    <3>4. CASE c[i] < p[i]
      BY <1>0, <3>2, <3>3, <3>4 DEF Before
    <3>5. CASE ~(c[i] < p[i])
      <4>1. i = top
        <5>1. i \in 1 .. top - 1 => q[i] = p[i]
          BY <2>4
        <5> QED BY <2>2, <3>1, <3>5, <5>1
      <4>2. c[top] = p[top]
        BY <2>1, <2>3, <2>5, <3>1, <3>5, <4>1
      <4>3. \A j \in 1 .. (top + 1) - 1 : p[j] = c[j]
        <5> TAKE j \in 1 .. (top + 1) - 1
        <5>1. j = top \/ j \in 1 .. top - 1
          BY <2>2
        <5> QED BY <3>2, <4>1, <4>2, <5>1
      <4>4. \A j \in top + 1 .. n : ~HasNext(s.stack[j])
        BY <2>1 DEF NextAt, n
      <4>5. top + 1 \in Nat \ {0}
        BY <2>2
      <4> QED BY <4>3, <4>4, <4>5, LastNodes DEF p, n
    <3> QED BY <3>4, <3>5
  <2> QED BY <2>2, <2>6, <2>7
<1>3. \/ /\ \A i \in 1 .. n : ~HasNext(s.stack[i])
         /\ t = [stack |-> <<>>, ptr |-> 0, no_next_choice |-> TRUE]
      \/ (\E top \in 1 .. n : NextAt(s, t, top)) /\ Follows(t)
  BY NextChoice
<1> HIDE DEF n, p, q, t
<1> QED BY <1>1, <1>2, <1>3
-----------------------------------------------------------------------------
CInv == StackFollowsPoints /\ EachCellSettledOnce

LEMMA FollowsStack == StackFollowsPoints => Follows(choices)
BY DEF StackFollowsPoints, CTypeOK, Follows

LEMMA StackFollows ==
  ASSUME NEW s, NEW done, NEW out, Follows(s), done \subseteq Seq(Nat),
         out \in {"running", "finished", "thrown"}, out = "finished" <=> s.no_next_choice,
         choices' = s, settled' = done, outcome' = out
  PROVE  StackFollowsPoints'
BY DEF StackFollowsPoints, CTypeOK, Follows

LEMMA InitCInv == CInit => CInv
<1> SUFFICES ASSUME CInit PROVE CInv
  OBVIOUS
<1>1. /\ choices = [stack |-> <<>>, ptr |-> 0, no_next_choice |-> FALSE]
      /\ settled = {} /\ outcome = "running"
  BY DEF CInit, NewPerStateStack
<1>2. StackFollowsPoints
  BY <1>1, Points DEF StackFollowsPoints, CTypeOK
<1>3. Prefix(choices) = <<>>
  BY <1>1 DEF Prefix
<1>4. EachCellSettledOnce
  BY <1>1, <1>3 DEF EachCellSettledOnce, Passed, Before
<1> QED BY <1>2, <1>4 DEF CInv

\* A settled prefix covers what the step passes, and nothing passed before.
LEMMA SettleKeeps ==
  ASSUME CInv, Settle
  PROVE  CInv'
<1> DEFINE s == choices
           t == next_choice(s)
           p == Prefix(s)
<1>1. /\ outcome = "running" /\ choices' = t /\ settled' = settled \cup {p}
      /\ outcome' = IF ~t.no_next_choice THEN "running" ELSE "finished"
  BY DEF Settle, has_valid_choice
<1>2. /\ Follows(s) /\ s.no_next_choice = FALSE /\ settled \subseteq Seq(Nat)
      /\ s.no_next_choice \in BOOLEAN
  BY <1>1, FollowsStack DEF CInv, StackFollowsPoints, CTypeOK
<1>3. Follows(t)
  <2>1. next_choice(s) = [stack |-> <<>>, ptr |-> 0, no_next_choice |-> TRUE]
          => Follows(next_choice(s))
    BY Points DEF Follows
  <2> QED BY <1>2, <2>1, NextChoice
<1>4. p \in Seq(Nat)
  BY <1>2, PrefixFacts
<1> HIDE DEF t, p
<1>5. StackFollowsPoints'
  <2>1. t.no_next_choice \in BOOLEAN
    BY <1>3 DEF Follows
  <2>2. outcome' = "finished" <=> t.no_next_choice
    BY <1>1, <2>1
  <2>3. outcome' \in {"running", "finished", "thrown"} /\ settled' \subseteq Seq(Nat)
    BY <1>1, <1>2, <1>4
  <2> QED BY <1>1, <1>3, <2>2, <2>3, StackFollows
<1>6. ASSUME NEW c \in Cells
      PROVE  /\ Passed(c)' <=> Passed(c) \/ Covers(p, c)
             /\ ~(Passed(c) /\ Covers(p, c))
  <2>1. Passed(c) <=> Before(c, p)
    BY <1>2 DEF Passed, p
  <2>2. Passed(c)' <=> t.no_next_choice \/ Before(c, Prefix(t))
    BY <1>1 DEF Passed
  <2>3. t.no_next_choice \/ Before(c, Prefix(t)) <=> Before(c, p) \/ Covers(p, c)
    BY <1>2, PassesCovered DEF t, p
  <2>4. Before(c, p) => ~Covers(p, c)
    BY <1>2, Exclusive DEF p
  <2> QED BY <2>1, <2>2, <2>3, <2>4
<1>7. EachCellSettledOnce'
  <2> SUFFICES ASSUME NEW c \in Cells
               PROVE  /\ Passed(c)' <=> \E q \in settled' : Covers(q, c)
                      /\ \A q, r \in settled' : Covers(q, c) /\ Covers(r, c) => q = r
    BY DEF EachCellSettledOnce
  <2>1. /\ Passed(c) <=> \E q \in settled : Covers(q, c)
        /\ \A q, r \in settled : Covers(q, c) /\ Covers(r, c) => q = r
    BY DEF CInv, EachCellSettledOnce
  <2>2. /\ Passed(c)' <=> Passed(c) \/ Covers(p, c)
        /\ ~(Passed(c) /\ Covers(p, c))
    BY <1>6
  <2>3. Passed(c)' <=> \E q \in settled' : Covers(q, c)
    BY <1>1, <2>1, <2>2
  <2>4. \A q, r \in settled' : Covers(q, c) /\ Covers(r, c) => q = r
    BY <1>1, <2>1, <2>2
  <2> QED BY <2>3, <2>4
<1> QED BY <1>5, <1>7 DEF CInv

\* A deeper choice adds the first value of the next branching point.
LEMMA DeeperChoice ==
  ASSUME NEW s, Follows(s), ~s.no_next_choice, CanDeepen(s)
  PROVE  /\ Follows(deeper_choice(s))
         /\ Len(s.stack) \in Nat /\ Len(s.stack) + 1 \in Levels
         /\ Len(deeper_choice(s).stack) = Len(s.stack) + 1
         /\ deeper_choice(s).stack[Len(s.stack) + 1].value = 0
         /\ \A i \in 1 .. Len(s.stack) : deeper_choice(s).stack[i] = s.stack[i]
         /\ deeper_choice(s).no_next_choice = FALSE
<1> DEFINE n == Len(s.stack)
           x == copy_node_without_value(BranchingPoint[s.ptr + 1])
           t == deeper_choice(s)
<1>1. n \in Nat /\ s.ptr = n /\ s.stack \in Seq(Node) /\ n + 1 \in Levels
  <2>1. n \in Nat /\ s.ptr = n /\ s.stack \in Seq(Node) /\ n <= Len(BranchingPoint)
    BY DEF Follows
  <2> QED BY <2>1, Points DEF Levels, CanDeepen
<1>2. x \in Node /\ x.point = BranchingPoint[n + 1] /\ x.value = 0 /\ 0 \in ValuesAt(n + 1)
  <2>1. BranchingPoint[n + 1] \in ToSet(BranchingPoint) /\ 0 \in ValuesAt(n + 1)
    BY <1>1, Points
  <2> QED BY <1>1, <2>1 DEF copy_node_without_value, Node
<1>3. t = [s EXCEPT !.stack = Append(s.stack, x), !.ptr = s.ptr + 1]
  BY DEF deeper_choice
<1> HIDE DEF x, t
<1> DEFINE stk == Append(s.stack, x)
<1>4. /\ stk \in Seq(Node) /\ Len(stk) = n + 1 /\ stk[n + 1] = x
      /\ \A i \in 1 .. n : stk[i] = s.stack[i]
  BY <1>1, <1>2
<1>5. t = [stack |-> stk, ptr |-> n + 1, no_next_choice |-> FALSE]
  BY <1>1, <1>3 DEF Follows
<1> HIDE DEF stk
<1>6. \A i \in 1 .. n + 1 : i = n + 1 \/ i \in 1 .. n
  BY <1>1
<1>7. Follows(t)
  <2>1. n + 1 <= Len(BranchingPoint) /\ n + 1 \in Nat
    BY <1>1, Points DEF Levels
  <2>2. \A i \in 1 .. n + 1 :
          stk[i].point = BranchingPoint[i] /\ stk[i].value \in ValuesAt(i)
    BY <1>2, <1>4, <1>6 DEF Follows
  <2> QED BY <1>4, <1>5, <2>1, <2>2 DEF Follows
<1> QED BY <1>1, <1>2, <1>4, <1>5, <1>7 DEF t

\* One value more, the first: nothing lies between.
LEMMA DeepenKeeps ==
  ASSUME CInv, Deepen
  PROVE  CInv'
<1> DEFINE s == choices
           n == Len(s.stack)
           t == deeper_choice(s)
<1>1. /\ outcome = "running" /\ CanDeepen(s) /\ choices' = t
      /\ UNCHANGED <<settled, outcome>>
  BY DEF Deepen
<1>2. Follows(s) /\ s.no_next_choice = FALSE /\ settled \subseteq Seq(Nat)
  BY <1>1, FollowsStack DEF CInv, StackFollowsPoints, CTypeOK
<1>3. /\ n \in Nat /\ n + 1 \in Levels /\ Follows(t) /\ Len(t.stack) = n + 1
      /\ t.stack[n + 1].value = 0 /\ t.no_next_choice = FALSE
      /\ \A i \in 1 .. n : t.stack[i] = s.stack[i]
  BY <1>1, <1>2, DeeperChoice
<1> HIDE DEF t
<1>4. \A i \in 1 .. n + 1 : i = n + 1 \/ i \in 1 .. n
  BY <1>3
<1>5. StackFollowsPoints'
  <2>1. /\ settled' = settled /\ outcome' = "running"
        /\ outcome' = "finished" <=> t.no_next_choice
    BY <1>1, <1>3
  <2> QED BY <1>1, <1>2, <1>3, <2>1, StackFollows
<1>6. ASSUME NEW c \in Cells
       PROVE  Passed(c)' <=> Passed(c)
  <2> DEFINE p == Prefix(s)
             q == Prefix(t)
  <2>1. /\ Len(p) = n /\ Len(q) = n + 1 /\ q[n + 1] = 0
        /\ \A i \in 1 .. n : q[i] = p[i]
    <3>1. /\ Len(q) = n + 1
          /\ \A i \in 1 .. n + 1 : q[i] = t.stack[i].value
      BY <1>3, PrefixFacts
    <3>2. /\ Len(p) = n
          /\ \A i \in 1 .. n : p[i] = s.stack[i].value
      BY <1>2, PrefixFacts
    <3>3. n + 1 \in 1 .. n + 1 /\ \A i \in 1 .. n : i \in 1 .. n + 1
      BY <1>3
    <3> QED BY <1>3, <3>1, <3>2, <3>3
  <2>2. c[n + 1] \in Nat
    <3>1. c[n + 1] \in ValuesAt(n + 1)
      BY <1>3 DEF Cells
    <3> QED BY <1>3, <3>1, Points
  <2> HIDE DEF p, q
  <2>3. Before(c, q) <=> Before(c, p)
    <3>1. \A i \in 1 .. n : \A j \in 1 .. i - 1 : j \in 1 .. n
      BY <1>3
    <3>2. ~(c[n + 1] < q[n + 1])
      BY <2>1, <2>2
    <3>3. \A i \in 1 .. n : i \in 1 .. n + 1
      BY <1>3
    <3>4. ASSUME Before(c, q) PROVE Before(c, p)
      <4>1. PICK i \in 1 .. n + 1 : c[i] < q[i] /\ \A j \in 1 .. i - 1 : c[j] = q[j]
        BY <2>1, <3>4 DEF Before
      <4>2. i \in 1 .. n
        BY <1>4, <3>2, <4>1
      <4> QED BY <2>1, <3>1, <4>1, <4>2 DEF Before
    <3>5. ASSUME Before(c, p) PROVE Before(c, q)
      <4>1. PICK i \in 1 .. n : c[i] < p[i] /\ \A j \in 1 .. i - 1 : c[j] = p[j]
        BY <2>1, <3>5 DEF Before
      <4> QED BY <2>1, <3>1, <3>3, <4>1 DEF Before
    <3> QED BY <3>4, <3>5
  <2>4. Passed(c)' <=> t.no_next_choice \/ Before(c, q)
    BY <1>1 DEF Passed, q
  <2> QED BY <1>2, <1>3, <2>3, <2>4 DEF Passed, p
<1>7. EachCellSettledOnce'
  BY <1>1, <1>6 DEF CInv, EachCellSettledOnce
<1> QED BY <1>5, <1>7 DEF CInv

LEMMA SearchKeeps == CInv /\ [CNext]_csvars => CInv'
<1> SUFFICES ASSUME CInv, [CNext]_csvars PROVE CInv'
  OBVIOUS
<1>1. CASE RunOut \/ UNCHANGED csvars
  <2>1. UNCHANGED <<choices, settled>> /\ (UNCHANGED outcome \/ outcome' = "thrown")
    BY <1>1 DEF RunOut, csvars
  <2>2. outcome' = "finished" <=> choices.no_next_choice
    BY <1>1 DEF RunOut, csvars, CInv, StackFollowsPoints
  <2>3. StackFollowsPoints'
    BY <2>1, <2>2 DEF CInv, StackFollowsPoints, CTypeOK
  <2>4. EachCellSettledOnce'
    BY <2>1 DEF CInv, EachCellSettledOnce, Passed
  <2> QED BY <2>3, <2>4 DEF CInv
<1> QED BY <1>1, SettleKeeps, DeepenKeeps DEF CNext

LEMMA SearchInvariance == CSpec => []CInv
<1> QED BY InitCInv, SearchKeeps, PTL DEF CSpec

\* The stack of a search is a copy of the first branching points, each with a value
\* of its width.
THEOREM StackAlwaysFollows == CSpec => []StackFollowsPoints
<1>1. CInv => StackFollowsPoints
  BY DEF CInv
<1> QED BY <1>1, SearchInvariance, PTL

\* What the search has passed was simulated under exactly one prefix, and when it
\* finishes, all combinations of values were.
THEOREM CellsAreSettledOnce == CSpec => []EachCellSettledOnce
<1>1. CInv => EachCellSettledOnce
  BY DEF CInv
<1> QED BY <1>1, SearchInvariance, PTL
-----------------------------------------------------------------------------
(***************************************************************************)
(* What the choices give to the simulator.                                 *)
(***************************************************************************)

\* The stacks the traversals make follow the branching points.
LEMMA NewFollows == Follows(NewPerStateStack) /\ has_valid_choice(NewPerStateStack)
BY Points DEF Follows, NewPerStateStack, has_valid_choice

LEMMA NextFollows ==
  ASSUME NEW s, Follows(s), has_valid_choice(s)
  PROVE  Follows(next_choice(s))
<1>1. next_choice(s) = [stack |-> <<>>, ptr |-> 0, no_next_choice |-> TRUE]
        => Follows(next_choice(s))
  BY Points DEF Follows
<1> QED BY <1>1, NextChoice DEF has_valid_choice

\* A node of a stack stands for a branching point and one of its values.
LEMMA NodeIsPoint ==
  ASSUME NEW s, Follows(s), NEW i \in 1 .. Len(s.stack)
  PROVE  /\ s.stack[i].point \in ToSet(BranchingPoint)
         /\ s.stack[i].point = BranchingPoint[i] /\ i \in Levels
         /\ s.stack[i].value \in Values(s.stack[i].point.v_width)
<1>1. i \in Levels
  BY PrefixFacts
<1>2. s.stack[i].point = BranchingPoint[i] /\ s.stack[i].value \in ValuesAt(i)
  BY DEF Follows
<1> QED BY <1>1, <1>2, Points DEF ValuesAt

\* The nodes on inputs make an input assignment a caller may pass.
LEMMA InputsAreGiven ==
  ASSUME NEW s, Follows(s)
  PROVE  InputAssignment(s) \in Given(InVars)
<1> DEFINE named(v) == {i \in 1 .. Len(s.stack) : /\ s.stack[i].point.branch_on_inputvar
                                                  /\ s.stack[i].point.v_name = v}
           D == {u \in InVars : named(u) # {}}
           first(v) == s.stack[Min(named(v))].value
<1>1. ASSUME NEW v \in D PROVE TermOf[first(v)] \in Val
  <2>1. named(v) \in SUBSET Nat /\ named(v) # {}
    OBVIOUS
  <2>2. Min(named(v)) \in named(v)
    <3> HIDE DEF named
    <3> QED BY <2>1, MinOfNats
  <2> HIDE DEF named
  <2>3. PICK i : i = Min(named(v))
    OBVIOUS
  <2>4. i \in 1 .. Len(s.stack) /\ s.stack[i].point.branch_on_inputvar
    BY <2>2, <2>3 DEF named
  <2>5. /\ s.stack[i].point \in ToSet(BranchingPoint)
        /\ s.stack[i].value \in Values(s.stack[i].point.v_width)
    BY <2>4, NodeIsPoint
  <2>6. TermOf[s.stack[i].value] \in Val
    BY <2>4, <2>5, ExplorationAssumption
  <2> QED BY <2>3, <2>6
<1>2. InputAssignment(s) = [v \in D |-> TermOf[first(v)]]
  BY DEF InputAssignment
<1> HIDE DEF first
<1>3. InputAssignment(s) \in [D -> Val] /\ D \in SUBSET InVars
  BY <1>1, <1>2
<1> HIDE DEF D
<1> QED BY <1>3 DEF Given

\* A list of lists of at most one element has as many elements as lists that are
\* not empty.
LEMMA FlattenShort ==
  ASSUME NEW X, NEW seqs \in Seq(Seq(X)),
         \A i \in 1 .. Len(seqs) : seqs[i] = <<>> \/ Len(seqs[i]) = 1
  PROVE  Len(FlattenSeq(seqs)) = Cardinality({i \in 1 .. Len(seqs) : seqs[i] # <<>>})
<1> DEFINE n == Len(seqs)
           full(k) == {i \in 1 .. k : seqs[i] # <<>>}
<1>0. n \in Nat /\ \A i \in 1 .. n : seqs[i] \in Seq(X)
  OBVIOUS
<1>1. CASE seqs = <<>>
  <2>1. FlattenSeq(seqs) = <<>>
    BY <1>1 DEF FlattenSeq
  <2>2. full(n) = {}
    BY <1>1
  <2> QED BY <2>1, <2>2, FS_EmptySet
<1>2. CASE seqs # <<>>
  <2>1. PICK g : /\ FlattenSeq(seqs) = g[n] /\ g[1] = seqs[1]
                 /\ \A i \in 2 .. n : g[i] = g[i - 1] \o seqs[i]
    BY <1>2, FlattenUnfold
  <2> DEFINE Counted(k) == /\ g[k] \in Seq(X) /\ IsFiniteSet(full(k))
                           /\ Len(g[k]) = Cardinality(full(k))
             S == {k \in Nat : k + 1 \in 1 .. n => Counted(k + 1)}
  <2>2. ASSUME NEW k \in 1 .. n, NEW p \in Seq(X), NEW F, F = full(k - 1),
               IsFiniteSet(F), Len(p) = Cardinality(F), g[k] = p \o seqs[k]
        PROVE  Counted(k)
    <3>1. seqs[k] \in Seq(X) /\ (seqs[k] = <<>> \/ Len(seqs[k]) = 1)
      BY <1>0
    <3>2. g[k] \in Seq(X) /\ Len(g[k]) = Len(p) + Len(seqs[k])
      BY <2>2, <3>1, ConcatType
    <3>3. k \notin F /\ \A i \in 1 .. k : i = k \/ i \in 1 .. k - 1
      BY <1>0, <2>2
    <3>4. \A i \in 1 .. k - 1 : i \in 1 .. k
      BY <1>0
    <3>5. CASE seqs[k] = <<>>
      <4>1. full(k) = F
        BY <2>2, <3>3, <3>4, <3>5
      <4>2. Len(g[k]) = Len(p)
        BY <3>2, <3>5
      <4> HIDE DEF full
      <4> QED BY <2>2, <3>2, <4>1, <4>2
    <3>6. CASE seqs[k] # <<>>
      <4>1. full(k) = F \cup {k}
        BY <1>0, <2>2, <3>3, <3>4, <3>6
      <4>2. Len(g[k]) = Len(p) + 1
        BY <3>1, <3>2, <3>6
      <4>3. IsFiniteSet(F \cup {k}) /\ Cardinality(F \cup {k}) = Cardinality(F) + 1
        BY <2>2, <3>3, FS_AddElement
      <4> HIDE DEF full
      <4> QED BY <2>2, <3>2, <4>1, <4>2, <4>3
    <3> QED BY <3>5, <3>6
  <2>3. 0 \in S
    <3>1. <<>> \in Seq(X) /\ Len(<<>>) = Cardinality({}) /\ IsFiniteSet({}) /\ full(1 - 1) = {}
      BY FS_EmptySet
    <3>2. g[1] = <<>> \o seqs[1] /\ 1 \in 1 .. n
      BY <1>0, <1>2, <2>1
    <3> HIDE DEF full, Counted
    <3>3. Counted(1)
      BY <2>2, <3>1, <3>2
    <3> QED BY <3>3
  <2>4. ASSUME NEW k \in Nat, k \in S
        PROVE  k + 1 \in S
    <3> HIDE DEF full, Counted
    <3> SUFFICES ASSUME k + 2 \in 1 .. n PROVE Counted(k + 2)
      OBVIOUS
    <3>1. k + 1 \in 1 .. n /\ k + 2 \in 2 .. n /\ (k + 2) - 1 = k + 1
      BY <1>0
    <3>2. g[k + 2] = g[k + 1] \o seqs[k + 2]
      BY <2>1, <3>1
    <3>3. Counted(k + 1)
      BY <2>4, <3>1
    <3>4. /\ g[k + 1] \in Seq(X) /\ IsFiniteSet(full(k + 1))
          /\ Len(g[k + 1]) = Cardinality(full(k + 1))
      BY <3>3 DEF Counted
    <3> QED BY <2>2, <3>1, <3>2, <3>4
  <2>5. \A k \in Nat : k \in S
    <3> HIDE DEF S
    <3> QED BY <2>3, <2>4, SetInduction
  <2>6. Counted(n)
    <3>1. n - 1 \in Nat /\ (n - 1) + 1 = n /\ n \in 1 .. n
      BY <1>0, <1>2
    <3>2. n - 1 \in S
      <4> HIDE DEF S
      <4> QED BY <2>5, <3>1
    <3> HIDE DEF Counted
    <3> QED BY <3>1, <3>2
  <2> QED BY <2>1, <2>6
<1> QED BY <1>1, <1>2

\* The nodes on signals make assumptions a caller may pass.
LEMMA FormulasAreGiven ==
  ASSUME NEW s, Follows(s)
  PROVE  ChoiceAssumptions(s) \in PreLists
<1> DEFINE n == Len(s.stack)
           F(i) == IF s.stack[i].point.branch_on_inputvar THEN <<>>
                   ELSE <<SignalIs[s.stack[i].point.v_name][s.stack[i].value]>>
           L == [i \in 1 .. n |-> F(i)]
           full == {i \in 1 .. Len(L) : L[i] # <<>>}
<1>1. n \in Nat /\ n <= Len(BranchingPoint)
  BY PrefixFacts DEF Follows
<1>2. ASSUME NEW i \in 1 .. n PROVE F(i) \in Seq(Pre) /\ (F(i) = <<>> \/ Len(F(i)) = 1)
  <2>1. CASE s.stack[i].point.branch_on_inputvar
    BY <2>1
  <2>2. CASE ~ s.stack[i].point.branch_on_inputvar
    <3>1. SignalIs[s.stack[i].point.v_name][s.stack[i].value] \in Pre
      BY <2>2, NodeIsPoint, ExplorationAssumption
    <3> QED BY <2>2, <3>1
  <2> QED BY <2>1, <2>2
<1>3. /\ L \in Seq(Seq(Pre)) /\ Len(L) = n
      /\ \A i \in 1 .. Len(L) : L[i] = F(i)
  <2> HIDE DEF F
  <2> QED BY <1>1, <1>2
<1>4. \A i \in full : i \in SignalPoints
  <2> TAKE i \in full
  <2>1. i \in 1 .. n /\ F(i) # <<>>
    BY <1>3
  <2>2. ~ s.stack[i].point.branch_on_inputvar
    BY <2>1
  <2>3. s.stack[i].point = BranchingPoint[i] /\ i \in Levels
    BY <2>1, NodeIsPoint
  <2> QED BY <2>2, <2>3 DEF SignalPoints, Levels
<1> HIDE DEF full, F
<1>5. ChoiceAssumptions(s) = FlattenSeq(L) \o Assumptions
  BY DEF ChoiceAssumptions, F
<1> HIDE DEF L
<1>6. FlattenSeq(L) \in Seq(Pre)
  BY ONLY <1>3, FlattenType
<1>7. Len(FlattenSeq(L)) = Cardinality(full)
  <2>1. \A i \in 1 .. Len(L) : L[i] = <<>> \/ Len(L[i]) = 1
    BY <1>2, <1>3
  <2> QED BY ONLY <1>3, <2>1, FlattenShort DEF full
<1>8. IsFiniteSet(SignalPoints) /\ Cardinality(SignalPoints) \in Nat
      /\ Cardinality(full) <= Cardinality(SignalPoints)
  <2>1. IsFiniteSet(1 .. Len(BranchingPoint)) /\ SignalPoints \in SUBSET (1 .. Len(BranchingPoint))
    BY Points, FS_Interval DEF SignalPoints
  <2>2. IsFiniteSet(SignalPoints)
    BY <2>1, FS_Subset
  <2>3. full \in SUBSET SignalPoints
    BY <1>4
  <2> QED BY <2>2, <2>3, FS_Subset, FS_CardinalityType
<1>9. /\ Assumptions \in Seq(Pre)
      /\ Cardinality(SignalPoints) + Len(Assumptions) <= MaxPre /\ MaxPre \in Nat
  BY ExplorationAssumption, SymSimAssumption
<1> DEFINE A == FlattenSeq(L) \o Assumptions
<1>10. A \in Seq(Pre) /\ Len(A) = Len(FlattenSeq(L)) + Len(Assumptions)
  <2> HIDE DEF FlattenSeq
  <2> QED BY <1>6, <1>9, ConcatType
<1>11. Len(A) \in 0 .. MaxPre
  <2>1. Len(A) \in Nat /\ Len(Assumptions) \in Nat
    BY <1>9, <1>10
  <2> HIDE DEF A
  <2> QED BY <1>7, <1>8, <1>9, <1>10, <2>1
<1> HIDE DEF A
<1>12. A \in [1 .. Len(A) -> Pre]
  BY <1>10
<1> QED BY <1>5, <1>11, <1>12 DEF PreLists, A

\* So do the assumptions of the caller alone, and no assumptions.
LEMMA AssumptionsAreGiven == Assumptions \in PreLists /\ <<>> \in PreLists
<1>1. /\ Assumptions \in Seq(Pre)
      /\ Cardinality(SignalPoints) + Len(Assumptions) <= MaxPre /\ MaxPre \in Nat
  BY ExplorationAssumption, SymSimAssumption
<1>2. Cardinality(SignalPoints) \in Nat
  <2>1. IsFiniteSet(1 .. Len(BranchingPoint)) /\ SignalPoints \in SUBSET (1 .. Len(BranchingPoint))
    BY Points, FS_Interval DEF SignalPoints
  <2> QED BY <2>1, FS_Subset, FS_CardinalityType
<1>3. Len(Assumptions) \in 0 .. MaxPre /\ Assumptions \in [1 .. Len(Assumptions) -> Pre]
  BY <1>1, <1>2
<1>4. <<>> \in [1 .. 0 -> Pre] /\ 0 \in 0 .. MaxPre
  BY <1>1
<1> QED BY <1>3, <1>4 DEF PreLists
-----------------------------------------------------------------------------
(***************************************************************************)
(* The calls of the simulator that the traversals make: each is a step of  *)
(* a client that follows the documented use.                               *)
(***************************************************************************)

\* Before any input, the first frame has the init constraint only.  A client
\* that installs a copied state can break this, the traversals cannot.
OnlyInit ==
  trace # <<>> => \A j \in 1 .. Len(Bottom) : Bottom[j].what = "init"

Simulating == IInv /\ OnlyInit /\ trace # <<>>

LEMMA BottomStays ==
  ASSUME OnlyInit, SameBottom
  PROVE  OnlyInit'
BY DEF OnlyInit, SameBottom

LEMMA InitCall ==
  ASSUME IInv, trace = <<>>, NEW given \in Roots, init(given)
  PROVE  Start /\ Simulating' /\ Len(trace') = 1 /\ ~ Pending'
<1>1. Start
  BY ExplorationAssumption DEF Start
<1>2. IInv'
  BY <1>1, NextKeeps DEF Next
<1> DEFINE root == Complete(StateVars, given)
           a == [what |-> "init", over |-> <<root>>]
<1>3. /\ trace' = Append(trace, <<root>>)
      /\ history_assumptions' = Append(history_assumptions, <<a>>)
      /\ history_choice' = history_choice
  BY DEF init
<1>4. history_choice = <<>> /\ history_assumptions = <<>>
  BY DEF IInv, StacksAligned, TypeOK
<1>5. trace' # <<>> /\ Len(trace') = 1 /\ ~ Pending'
  <2> HIDE DEF root
  <2> QED BY <1>3, <1>4 DEF Pending
<1>6. Bottom' = <<a>>
  <2> HIDE DEF root, a
  <2> QED BY <1>3, <1>4 DEF Bottom
<1>7. OnlyInit'
  <2>1. a.what = "init"
    OBVIOUS
  <2> HIDE DEF a
  <2>2. Len(<<a>>) = 1 /\ <<a>>[1] = a
    OBVIOUS
  <2>3. \A j \in 1 .. Len(<<a>>) : <<a>>[j].what = "init"
    BY <2>1, <2>2
  <2> QED BY <1>6, <2>3 DEF OnlyInit
<1> QED BY <1>1, <1>2, <1>5, <1>7 DEF Simulating

LEMMA CopyCall ==
  ASSUME Simulating, NEW pre \in PreLists, get_curr_state(pre)
  PROVE  /\ Copy /\ Simulating'
         /\ trace' = trace /\ history_choice' = history_choice /\ (Pending' <=> Pending)
         /\ ret' \in StateAsmpt /\ ret'.sv = trace[Len(trace)]
<1>1. Copy
  BY DEF Copy
<1>2. IInv'
  BY <1>1, NextKeeps DEF Next, Simulating
<1>3. UNCHANGED stacks /\ ret' \in StateAsmpt /\ ret'.sv = Last(trace)
  BY <1>1, CopyAdds DEF Simulating
<1>4. /\ trace' = trace /\ history_choice' = history_choice /\ (Pending' <=> Pending)
      /\ Bottom' = Bottom
  BY <1>3 DEF stacks, Pending, Bottom
<1> QED BY <1>1, <1>2, <1>3, <1>4 DEF Simulating, OnlyInit, Last

LEMMA InputCall ==
  ASSUME Simulating, NEW given \in Given(InVars), NEW pre \in PreLists, set_input(given, pre)
  PROVE  Choose /\ Simulating' /\ trace' = trace /\ Pending'
<1>1. Choose
  BY DEF Choose
<1>2. IInv'
  BY <1>1, NextKeeps DEF Next, Simulating
<1>3. OnlyInit'
  BY <1>1, <1>2, ChooseKeepsBottom, BottomStays DEF Simulating
<1> DEFINE c == [assumptions |-> pre, var_assign |-> Complete(InVars, given),
                 UsedInSim |-> FALSE, assmpt_len |-> Len(Last(history_assumptions))]
<1>4. trace' = trace /\ history_choice' = Append(history_choice, c) /\ c.UsedInSim = FALSE
  BY DEF set_input
<1> HIDE DEF c
<1>5. Len(history_choice) \in Nat /\ history_choice \in Seq(ChoiceItem)
  BY DEF Simulating, IInv, TypeOK
<1>6. history_choice' # <<>> /\ Last(history_choice') = c
  BY <1>4, <1>5 DEF Last
<1>7. Pending'
  BY <1>4, <1>6 DEF Pending
<1> QED BY <1>1, <1>2, <1>3, <1>4, <1>7 DEF Simulating

LEMMA StepCall ==
  ASSUME Simulating, sim_one_step
  PROVE  /\ Advance /\ Simulating'
         /\ Len(trace') = Len(trace) + 1 /\ ~ Pending'
         /\ \A k \in 1 .. Len(trace) : trace'[k] = trace[k]
<1>1. Advance
  BY DEF Advance
<1>2. IInv'
  BY <1>1, NextKeeps DEF Next, Simulating
<1>3. OnlyInit'
  BY <1>1, <1>2, AdvanceKeepsBottom, BottomStays DEF Simulating
<1> DEFINE n == Len(history_choice)
           f == Append(Last(trace), Last(history_choice).var_assign)
<1>4. /\ Pending /\ trace' = Append(trace, f)
      /\ history_choice' = [history_choice EXCEPT ![n].UsedInSim = TRUE]
  BY DEF sim_one_step
<1> HIDE DEF f
<1>5. /\ history_choice \in Seq(ChoiceItem) /\ history_choice # <<>>
      /\ trace \in Seq(Path) /\ n \in 1 .. n /\ history_choice[n] \in ChoiceItem
  BY <1>4 DEF Simulating, IInv, TypeOK, Pending
<1>6. /\ Len(trace') = Len(trace) + 1 /\ trace' # <<>>
      /\ \A k \in 1 .. Len(trace) : trace'[k] = trace[k]
  BY <1>4, <1>5
<1>7. Len(history_choice') = n /\ history_choice'[n].UsedInSim = TRUE
  BY <1>4, <1>5 DEF ChoiceItem
<1>8. ~ Pending'
  BY <1>7 DEF Pending, Last
<1> QED BY <1>1, <1>2, <1>3, <1>6, <1>8 DEF Simulating

LEMMA BacktrackCall ==
  ASSUME Simulating, ~ Pending, backtrack
  PROVE  /\ Retreat /\ Simulating'
         /\ Len(trace) > 1 /\ Len(trace') = Len(trace) - 1 /\ Pending'
         /\ \A k \in 1 .. Len(trace) - 1 : trace'[k] = trace[k]
<1>1. Retreat
  BY DEF Retreat
<1>2. IInv'
  BY <1>1, NextKeeps DEF Next, Simulating
<1>3. OnlyInit'
  BY <1>1, <1>2, RetreatKeepsBottom, BottomStays DEF Simulating
<1> DEFINE n == Len(history_choice)
<1>4. /\ history_choice # <<>> /\ trace' = Front(trace)
      /\ history_choice' = [history_choice EXCEPT ![n].UsedInSim = FALSE]
  BY DEF backtrack
<1>5. /\ history_choice \in Seq(ChoiceItem) /\ n \in 1 .. n /\ history_choice[n] \in ChoiceItem
      /\ trace \in Seq(Path) /\ n = Len(trace) - 1 /\ Len(trace) \in Nat \ {0}
  BY <1>4, Shape DEF Simulating, IInv, TypeOK
<1>6. /\ Len(trace') = Len(trace) - 1 /\ Len(trace) > 1
      /\ \A k \in 1 .. Len(trace) - 1 : trace'[k] = trace[k]
  <2>1. trace # <<>>
    BY DEF Simulating
  <2> QED BY <1>4, <1>5, <2>1, FrontType
<1>7. trace' # <<>>
  BY <1>6
<1>8. Len(history_choice') = n /\ history_choice'[n].UsedInSim = FALSE /\ history_choice' # <<>>
  BY <1>4, <1>5 DEF ChoiceItem
<1>9. Pending'
  BY <1>8 DEF Pending, Last
<1> QED BY <1>1, <1>2, <1>3, <1>6, <1>7, <1>9 DEF Simulating

LEMMA UndoCall ==
  ASSUME Simulating, undo_set_input
  PROVE  Withdraw /\ Simulating' /\ trace' = trace /\ ~ Pending'
<1>1. Withdraw
  BY DEF Withdraw
<1>2. IInv'
  BY <1>1, NextKeeps DEF Next, Simulating
<1>3. OnlyInit'
  BY <1>1, <1>2, WithdrawKeepsBottom, BottomStays DEF Simulating
<1> DEFINE n == Len(history_choice)
<1>4. Pending /\ trace' = trace /\ history_choice' = Front(history_choice)
  BY DEF undo_set_input
<1>5. history_choice \in Seq(ChoiceItem) /\ history_choice # <<>> /\ n \in Nat \ {0}
  BY <1>4 DEF Simulating, IInv, TypeOK, Pending
<1>6. /\ Len(history_choice') = n - 1
      /\ \A k \in 1 .. n - 1 : history_choice'[k] = history_choice[k]
      /\ \A k \in 1 .. n - 1 : history_choice[k].UsedInSim
  BY <1>4, <1>5, FrontType DEF Simulating, IInv, StacksAligned
<1>7. ~ Pending'
  <2>1. CASE n = 1
    BY <1>6, <2>1 DEF Pending
  <2>2. CASE n # 1
    <3>1. n - 1 \in 1 .. n - 1
      <4>1. n \in Nat \ {0}
        BY <1>5
      <4> HIDE DEF n
      <4> QED BY <2>2, <4>1
    <3>2. history_choice'[Len(history_choice')].UsedInSim
      BY <1>6, <3>1
    <3> QED BY <3>2 DEF Pending, Last
  <2> QED BY <2>1, <2>2
<1> QED BY <1>1, <1>2, <1>3, <1>4, <1>7 DEF Simulating

\* Without inputs the simulator is as it was given.
LEMMA NoInputsLeft ==
  ASSUME Simulating, Len(trace) = 1, ~ Pending
  PROVE  SimulatorRestored
<1>1. history_choice \in Seq(ChoiceItem) /\ Len(history_choice) = 0
  BY Shape DEF Simulating, IInv, TypeOK
<1>2. history_choice = <<>> /\ Bottom = history_assumptions[1]
  BY <1>1 DEF Bottom
<1>3. history_assumptions[1] \in Seq(Assumption)
  BY Shape DEF Simulating, IInv, TypeOK
<1>4. DOMAIN history_assumptions[1] = 1 .. Len(history_assumptions[1])
  BY <1>3
<1> QED BY <1>2, <1>4 DEF Simulating, OnlyInit, SimulatorRestored
\* Steps that do not call the simulator.
LEMMA SimulatorStays ==
  ASSUME UNCHANGED vars
  PROVE  /\ trace' = trace /\ ret' = ret /\ history_choice' = history_choice
         /\ (Pending' <=> Pending) /\ (Simulating => Simulating')
<1>1. /\ trace' = trace /\ history_choice' = history_choice
      /\ history_assumptions' = history_assumptions /\ ret' = ret
  BY DEF vars
<1>2. (Pending' <=> Pending) /\ Bottom' = Bottom
  BY <1>1 DEF Pending, Bottom
<1>3. IInv => IInv'
  BY NextKeeps
<1> QED BY <1>1, <1>2, <1>3 DEF Simulating, OnlyInit
-----------------------------------------------------------------------------
(***************************************************************************)
(* traverse.  A stack of choices may only be asked for its next choice     *)
(* while it has one, and the simulator may only go back while no input is  *)
(* pending; both follow from the place the traversal is at.                *)
(***************************************************************************)

\* A state was just copied from the last frame.
JustCopied == ret \in StateAsmpt /\ ret.sv = trace[Len(trace)]

Searching ==
  /\ TTypeOK
  /\ \A k \in 1 .. Len(stack_per_state) : Follows(stack_per_state[k])
  /\ loc \in {"start", "entry", "skipped", "done"} => Len(trace) = 1 /\ ~ Pending
  /\ loc \in {"entry", "check", "act"} => JustCopied
  /\ loc \in InLoop => stack_per_state # <<>> /\ FramesAligned
  /\ loc \in {"sim", "snap", "check", "act"} => has_valid_choice(Top)

TInv == /\ IF loc = "boot" THEN IInv /\ OnlyInit /\ trace = <<>> ELSE Simulating
        /\ Searching

LEMMA InitTInv == TInit => TInv
<1> SUFFICES ASSUME TInit PROVE TInv
  OBVIOUS
<1>1. IInv /\ trace = <<>>
  BY InitIInv DEF TInit, Init
<1>2. TTypeOK
  <2>1. IsDesign(design)
    BY ExplorationAssumption DEF TInit
  <2>2. /\ loc = "boot" /\ abs_state = <<>> /\ stack_per_state = <<>> /\ curr_branch = <<>>
        /\ all_branches = <<>> /\ branch_end_flag = FALSE /\ verdict = "none"
    BY DEF TInit
  <2>3. \A X : <<>> \in Seq(X)
    OBVIOUS
  <2> QED BY <2>1, <2>2, <2>3, Zenon DEF TTypeOK, Locations
<1>3. /\ loc = "boot" /\ stack_per_state = <<>>
  BY DEF TInit
<1>4. Searching
  BY <1>2, <1>3 DEF Searching, InLoop
<1> QED BY <1>1, <1>3, <1>4 DEF TInv, OnlyInit

\* The places of the loop, and the top of the stack of stacks.
LEMMA TopFollows ==
  ASSUME TInv, loc \in InLoop
  PROVE  /\ Simulating /\ Searching /\ FramesAligned
         /\ Len(stack_per_state) \in Nat \ {0} /\ Top = stack_per_state[Len(stack_per_state)]
         /\ Follows(Top) /\ Len(trace) \in Nat \ {0}
<1>1. Simulating /\ Searching /\ FramesAligned /\ stack_per_state # <<>>
  BY DEF TInv, Searching, InLoop
<1>2. Len(stack_per_state) \in Nat \ {0} /\ Top = stack_per_state[Len(stack_per_state)]
  <2>1. stack_per_state \in Seq([stack : Seq(Node), ptr : Nat, no_next_choice : BOOLEAN])
    BY <1>1 DEF Searching, TTypeOK
  <2> QED BY <1>1, <2>1, LastType DEF Top
<1>3. Len(trace) \in Nat \ {0}
  BY <1>1, Shape DEF Simulating, IInv
<1>4. Follows(Top)
  BY <1>1, <1>2 DEF Searching
<1> QED BY <1>1, <1>2, <1>3, <1>4

\* Steps that call the simulator only leave the search as it is.
LEMMA SearchStays ==
  ASSUME TTypeOK, UNCHANGED <<design, search>>, loc' \in Locations
  PROVE  /\ TTypeOK' /\ Top' = Top
         /\ stack_per_state' = stack_per_state /\ curr_branch' = curr_branch
<1>1. /\ design' = design /\ abs_state' = abs_state /\ stack_per_state' = stack_per_state
      /\ curr_branch' = curr_branch /\ all_branches' = all_branches
      /\ branch_end_flag' = branch_end_flag /\ verdict' = verdict
  BY DEF search
<1>2. TTypeOK'
  BY <1>1, Zenon DEF TTypeOK
<1> QED BY <1>1, <1>2 DEF Top

LEMMA BootKeeps ==
  ASSUME TInv, Boot
  PROVE  Start /\ TInv'
<1>1. loc = "boot" /\ loc' = "start" /\ IInv /\ trace = <<>>
  BY DEF Boot, GoTo, TInv
<1>2. PICK given \in Roots : init(given)
  BY DEF Boot
<1>3. Start /\ Simulating' /\ Len(trace') = 1 /\ ~ Pending'
  BY <1>1, <1>2, InitCall
<1>4. TTypeOK' /\ stack_per_state' = stack_per_state
  BY <1>1, SearchStays DEF Boot, TInv, Searching, Locations
<1>5. Searching'
  BY <1>1, <1>3, <1>4 DEF TInv, Searching, InLoop
<1> QED BY <1>1, <1>3, <1>5 DEF TInv

LEMMA EnterKeeps ==
  ASSUME TInv, Enter
  PROVE  Copy /\ TInv'
<1>1. loc = "start" /\ loc' = "entry" /\ Simulating /\ Len(trace) = 1 /\ ~ Pending
  BY DEF Enter, GoTo, TInv, Searching
<1>2. /\ Copy /\ Simulating' /\ trace' = trace /\ ~ Pending'
      /\ ret' \in StateAsmpt /\ ret'.sv = trace[Len(trace)]
  BY <1>1, CopyCall, AssumptionsAreGiven DEF Enter
<1>3. TTypeOK' /\ stack_per_state' = stack_per_state
  BY <1>1, SearchStays DEF Enter, TInv, Searching, Locations
<1>4. Searching'
  BY <1>1, <1>2, <1>3 DEF TInv, Searching, InLoop, JustCopied
<1> QED BY <1>1, <1>2, <1>4 DEF TInv

LEMMA EnterUnreachableKeeps ==
  ASSUME TInv, EnterUnreachable
  PROVE  UNCHANGED vars /\ TInv'
<1>1. loc = "entry" /\ loc' = "skipped" /\ UNCHANGED <<vars, design, search>>
  BY DEF EnterUnreachable, GoTo
<1>2. /\ UNCHANGED vars /\ trace' = trace /\ (Pending' <=> Pending)
      /\ Simulating'
  BY <1>1, SimulatorStays DEF TInv
<1>3. TTypeOK' /\ stack_per_state' = stack_per_state
  BY <1>1, SearchStays DEF TInv, Searching, Locations, Ended
<1>4. Searching'
  BY <1>1, <1>2, <1>3 DEF TInv, Searching, InLoop
<1> QED BY <1>1, <1>2, <1>4 DEF TInv

LEMMA EnterReachableKeeps ==
  ASSUME TInv, EnterReachable
  PROVE  UNCHANGED vars /\ TInv'
<1>1. /\ loc = "entry" /\ loc' = "head" /\ UNCHANGED vars
      /\ abs_state' = Append(abs_state, ret) /\ stack_per_state' = <<NewPerStateStack>>
      /\ curr_branch' = <<ret>>
      /\ design' = design /\ all_branches' = all_branches
      /\ branch_end_flag' = branch_end_flag /\ verdict' = verdict
  BY DEF EnterReachable, GoTo
<1>2. /\ trace' = trace /\ (Pending' <=> Pending) /\ Simulating'
  BY <1>1, SimulatorStays DEF TInv
<1>3. TTypeOK /\ JustCopied /\ Len(trace) = 1 /\ ~ Pending
  BY <1>1 DEF TInv, Searching
<1>4. Follows(NewPerStateStack)
  BY NewFollows
<1>5. TTypeOK'
  <2>1. /\ abs_state' \in Seq(StateAsmpt) /\ curr_branch' \in Seq(StateAsmpt)
    <3>1. ret \in StateAsmpt /\ abs_state \in Seq(StateAsmpt)
      BY <1>3 DEF JustCopied, TTypeOK
    <3> QED BY <1>1, <3>1, Singleton, AppendType
  <2>2. stack_per_state' \in Seq([stack : Seq(Node), ptr : Nat, no_next_choice : BOOLEAN])
    BY <1>1, <1>4 DEF Follows
  <2> QED BY <1>1, <1>3, <2>1, <2>2, Zenon DEF TTypeOK, Locations, InLoop
<1>6. /\ \A k \in 1 .. Len(stack_per_state') : stack_per_state'[k] = NewPerStateStack
      /\ \A k \in 1 .. Len(curr_branch') : k = 1 /\ curr_branch'[k] = ret
      /\ Len(stack_per_state') = 1 /\ Len(curr_branch') = 1 /\ stack_per_state' # <<>>
  BY <1>1, Singleton
<1>7. FramesAligned'
  BY <1>1, <1>2, <1>3, <1>6 DEF FramesAligned, Trying, JustCopied
<1>8. Searching'
  BY <1>1, <1>4, <1>5, <1>6, <1>7 DEF Searching
<1> QED BY <1>1, <1>2, <1>8 DEF TInv

LEMMA CopyHeadKeeps ==
  ASSUME TInv, CopyHead
  PROVE  Copy /\ TInv'
<1>1. loc = "head" /\ loc' = "branch" /\ get_curr_state(<<>>) /\ UNCHANGED <<design, search>>
  BY DEF CopyHead, GoTo
<1>2. Simulating /\ Searching /\ FramesAligned /\ stack_per_state # <<>>
  BY <1>1 DEF TInv, Searching, InLoop
<1>3. Copy /\ Simulating' /\ trace' = trace /\ (Pending' <=> Pending)
  BY <1>1, <1>2, CopyCall, AssumptionsAreGiven
<1>4. /\ TTypeOK' /\ stack_per_state' = stack_per_state /\ curr_branch' = curr_branch
  BY <1>1, <1>2, SearchStays DEF Searching, Locations, InLoop
<1>5. FramesAligned'
  BY <1>1, <1>2, <1>3, <1>4 DEF FramesAligned, Trying
<1>6. Searching'
  BY <1>1, <1>2, <1>4, <1>5 DEF Searching
<1> QED BY <1>1, <1>3, <1>6 DEF TInv

LEMMA LeaveLastKeeps ==
  ASSUME TInv, LeaveLast
  PROVE  UNCHANGED vars /\ TInv'
<1>1. /\ loc = "branch" /\ loc' = "done" /\ UNCHANGED vars
      /\ Len(stack_per_state) = 1 /\ stack_per_state' = <<>>
      /\ design' = design /\ abs_state' = abs_state /\ curr_branch' = curr_branch
      /\ all_branches' = all_branches
      /\ branch_end_flag' = branch_end_flag /\ verdict' = verdict
  BY DEF LeaveLast, GoTo
<1>2. /\ trace' = trace /\ (Pending' <=> Pending) /\ Simulating'
  BY <1>1, SimulatorStays DEF TInv
<1>3. TTypeOK /\ FramesAligned
  BY <1>1 DEF TInv, Searching, InLoop
<1>4. TTypeOK'
  <2>1. stack_per_state' \in Seq([stack : Seq(Node), ptr : Nat, no_next_choice : BOOLEAN])
    BY <1>1
  <2> QED BY <1>1, <1>3, <2>1, Zenon DEF TTypeOK, Locations, Ended
<1>5. Len(trace) = 1 /\ ~ Pending
  BY <1>1, <1>3 DEF FramesAligned, Trying
<1>6. Searching'
  BY <1>1, <1>2, <1>4, <1>5 DEF Searching, InLoop
<1> QED BY <1>1, <1>2, <1>6 DEF TInv

\* Leaving a state: one frame, one stack and one recorded state less.
LEMMA LeaveStateKeeps ==
  ASSUME TInv, LeaveState
  PROVE  Retreat /\ TInv'
<1>1. /\ loc = "branch" /\ loc' = "undo" /\ backtrack
      /\ Len(stack_per_state) > 1 /\ stack_per_state' = Front(stack_per_state)
      /\ all_branches' = Append(all_branches, curr_branch)
      /\ curr_branch' = Front(curr_branch) /\ branch_end_flag' = TRUE
      /\ design' = design /\ abs_state' = abs_state /\ verdict' = verdict
  BY DEF LeaveState, GoTo
<1>2. /\ Simulating /\ Searching /\ FramesAligned /\ TTypeOK
      /\ Len(stack_per_state) \in Nat \ {0}
  BY <1>1, TopFollows DEF InLoop, Searching
<1>3. /\ Len(trace) = Len(stack_per_state) /\ Len(curr_branch) = Len(stack_per_state)
      /\ ~ Pending /\ \A k \in 1 .. Len(curr_branch) : curr_branch[k].sv = trace[k]
  BY <1>1, <1>2 DEF FramesAligned, Trying
<1>4. /\ Retreat /\ Simulating' /\ Len(trace') = Len(trace) - 1 /\ Pending'
      /\ \A k \in 1 .. Len(trace) - 1 : trace'[k] = trace[k]
  BY <1>1, <1>2, <1>3, BacktrackCall
<1> DEFINE Stacks == [stack : Seq(Node), ptr : Nat, no_next_choice : BOOLEAN]
<1>5. /\ stack_per_state \in Seq(Stacks) /\ curr_branch \in Seq(StateAsmpt)
      /\ all_branches \in Seq(Seq(StateAsmpt))
  BY <1>2 DEF TTypeOK
<1> HIDE DEF Stacks
<1>6. stack_per_state # <<>> /\ curr_branch # <<>>
  BY <1>2, <1>3
<1>7. /\ stack_per_state' \in Seq(Stacks) /\ Len(stack_per_state') = Len(stack_per_state) - 1
      /\ \A k \in 1 .. Len(stack_per_state) - 1 : stack_per_state'[k] = stack_per_state[k]
  BY <1>1, <1>5, <1>6, FrontType
<1>8. /\ curr_branch' \in Seq(StateAsmpt) /\ Len(curr_branch') = Len(curr_branch) - 1
      /\ \A k \in 1 .. Len(curr_branch) - 1 : curr_branch'[k] = curr_branch[k]
  BY <1>1, <1>5, <1>6, FrontType
<1>9. TTypeOK'
  <2>1. all_branches' \in Seq(Seq(StateAsmpt))
    BY <1>1, <1>5
  <2> QED BY <1>1, <1>2, <1>7, <1>8, <2>1, Zenon DEF TTypeOK, Locations, InLoop, Stacks
<1>10. stack_per_state' # <<>>
  BY <1>1, <1>2, <1>7
<1>11. \A k \in 1 .. Len(stack_per_state') : Follows(stack_per_state'[k])
  <2> TAKE k \in 1 .. Len(stack_per_state')
  <2>1. k \in 1 .. Len(stack_per_state) - 1 /\ k \in 1 .. Len(stack_per_state)
    BY <1>2, <1>7
  <2>2. Follows(stack_per_state[k])
    BY <1>2, <2>1 DEF Searching
  <2> QED BY <1>7, <2>1, <2>2
<1>12. \A k \in 1 .. Len(curr_branch') : curr_branch'[k].sv = trace'[k]
  <2> TAKE k \in 1 .. Len(curr_branch')
  <2>1. k \in 1 .. Len(curr_branch) - 1 /\ k \in 1 .. Len(curr_branch)
        /\ k \in 1 .. Len(trace) - 1
    BY <1>2, <1>3, <1>8
  <2> QED BY <1>3, <1>4, <1>8, <2>1
<1>13. FramesAligned'
  <2>1. Trying' = 0 /\ Len(trace') = Len(stack_per_state') + 0
    BY <1>1, <1>2, <1>3, <1>4, <1>7 DEF Trying
  <2>2. Len(curr_branch') = Len(stack_per_state')
    BY <1>3, <1>7, <1>8
  <2> QED BY <1>1, <1>4, <1>12, <2>1, <2>2 DEF FramesAligned
<1>14. Searching'
  BY <1>1, <1>9, <1>10, <1>11, <1>13 DEF Searching
<1> QED BY <1>1, <1>4, <1>14 DEF TInv

LEMMA TryChoiceKeeps ==
  ASSUME TInv, TryChoice
  PROVE  Choose /\ TInv'
<1>1. /\ loc = "branch" /\ loc' = "sim" /\ has_valid_choice(Top)
      /\ set_input(InputAssignment(Top), ChoiceAssumptions(Top))
      /\ UNCHANGED <<design, search>>
  BY DEF TryChoice, GoTo
<1>2. Simulating /\ Searching /\ FramesAligned /\ Follows(Top) /\ stack_per_state # <<>>
  BY <1>1, TopFollows DEF Searching, InLoop
<1>3. Choose /\ Simulating' /\ trace' = trace /\ Pending'
  BY <1>1, <1>2, InputCall, InputsAreGiven, FormulasAreGiven
<1>4. /\ TTypeOK' /\ Top' = Top
      /\ stack_per_state' = stack_per_state /\ curr_branch' = curr_branch
  BY <1>1, <1>2, SearchStays DEF Searching, Locations, InLoop
<1>5. FramesAligned'
  BY <1>1, <1>2, <1>3, <1>4 DEF FramesAligned, Trying
<1>6. has_valid_choice(Top)'
  BY <1>1, <1>4 DEF has_valid_choice
<1>7. Searching'
  BY <1>1, <1>2, <1>4, <1>5, <1>6 DEF Searching
<1> QED BY <1>1, <1>3, <1>7 DEF TInv

\* One frame more, for the choice that is tried.
LEMMA SimulateKeeps ==
  ASSUME TInv, Simulate
  PROVE  Advance /\ TInv'
<1>1. loc = "sim" /\ loc' = "snap" /\ sim_one_step /\ UNCHANGED <<design, search>>
  BY DEF Simulate, GoTo
<1>2. /\ Simulating /\ Searching /\ FramesAligned /\ Len(trace) \in Nat \ {0}
      /\ Len(stack_per_state) \in Nat \ {0} /\ stack_per_state # <<>> /\ has_valid_choice(Top)
  BY <1>1, TopFollows DEF Searching, InLoop
<1>3. /\ Advance /\ Simulating' /\ Len(trace') = Len(trace) + 1 /\ ~ Pending'
      /\ \A k \in 1 .. Len(trace) : trace'[k] = trace[k]
  BY <1>1, <1>2, StepCall
<1>4. /\ TTypeOK' /\ Top' = Top
      /\ stack_per_state' = stack_per_state /\ curr_branch' = curr_branch
  BY <1>1, <1>2, SearchStays DEF Searching, Locations, InLoop
<1>5. /\ Len(curr_branch) = Len(stack_per_state) /\ Len(trace) = Len(stack_per_state)
      /\ \A k \in 1 .. Len(curr_branch) : curr_branch[k].sv = trace[k]
  BY <1>1, <1>2 DEF FramesAligned, Trying
<1>6. \A k \in 1 .. Len(curr_branch') : curr_branch'[k].sv = trace'[k]
  BY <1>3, <1>4, <1>5
<1>7. FramesAligned'
  BY <1>1, <1>3, <1>4, <1>5, <1>6 DEF FramesAligned, Trying
<1>8. has_valid_choice(Top)'
  BY <1>2, <1>4 DEF has_valid_choice
<1>9. Searching'
  BY <1>1, <1>2, <1>4, <1>7, <1>8 DEF Searching
<1> QED BY <1>1, <1>3, <1>9 DEF TInv

LEMMA SnapKeeps ==
  ASSUME TInv, Snap
  PROVE  Copy /\ TInv'
<1>1. loc = "snap" /\ loc' = "check" /\ get_curr_state(<<>>) /\ UNCHANGED <<design, search>>
  BY DEF Snap, GoTo
<1>2. /\ Simulating /\ Searching /\ FramesAligned
      /\ stack_per_state # <<>> /\ has_valid_choice(Top)
  BY <1>1 DEF TInv, Searching, InLoop
<1>3. /\ Copy /\ Simulating' /\ trace' = trace /\ (Pending' <=> Pending)
      /\ ret' \in StateAsmpt /\ ret'.sv = trace[Len(trace)]
  BY <1>1, <1>2, CopyCall, AssumptionsAreGiven
<1>4. /\ TTypeOK' /\ Top' = Top
      /\ stack_per_state' = stack_per_state /\ curr_branch' = curr_branch
  BY <1>1, <1>2, SearchStays DEF Searching, Locations, InLoop
<1>5. FramesAligned'
  BY <1>1, <1>2, <1>3, <1>4 DEF FramesAligned, Trying
<1>6. has_valid_choice(Top)' /\ JustCopied'
  BY <1>2, <1>3, <1>4 DEF has_valid_choice, JustCopied
<1>7. Searching'
  BY <1>1, <1>2, <1>4, <1>5, <1>6 DEF Searching
<1> QED BY <1>1, <1>3, <1>7 DEF TInv

\* The queries change nothing but the verdict, the flag and the place.
LEMMA CheckKeeps ==
  ASSUME TInv, Check
  PROVE  UNCHANGED vars /\ TInv'
<1>1. /\ loc = "check" /\ loc' \in {"act", "thrown"} /\ UNCHANGED vars
      /\ design' = design /\ abs_state' = abs_state /\ curr_branch' = curr_branch
      /\ stack_per_state' = stack_per_state /\ all_branches' = all_branches
      /\ branch_end_flag' \in BOOLEAN
  BY DEF Check
<1>2. /\ Simulating /\ Searching /\ FramesAligned /\ TTypeOK /\ JustCopied
      /\ stack_per_state # <<>> /\ has_valid_choice(Top)
  BY <1>1 DEF TInv, Searching, InLoop
<1>3. /\ trace' = trace /\ (Pending' <=> Pending) /\ Simulating' /\ ret' = ret
  BY <1>1, <1>2, SimulatorStays
<1>4. verdict' \in {"unreachable", "not concrete", "new", "known", "overly constrained"}
  BY DEF Check, record_verdict
<1>5. TTypeOK'
  BY <1>1, <1>2, <1>4, Zenon DEF TTypeOK, Locations, InLoop, Ended
<1>6. FramesAligned' \/ loc' = "thrown"
  BY <1>1, <1>2, <1>3 DEF FramesAligned, Trying
<1>7. has_valid_choice(Top)' /\ JustCopied'
  BY <1>1, <1>2, <1>3 DEF has_valid_choice, Top, JustCopied
<1>8. Searching'
  BY <1>1, <1>2, <1>5, <1>6, <1>7 DEF Searching, InLoop
<1> QED BY <1>1, <1>3, <1>8 DEF TInv

LEMMA RunOutKeeps ==
  ASSUME TInv, RunOutOfChoices
  PROVE  Copy /\ TInv'
<1>1. loc = "act" /\ loc' = "thrown" /\ get_curr_state(<<>>) /\ UNCHANGED <<design, search>>
  BY DEF RunOutOfChoices, GoTo
<1>2. Simulating /\ Searching
  BY <1>1 DEF TInv
<1>3. Copy /\ Simulating'
  BY <1>1, <1>2, CopyCall, AssumptionsAreGiven
<1>4. TTypeOK' /\ stack_per_state' = stack_per_state
  BY <1>1, <1>2, SearchStays DEF Searching, Locations, Ended
<1>5. Searching'
  BY <1>1, <1>2, <1>4 DEF Searching, InLoop
<1> QED BY <1>1, <1>3, <1>5 DEF TInv

LEMMA UndoKeeps ==
  ASSUME TInv, Undo
  PROVE  Withdraw /\ TInv'
<1>1. loc = "undo" /\ loc' = "head" /\ undo_set_input /\ UNCHANGED <<design, search>>
  BY DEF Undo, GoTo
<1>2. Simulating /\ Searching /\ FramesAligned /\ stack_per_state # <<>>
  BY <1>1 DEF TInv, Searching, InLoop
<1>3. Withdraw /\ Simulating' /\ trace' = trace /\ ~ Pending'
  BY <1>1, <1>2, UndoCall
<1>4. TTypeOK' /\ stack_per_state' = stack_per_state /\ curr_branch' = curr_branch
  BY <1>1, <1>2, SearchStays DEF Searching, Locations, InLoop
<1>5. FramesAligned'
  BY <1>1, <1>2, <1>3, <1>4 DEF FramesAligned, Trying
<1>6. Searching'
  BY <1>1, <1>2, <1>4, <1>5 DEF Searching
<1> QED BY <1>1, <1>3, <1>6 DEF TInv

\* Going on to another choice of the same state: the frame of the choice that was
\* tried is dropped, and the stack on top is replaced.
LEMMA OtherChoice ==
  ASSUME TInv, loc = "act", loc' = "undo", NEW s, Follows(s), ReplaceTop(s), backtrack,
         UNCHANGED <<design, abs_state, curr_branch, all_branches, branch_end_flag, verdict>>
  PROVE  Retreat /\ TInv'
<1> DEFINE Stacks == [stack : Seq(Node), ptr : Nat, no_next_choice : BOOLEAN]
           n == Len(stack_per_state)
<1>1. /\ Simulating /\ Searching /\ FramesAligned /\ TTypeOK /\ n \in Nat \ {0}
      /\ stack_per_state # <<>>
  BY TopFollows DEF InLoop, Searching
<1>2. /\ Len(trace) = n + 1 /\ Len(curr_branch) = n /\ ~ Pending
      /\ \A k \in 1 .. n : curr_branch[k].sv = trace[k]
  BY <1>1 DEF FramesAligned, Trying
<1>3. /\ Retreat /\ Simulating' /\ Len(trace') = Len(trace) - 1 /\ Pending'
      /\ \A k \in 1 .. Len(trace) - 1 : trace'[k] = trace[k]
  BY <1>1, <1>2, BacktrackCall
<1>4. stack_per_state \in Seq(Stacks) /\ s \in Stacks
  BY <1>1 DEF TTypeOK, Follows
<1>5. /\ Front(stack_per_state) \in Seq(Stacks) /\ Len(Front(stack_per_state)) = n - 1
      /\ \A k \in 1 .. n - 1 : Front(stack_per_state)[k] = stack_per_state[k]
  <2> HIDE DEF Stacks
  <2> QED BY <1>1, <1>4, FrontType
<1>6. /\ stack_per_state' \in Seq(Stacks) /\ Len(stack_per_state') = n
      /\ stack_per_state' # <<>> /\ stack_per_state'[n] = s
      /\ \A k \in 1 .. n - 1 : stack_per_state'[k] = stack_per_state[k]
  <2> DEFINE f == Front(stack_per_state)
  <2>1. /\ f \in Seq(Stacks) /\ Len(f) = n - 1 /\ (n - 1) + 1 = n
        /\ \A k \in 1 .. n - 1 : f[k] = stack_per_state[k]
        /\ stack_per_state' = Append(f, s)
    BY <1>1, <1>5 DEF ReplaceTop
  <2> HIDE DEF Stacks, f, n
  <2>2. /\ Append(f, s) \in Seq(Stacks) /\ Append(f, s) # <<>>
        /\ Len(Append(f, s)) = n /\ Append(f, s)[n] = s
        /\ \A k \in 1 .. n - 1 : Append(f, s)[k] = f[k]
    BY <1>4, <2>1, AppendType
  <2> QED BY <2>1, <2>2
<1>7. TTypeOK'
  BY <1>1, <1>6, Zenon DEF TTypeOK, Locations, InLoop, Stacks
<1> HIDE DEF n, Stacks
<1>8. \A k \in 1 .. n : Follows(stack_per_state'[k])
  <2> TAKE k \in 1 .. n
  <2>1. k = n \/ k \in 1 .. n - 1
    BY <1>1
  <2>2. Follows(stack_per_state[k])
    BY <1>1 DEF Searching, n
  <2> QED BY <1>6, <2>1, <2>2
<1>9. \A k \in 1 .. n : curr_branch'[k].sv = trace'[k]
  BY <1>1, <1>2, <1>3
<1>10. FramesAligned'
  <2>1. Len(curr_branch') = n /\ Len(trace') = n + 0 /\ Trying' = 0
    BY <1>1, <1>2, <1>3 DEF Trying
  <2> QED BY <1>3, <1>6, <1>9, <2>1 DEF FramesAligned
<1>11. Searching'
  BY <1>6, <1>7, <1>8, <1>10 DEF Searching
<1> QED BY <1>3, <1>11 DEF TInv

LEMMA TryNextKeeps ==
  ASSUME TInv, TryNextChoice
  PROVE  Retreat /\ TInv'
<1>1. /\ loc = "act" /\ loc' = "undo" /\ ReplaceTop(next_choice(Top)) /\ backtrack
      /\ UNCHANGED <<design, abs_state, curr_branch, all_branches, branch_end_flag, verdict>>
  BY DEF TryNextChoice, GoTo
<1>2. Follows(Top) /\ has_valid_choice(Top)
  BY <1>1, TopFollows DEF InLoop, Searching
<1>3. Follows(next_choice(Top))
  BY <1>2, NextFollows
<1> QED BY <1>1, <1>3, OtherChoice

LEMMA TryDeeperKeeps ==
  ASSUME TInv, TryDeeperChoice
  PROVE  Retreat /\ TInv'
<1>1. /\ loc = "act" /\ loc' = "undo" /\ ReplaceTop(deeper_choice(Top)) /\ backtrack
      /\ CanDeepen(Top)
      /\ UNCHANGED <<design, abs_state, curr_branch, all_branches, branch_end_flag, verdict>>
  BY DEF TryDeeperChoice, GoTo
<1>2. Follows(Top) /\ has_valid_choice(Top)
  BY <1>1, TopFollows DEF InLoop, Searching
<1>3. Follows(deeper_choice(Top))
  BY <1>1, <1>2, DeeperChoice DEF has_valid_choice
<1> QED BY <1>1, <1>3, OtherChoice

\* A new state: the frame of the choice becomes one of the branch.
LEMMA NewStateKeeps ==
  ASSUME TInv, NewState
  PROVE  UNCHANGED vars /\ TInv'
<1> DEFINE Stacks == [stack : Seq(Node), ptr : Nat, no_next_choice : BOOLEAN]
           n == Len(stack_per_state)
<1>1. /\ loc = "act" /\ loc' = "head" /\ UNCHANGED vars
      /\ abs_state' = Append(abs_state, ret) /\ curr_branch' = Append(curr_branch, ret)
      /\ stack_per_state' = Append(stack_per_state, NewPerStateStack)
      /\ design' = design /\ all_branches' = all_branches
      /\ branch_end_flag' = branch_end_flag /\ verdict' = verdict
  BY DEF NewState, GoTo
<1>2. /\ Simulating /\ Searching /\ FramesAligned /\ TTypeOK /\ n \in Nat \ {0}
      /\ stack_per_state # <<>> /\ JustCopied
  BY <1>1, TopFollows DEF InLoop, Searching
<1>3. /\ trace' = trace /\ (Pending' <=> Pending) /\ Simulating'
  BY <1>1, <1>2, SimulatorStays
<1>4. /\ Len(trace) = n + 1 /\ Len(curr_branch) = n /\ ~ Pending
      /\ \A k \in 1 .. n : curr_branch[k].sv = trace[k]
  BY <1>1, <1>2 DEF FramesAligned, Trying
<1>5. /\ stack_per_state \in Seq(Stacks) /\ NewPerStateStack \in Stacks
      /\ abs_state \in Seq(StateAsmpt) /\ curr_branch \in Seq(StateAsmpt)
      /\ ret \in StateAsmpt /\ ret.sv = trace[n + 1]
  BY <1>2, <1>4, NewFollows DEF TTypeOK, Follows, JustCopied
<1> HIDE DEF Stacks
<1>6. /\ stack_per_state' \in Seq(Stacks) /\ Len(stack_per_state') = n + 1
      /\ stack_per_state' # <<>> /\ stack_per_state'[n + 1] = NewPerStateStack
      /\ \A k \in 1 .. n : stack_per_state'[k] = stack_per_state[k]
  BY <1>1, <1>5, AppendType
<1>7. /\ abs_state' \in Seq(StateAsmpt) /\ curr_branch' \in Seq(StateAsmpt)
      /\ Len(curr_branch') = n + 1 /\ curr_branch'[n + 1] = ret
      /\ \A k \in 1 .. n : curr_branch'[k] = curr_branch[k]
  BY <1>1, <1>4, <1>5, AppendType
<1>8. TTypeOK'
  BY <1>1, <1>2, <1>6, <1>7, Zenon DEF TTypeOK, Locations, InLoop, Stacks
<1>9. \A k \in 1 .. n + 1 : Follows(stack_per_state'[k]) /\ curr_branch'[k].sv = trace'[k]
  <2> TAKE k \in 1 .. n + 1
  <2>1. CASE k = n + 1
    BY <1>3, <1>5, <1>6, <1>7, <2>1, NewFollows
  <2>2. CASE k # n + 1
    <3>1. k \in 1 .. n
      BY <1>2, <2>2
    <3>2. Follows(stack_per_state[k])
      BY <1>2, <3>1 DEF Searching
    <3> QED BY <1>3, <1>4, <1>6, <1>7, <3>1, <3>2
  <2> QED BY <2>1, <2>2
<1> HIDE DEF n
<1>10. FramesAligned'
  <2>1. Len(trace') = (n + 1) + 0 /\ Trying' = 0
    BY <1>1, <1>2, <1>3, <1>4 DEF Trying
  <2> QED BY <1>1, <1>3, <1>4, <1>6, <1>7, <1>9, <2>1 DEF FramesAligned
<1>11. Searching'
  BY <1>1, <1>6, <1>8, <1>9, <1>10 DEF Searching
<1> QED BY <1>1, <1>3, <1>11 DEF TInv

\* Every step of the traversal is a step of a client of the simulator, or none.
LEMMA TNextKeeps == TInv /\ [TNext]_tvars => TInv' /\ [Next]_vars
<1> SUFFICES ASSUME TInv, [TNext]_tvars PROVE TInv' /\ [Next]_vars
  OBVIOUS
<1>1. CASE UNCHANGED tvars
  <2>1. UNCHANGED vars /\ UNCHANGED <<design, search>> /\ loc' = loc
    BY <1>1 DEF tvars
  <2>2. /\ trace' = trace /\ ret' = ret /\ (Pending' <=> Pending)
        /\ (Simulating => Simulating')
    BY <2>1, SimulatorStays
  <2>3. loc = "boot" => IInv' /\ OnlyInit'
    <3>1. IInv => IInv'
      BY <2>1, NextKeeps
    <3>2. Bottom' = Bottom
      BY <2>1 DEF vars, Bottom
    <3> QED BY <2>2, <3>1, <3>2 DEF TInv, OnlyInit
  <2>4. /\ TTypeOK' /\ Top' = Top
        /\ stack_per_state' = stack_per_state /\ curr_branch' = curr_branch
    BY <2>1, SearchStays DEF TInv, Searching, TTypeOK
  <2>5. Searching'
    BY <2>1, <2>2, <2>4
    DEF TInv, Searching, FramesAligned, Trying, JustCopied, has_valid_choice
  <2> QED BY <2>1, <2>2, <2>3, <2>5 DEF TInv
<1>2. CASE Stopped
  BY <1>1, <1>2 DEF Stopped
<1>3. CASE Boot \/ Enter \/ EnterUnreachable \/ EnterReachable \/ CopyHead \/ LeaveLast
  BY <1>3, BootKeeps, EnterKeeps, EnterUnreachableKeeps, EnterReachableKeeps, CopyHeadKeeps,
     LeaveLastKeeps DEF Next
<1>4. CASE LeaveState \/ TryChoice \/ Simulate \/ Snap \/ Check
  BY <1>4, LeaveStateKeeps, TryChoiceKeeps, SimulateKeeps, SnapKeeps, CheckKeeps DEF Next
<1>5. CASE TryNextChoice \/ TryDeeperChoice \/ RunOutOfChoices \/ NewState \/ Undo
  BY <1>5, TryNextKeeps, TryDeeperKeeps, RunOutKeeps, NewStateKeeps, UndoKeeps DEF Next
<1> QED BY <1>1, <1>2, <1>3, <1>4, <1>5 DEF TNext

LEMMA TInvariance == TSpec => []TInv
BY InitTInv, TNextKeeps, PTL DEF TSpec

\* A traversal is a client that follows the documented use of the simulator:
\* init comes first, and it backtracks only from frames that simulation steps
\* made, whatever the solver answers.
THEOREM TraversalUsesSimulatorAsDocumented == TSpec => UsesSimulatorAsDocumented
<1>1. TInit => Init
  BY DEF TInit
<1> QED BY <1>1, InitTInv, TNextKeeps, PTL DEF TSpec, Spec, UsesSimulatorAsDocumented

\* So a traversal never disturbs the simulator's stacks: its frames replay the
\* choices in force, under all their path constraints, and the symbols of
\* unassigned inputs are distinct.
THEOREM TraversalKeepsSimulator ==
  TSpec => [](StacksAligned /\ ChoicesReplay /\ PathIsConstrained /\ XSymbolsDistinct)
BY TraversalUsesSimulatorAsDocumented, StacksStayAligned, ChoicesAlwaysReplay,
   PathStaysConstrained, XSymbolsStayDistinct, PTL DEF UsesSimulatorAsDocumented

\* Inside the loop there are a recorded state and a stack of choices for each
\* frame of the simulator, and the recorded state is a copy of that frame.
THEOREM StacksOfSearchStayAligned ==
  TSpec => []SearchAligned
<1>1. TInv => SearchAligned
  BY DEF TInv, Searching, SearchAligned
<1> QED BY <1>1, TInvariance, PTL

\* A traversal that returns gives the simulator back as it was given to it.
THEOREM TraversalRestoresSimulator ==
  TSpec => [](loc \in {"skipped", "done"} => SimulatorRestored)
<1>1. TInv => (loc \in {"skipped", "done"} => SimulatorRestored)
  BY NoInputsLeft DEF TInv, Searching
<1> QED BY <1>1, TInvariance, PTL
-----------------------------------------------------------------------------
(***************************************************************************)
(* traverse_one_step.                                                      *)
(***************************************************************************)

\* A frame more while a choice is tried, a pending input before and after it.
OSearching ==
  /\ loc \in OLocations
  /\ Follows(init_choice)
  /\ loc \in {"sim", "snap", "check", "act"} => has_valid_choice(init_choice)
  /\ loc \notin {"boot", "thrown"} => /\ Len(trace) = 1 + Trying
                                      /\ Pending <=> loc \in {"sim", "undo"}

OInv == /\ IF loc = "boot" THEN IInv /\ OnlyInit /\ trace = <<>> ELSE Simulating
        /\ OSearching

LEMMA InitOInv == OInit => OInv
<1> SUFFICES ASSUME OInit PROVE OInv
  OBVIOUS
<1>1. IInv /\ trace = <<>>
  BY InitIInv DEF OInit, Init
<1>2. OSearching
  BY NewFollows DEF OInit, OSearching, OLocations
<1> QED BY <1>1, <1>2 DEF OInit, OInv, OnlyInit

\* The steps before the loop, and those that do not call the simulator.
LEMMA OEntryKeeps ==
  ASSUME OInv, OBoot \/ OEnter
  PROVE  (Start \/ Copy) /\ OInv'
<1>1. CASE OBoot
  <2>1. loc = "boot" /\ loc' = "start" /\ IInv /\ trace = <<>> /\ init_choice' = init_choice
    BY <1>1 DEF OBoot, GoTo, OInv
  <2>2. PICK given \in Roots : init(given)
    BY <1>1 DEF OBoot
  <2>3. Start /\ Simulating' /\ Len(trace') = 1 /\ ~ Pending'
    BY <2>1, <2>2, InitCall
  <2>4. OSearching'
    BY <2>1, <2>3 DEF OInv, OSearching, OLocations, Trying
  <2> QED BY <2>1, <2>3, <2>4 DEF OInv
<1>2. CASE OEnter
  <2>1. /\ loc = "start" /\ loc' = "entry" /\ Simulating /\ init_choice' = init_choice
        /\ Len(trace) = 1 + Trying /\ Trying = 0 /\ ~ Pending
    BY <1>2 DEF OEnter, GoTo, OInv, OSearching, Trying
  <2>2. Copy /\ Simulating' /\ trace' = trace /\ (Pending' <=> Pending)
    BY <1>2, <2>1, CopyCall, AssumptionsAreGiven DEF OEnter
  <2>3. OSearching'
    BY <2>1, <2>2 DEF OInv, OSearching, OLocations, Trying
  <2> QED BY <2>1, <2>2, <2>3 DEF OInv
<1> QED BY <1>1, <1>2

LEMMA OQueriesKeep ==
  ASSUME OInv, OEnterUnreachable \/ OEnterReachable \/ Finish \/ OCheck
  PROVE  UNCHANGED vars /\ OInv'
<1>1. /\ UNCHANGED vars /\ init_choice' = init_choice /\ loc # "boot" /\ loc' # "boot"
      /\ \/ loc = "entry" /\ loc' \in {"skipped", "head"}
         \/ loc = "head" /\ loc' = "done"
         \/ loc = "check" /\ loc' \in {"act", "thrown"}
  BY DEF OEnterUnreachable, OEnterReachable, Finish, OCheck, GoTo
<1>2. Simulating /\ trace' = trace /\ (Pending' <=> Pending) /\ Simulating'
  BY <1>1, SimulatorStays DEF OInv
<1>3. OSearching'
  BY <1>1, <1>2 DEF OInv, OSearching, OLocations, OEnded, Trying, has_valid_choice
<1> QED BY <1>1, <1>2, <1>3 DEF OInv

\* The steps of the loop that push and pop.
LEMMA OTryKeeps ==
  ASSUME OInv, OTryChoice
  PROVE  Choose /\ OInv'
<1>1. /\ loc = "head" /\ loc' = "sim" /\ has_valid_choice(init_choice)
      /\ set_input(InputAssignment(init_choice), ChoiceAssumptions(init_choice))
      /\ init_choice' = init_choice
  BY DEF OTryChoice, GoTo
<1>2. Simulating /\ Follows(init_choice) /\ Len(trace) = 1 + Trying
  BY <1>1 DEF OInv, OSearching
<1>3. Choose /\ Simulating' /\ trace' = trace /\ Pending'
  BY <1>1, <1>2, InputCall, InputsAreGiven, FormulasAreGiven
<1>4. OSearching'
  BY <1>1, <1>2, <1>3 DEF OSearching, OLocations, Trying, has_valid_choice
<1> QED BY <1>1, <1>3, <1>4 DEF OInv

LEMMA OSimulateKeeps ==
  ASSUME OInv, OSimulate
  PROVE  Advance /\ OInv'
<1>1. loc = "sim" /\ loc' = "snap" /\ sim_one_step /\ init_choice' = init_choice
  BY DEF OSimulate, GoTo
<1>2. Simulating /\ Len(trace) = 1 + Trying /\ Trying = 0
  BY <1>1 DEF OInv, OSearching, Trying
<1>3. Advance /\ Simulating' /\ Len(trace') = Len(trace) + 1 /\ ~ Pending'
  BY <1>1, <1>2, StepCall
<1>4. OSearching'
  BY <1>1, <1>2, <1>3 DEF OInv, OSearching, OLocations, Trying, has_valid_choice
<1> QED BY <1>1, <1>3, <1>4 DEF OInv

LEMMA OCopyKeeps ==
  ASSUME OInv, OSnap \/ ORunOutOfChoices
  PROVE  Copy /\ OInv'
<1>1. /\ get_curr_state(<<>>) /\ init_choice' = init_choice
      /\ \/ loc = "snap" /\ loc' = "check"
         \/ loc = "act" /\ loc' = "thrown"
  BY DEF OSnap, ORunOutOfChoices, GoTo
<1>2. Simulating
  BY <1>1 DEF OInv
<1>3. Copy /\ Simulating' /\ trace' = trace /\ (Pending' <=> Pending)
  BY <1>1, <1>2, CopyCall, AssumptionsAreGiven
<1>4. OSearching'
  BY <1>1, <1>3 DEF OInv, OSearching, OLocations, OEnded, Trying, has_valid_choice
<1> QED BY <1>1, <1>3, <1>4 DEF OInv

LEMMA OChooseAgainKeeps ==
  ASSUME OInv, OTryNextChoice \/ OTryDeeperChoice
  PROVE  Retreat /\ OInv'
<1>1. /\ loc = "act" /\ loc' = "undo" /\ backtrack
      /\ \/ init_choice' = next_choice(init_choice)
         \/ CanDeepen(init_choice) /\ init_choice' = deeper_choice(init_choice)
  BY DEF OTryNextChoice, OTryDeeperChoice, GoTo
<1>2. /\ Simulating /\ Len(trace) = 1 + Trying /\ Trying = 1 /\ ~ Pending
      /\ Follows(init_choice) /\ has_valid_choice(init_choice)
  BY <1>1 DEF OInv, OSearching, Trying
<1>3. Retreat /\ Simulating' /\ Len(trace') = Len(trace) - 1 /\ Pending'
  BY <1>1, <1>2, BacktrackCall
<1>4. Follows(init_choice)'
  <2>1. Follows(next_choice(init_choice))
    BY <1>2, NextFollows
  <2>2. CanDeepen(init_choice) => Follows(deeper_choice(init_choice))
    BY <1>2, DeeperChoice DEF has_valid_choice
  <2>3. \A s : init_choice' = s /\ Follows(s) => Follows(init_choice)'
    BY DEF Follows
  <2> QED BY <1>1, <2>1, <2>2, <2>3
<1>5. OSearching'
  BY <1>1, <1>2, <1>3, <1>4 DEF OSearching, OLocations, Trying
<1> QED BY <1>1, <1>3, <1>5 DEF OInv

LEMMA OUndoKeeps ==
  ASSUME OInv, OUndo
  PROVE  Withdraw /\ OInv'
<1>1. loc = "undo" /\ loc' = "head" /\ undo_set_input /\ init_choice' = init_choice
  BY DEF OUndo, GoTo
<1>2. Simulating /\ Len(trace) = 1 + Trying
  BY <1>1 DEF OInv, OSearching
<1>3. Withdraw /\ Simulating' /\ trace' = trace /\ ~ Pending'
  BY <1>1, <1>2, UndoCall
<1>4. OSearching'
  BY <1>1, <1>2, <1>3 DEF OInv, OSearching, OLocations, Trying
<1> QED BY <1>1, <1>3, <1>4 DEF OInv

LEMMA ONextKeeps == OInv /\ [ONext]_ovars => OInv' /\ [Next]_vars
<1> SUFFICES ASSUME OInv, [ONext]_ovars PROVE OInv' /\ [Next]_vars
  OBVIOUS
<1>1. CASE UNCHANGED ovars
  <2>1. UNCHANGED vars /\ loc' = loc /\ init_choice' = init_choice
    BY <1>1 DEF ovars
  <2>2. trace' = trace /\ (Pending' <=> Pending) /\ (Simulating => Simulating')
    BY <2>1, SimulatorStays
  <2>3. loc = "boot" => IInv' /\ OnlyInit'
    <3>1. IInv => IInv'
      BY <2>1, NextKeeps
    <3>2. Bottom' = Bottom
      BY <2>1 DEF vars, Bottom
    <3> QED BY <2>2, <3>1, <3>2 DEF OInv, OnlyInit
  <2>4. OSearching'
    BY <2>1, <2>2 DEF OInv, OSearching, Trying, has_valid_choice
  <2> QED BY <2>1, <2>2, <2>3, <2>4 DEF OInv
<1>2. CASE OStopped
  BY <1>1, <1>2 DEF OStopped
<1>3. CASE OBoot \/ OEnter \/ OEnterUnreachable \/ OEnterReachable \/ Finish \/ OCheck
  BY <1>3, OEntryKeeps, OQueriesKeep DEF Next
<1>4. CASE OTryChoice \/ OSimulate \/ OSnap \/ ORunOutOfChoices
  BY <1>4, OTryKeeps, OSimulateKeeps, OCopyKeeps DEF Next
<1>5. CASE OTryNextChoice \/ OTryDeeperChoice \/ OUndo
  BY <1>5, OChooseAgainKeeps, OUndoKeeps DEF Next
<1> QED BY <1>1, <1>2, <1>3, <1>4, <1>5 DEF ONext

LEMMA OInvariance == OSpec => []OInv
BY InitOInv, ONextKeeps, PTL DEF OSpec

\* traverse_one_step follows the documented use of the simulator, too.
THEOREM OneStepUsesSimulatorAsDocumented == OSpec => Spec
<1>1. OInit => Init
  BY DEF OInit
<1> QED BY <1>1, InitOInv, ONextKeeps, PTL DEF OSpec, Spec

\* A traverse_one_step that returns gives the simulator back as it was given to it.
THEOREM OneStepRestoresSimulator ==
  OSpec => [](loc \in {"skipped", "done"} => SimulatorRestored)
<1>1. OInv => (loc \in {"skipped", "done"} => SimulatorRestored)
  BY NoInputsLeft DEF OInv, OSearching, Trying
<1> QED BY <1>1, OInvariance, PTL
-----------------------------------------------------------------------------
(***************************************************************************)
(* What the traversals record.  A state is recorded with path constraints  *)
(* that say of each of its steps that the cell was allowed, and of the     *)
(* last node that some cell is; so under every model of these constraints  *)
(* the nodes its frame went through are a walk in the graph of the design. *)
(***************************************************************************)

\* The node a path begins with.
FirstNode(p, m) ==
  LET first == p[1][CHOOSE v \in StateVars : TRUE]
  IN IF first \in DOMAIN m THEN m[first] ELSE first

\* The recursive function in NodeOf: the nodes that the first n assignments of
\* a path lead to.
Follow(d, p, m, root, n, g) ==
  g = [k \in 1 .. n |-> IF k = 1 THEN root ELSE d.next[g[k - 1]][CellOf(p[k], m)]]

LEMMA FollowIs ==
  ASSUME NEW d, NEW p, NEW m, NEW root, NEW n \in Nat, NEW g
  PROVE  Follow(d, p, m, root, n, g) =>
           /\ n > 0 => g[1] = root
           /\ \A k \in 2 .. n : g[k] = d.next[g[k - 1]][CellOf(p[k], m)]
<1> SUFFICES ASSUME Follow(d, p, m, root, n, g)
             PROVE  /\ n > 0 => g[1] = root
                    /\ \A k \in 2 .. n : g[k] = d.next[g[k - 1]][CellOf(p[k], m)]
  OBVIOUS
<1> DEFINE body(j) == IF j = 1 THEN root ELSE d.next[g[j - 1]][CellOf(p[j], m)]
<1>1. g = [k \in 1 .. n |-> body(k)]
  BY DEF Follow
<1>2. \A k \in 1 .. n : g[k] = body(k)
  <2> HIDE DEF body
  <2> QED BY <1>1
<1> QED BY <1>2

LEMMA FollowExists ==
  ASSUME NEW d, NEW p, NEW m, NEW root
  PROVE  \A n \in Nat : \E g : Follow(d, p, m, root, n, g)
<1> DEFINE Defined(n) == \E g : Follow(d, p, m, root, n, g)
           S == {n \in Nat : Defined(n)}
<1>1. 0 \in S
  <2>1. <<>> = [k \in 1 .. 0 |->
                  IF k = 1 THEN root ELSE d.next[<<>>[k - 1]][CellOf(p[k], m)]]
    OBVIOUS
  <2> QED BY <2>1 DEF Follow
<1>2. ASSUME NEW n \in Nat, n \in S
      PROVE  n + 1 \in S
  <2>1. PICK g : Follow(d, p, m, root, n, g)
    BY <1>2
  <2> DEFINE h == [k \in 1 .. n + 1 |->
                     IF k <= n THEN g[k]
                     ELSE IF k = 1 THEN root ELSE d.next[g[n]][CellOf(p[k], m)]]
  <2>2. \A k \in 1 .. n :
          g[k] = IF k = 1 THEN root ELSE d.next[g[k - 1]][CellOf(p[k], m)]
    <3>1. /\ n > 0 => g[1] = root
          /\ \A k \in 2 .. n : g[k] = d.next[g[k - 1]][CellOf(p[k], m)]
      BY <2>1, FollowIs
    <3>2. \A k \in 1 .. n : n > 0 /\ (k = 1 \/ k \in 2 .. n)
      OBVIOUS
    <3>3. \A k \in 2 .. n : k # 1
      OBVIOUS
    <3> QED BY <3>1, <3>2, <3>3
  <2>3. \A k \in 1 .. n + 1 :
          h[k] = IF k = 1 THEN root ELSE d.next[h[k - 1]][CellOf(p[k], m)]
    BY <2>2
  <2>4. h = [k \in 1 .. n + 1 |->
               IF k = 1 THEN root ELSE d.next[h[k - 1]][CellOf(p[k], m)]]
    BY <2>3
  <2>5. Defined(n + 1)
    <3> HIDE DEF h
    <3> QED BY <2>4 DEF Follow
  <2> HIDE DEF Defined
  <2> QED BY <2>5
<1>3. \A n \in Nat : n \in S
  <2> HIDE DEF S
  <2> QED BY <1>1, <1>2, SetInduction
<1> QED BY <1>3

\* The nodes g that a path goes through.
Visits(d, p, m, g) ==
  /\ g[1] = FirstNode(p, m)
  /\ \A k \in 2 .. Len(p) : g[k] = d.next[g[k - 1]][CellOf(p[k], m)]

LEMMA NodeIsLast ==
  ASSUME NEW d, NEW p, Len(p) \in Nat \ {0}, NEW m
  PROVE  \E g : NodeOf(d, p, m) = g[Len(p)] /\ Visits(d, p, m, g)
<1> DEFINE root == FirstNode(p, m)
           g == CHOOSE f : f = [k \in 1 .. Len(p) |->
                  IF k = 1 THEN root ELSE d.next[f[k - 1]][CellOf(p[k], m)]]
<1>1. g = CHOOSE f : Follow(d, p, m, root, Len(p), f)
  BY DEF Follow
<1>2. NodeOf(d, p, m) = g[Len(p)]
  BY DEF NodeOf, FirstNode
<1> HIDE DEF g, root
<1>3. Follow(d, p, m, root, Len(p), g)
  BY <1>1, FollowExists
<1>4. Visits(d, p, m, g)
  BY <1>3, FollowIs DEF Visits, root
<1> QED BY <1>2, <1>4

\* A prefix of a path goes through the same nodes.
LEMMA NodesOfPrefixes ==
  ASSUME NEW d, NEW p \in Path, p # <<>>, NEW m
  PROVE  \E g : /\ \A k \in 1 .. Len(p) : NodeOf(d, SubSeq(p, 1, k), m) = g[k]
                /\ Visits(d, p, m, g)
<1>1. Len(p) \in Nat \ {0}
  BY DEF Path
<1>2. PICK g : Visits(d, p, m, g)
  BY <1>1, NodeIsLast
<1>3. ASSUME NEW k \in 1 .. Len(p)
      PROVE  NodeOf(d, SubSeq(p, 1, k), m) = g[k]
  <2> DEFINE q == SubSeq(p, 1, k)
  <2>1. Len(q) = k /\ k \in Nat \ {0} /\ \A j \in 1 .. k : q[j] = p[j]
    <3>1. k \in 0 .. Len(p) /\ k \in Nat \ {0} /\ p \in Seq(Assignment)
      BY <1>1 DEF Path
    <3> QED BY <3>1, PrefixType
  <2> HIDE DEF q
  <2>2. PICK h : NodeOf(d, q, m) = h[Len(q)] /\ Visits(d, q, m, h)
    BY <2>1, NodeIsLast
  <2>3. h[1] = g[1]
    <3>1. q[1] = p[1]
      BY <2>1
    <3> QED BY <1>2, <2>2, <3>1 DEF Visits, FirstNode
  <2> DEFINE S == {j \in Nat : j + 1 \in 1 .. k => h[j + 1] = g[j + 1]}
  <2>4. 0 \in S
    BY <2>3
  <2>5. ASSUME NEW j \in Nat, j \in S
        PROVE  j + 1 \in S
    <3> SUFFICES ASSUME (j + 1) + 1 \in 1 .. k
                 PROVE  h[(j + 1) + 1] = g[(j + 1) + 1]
      OBVIOUS
    <3> DEFINE i == (j + 1) + 1
    <3>1. i \in 2 .. k /\ i \in 2 .. Len(p) /\ i - 1 = j + 1 /\ j + 1 \in 1 .. k /\ i \in 1 .. k
      BY <1>1, <2>1
    <3>2. h[i - 1] = g[i - 1]
      BY <2>5, <3>1
    <3> HIDE DEF i
    <3>3. h[i] = d.next[h[i - 1]][CellOf(p[i], m)] /\ g[i] = d.next[g[i - 1]][CellOf(p[i], m)]
      BY <1>2, <2>1, <2>2, <3>1 DEF Visits
    <3> QED BY <3>2, <3>3 DEF i
  <2>6. \A j \in Nat : j \in S
    <3> HIDE DEF S
    <3> QED BY <2>4, <2>5, SetInduction
  <2>7. k - 1 \in Nat /\ (k - 1) + 1 = k
    BY <2>1
  <2>8. h[k] = g[k]
    BY <2>1, <2>6, <2>7
  <2> QED BY <2>1, <2>2, <2>8 DEF q
<1> QED BY <1>2, <1>3
-----------------------------------------------------------------------------
\* An assignment of the variables vs whose symbols were made for them.
Own(vs, a) ==
  /\ a \in [vs -> Val \cup Sym]
  /\ \A v \in vs : a[v] \in Sym => a[v].var = v

\* The first assignment of a path is one of state variables, the others are of
\* inputs.
Formed(p) ==
  /\ p # <<>>
  /\ Own(StateVars, p[1])
  /\ \A k \in 2 .. Len(p) : Own(InVars, p[k])

LEMMA ValuesOfSymbols ==
  ASSUME NEW S, NEW m \in Valuations(S)
  PROVE  /\ DOMAIN m = S
         /\ \A x \in S : /\ x.var \in InVars => m[x] \in Bits
                         /\ x.var \in StateVars => m[x] \in Nodes
<1> DEFINE F == [{x \in S : x.var \in InVars} -> Bits]
           G == [{x \in S : x.var \in StateVars} -> Nodes]
           Both(f, g) == [x \in S |-> IF x.var \in InVars THEN f[x] ELSE g[x]]
<1>0. PICK f \in F, g \in G : m = Both(f, g)
  <2>1. Valuations(S) = {Both(f, g) : f \in F, g \in G}
    BY DEF Valuations
  <2> HIDE DEF Both, F, G
  <2> QED BY <2>1
<1>1. /\ f \in [{x \in S : x.var \in InVars} -> Bits]
      /\ g \in [{x \in S : x.var \in StateVars} -> Nodes]
      /\ m = [x \in S |-> IF x.var \in InVars THEN f[x] ELSE g[x]]
  BY <1>0
<1> HIDE DEF F, G, Both
<1>2. \A v \in StateVars : v \notin InVars
  BY SymSimAssumption
<1> QED BY <1>1, <1>2

LEMMA CellsAreCells ==
  ASSUME NEW S \in SUBSET Sym, NEW m \in Valuations(S), NEW a, Own(InVars, a)
  PROVE  CellOf(a, m) \in Cell
<1>1. (CHOOSE b \in Bits : TRUE) \in Bits
  BY TraceManagerAssumption
<1> DEFINE any == CHOOSE b \in Bits : TRUE
<1>2. ASSUME NEW v \in InVars
      PROVE  (IF a[v] \in DOMAIN m THEN m[a[v]] ELSE IF a[v] \in Bits THEN a[v] ELSE any) \in Bits
  <2>1. a[v] \in DOMAIN m => m[a[v]] \in Bits
    BY ValuesOfSymbols DEF Own
  <2> HIDE DEF any
  <2> QED BY <1>1, <2>1 DEF any
<1> HIDE DEF any
<1>3. CellOf(a, m) = [v \in InVars |-> IF a[v] \in DOMAIN m THEN m[a[v]]
                                      ELSE IF a[v] \in Bits THEN a[v] ELSE any]
  BY DEF CellOf, any
<1> QED BY <1>2, <1>3 DEF Cell

\* The state variable, the first assignment and its node.
LEMMA FirstNodes ==
  ASSUME NEW s \in StateAsmpt, Formed(s.sv), NEW m \in Valuations(SymsOfState(design, s)),
         s.sv[1] = trace[1][1], Range(trace[1][1]) \subseteq Nodes \cup Sym
  PROVE  FirstNode(s.sv, m) \in InitialNodes /\ InitialNodes \subseteq Nodes
<1> DEFINE v == CHOOSE u \in StateVars : TRUE
           S == SymsOfState(design, s)
<1>1. v \in StateVars
  <2>1. StateVars # {}
    BY TraceManagerAssumption, FS_EmptySet
  <2> QED BY <2>1
<1>2. InitialNodes \subseteq Nodes
  BY DEF InitialNodes
<1> DEFINE first == s.sv[1][v]
<1>3. first = Root /\ FirstNode(s.sv, m) = IF first \in DOMAIN m THEN m[first] ELSE first
  BY DEF Root, FirstNode
<1>4. DOMAIN s.sv[1] = StateVars /\ (first \in Sym => first.var = v)
  BY <1>1 DEF Formed, Own
<1>5. S \subseteq Sym
  BY DEF SymsOfState, SymsOfPath, SymsOf
<1> HIDE DEF v
<1>6. first \in Range(s.sv[1]) /\ first \in Nodes \cup Sym
  BY <1>1, <1>4 DEF Range
<1>7. CASE first \in Nodes
  <2>1. first \notin Sym
    BY <1>7, TraceManagerAssumption, SymSimAssumption
  <2>2. first \notin DOMAIN m
    BY <1>5, <2>1, ValuesOfSymbols
  <2> QED BY <1>2, <1>3, <1>7, <2>2 DEF InitialNodes
<1>8. CASE first \in Sym
  <2>1. first \notin Nodes
    BY <1>8, TraceManagerAssumption, SymSimAssumption
  <2>2. first \in S
    <3>1. 1 \in 1 .. Len(s.sv)
      BY DEF Formed, StateAsmpt, Path
    <3>2. first \in SymsOf(s.sv[1])
      BY <1>6, <1>8 DEF SymsOf
    <3>3. first \in SymsOfPath(design, s.sv)
      BY <1>1, <1>4, <1>8, <3>1, <3>2 DEF SymsOfPath
    <3> QED BY <3>3 DEF SymsOfState
  <2>3. m[first] \in Nodes /\ first \in DOMAIN m
    BY <1>1, <1>4, <1>8, <2>2, ValuesOfSymbols
  <2> QED BY <1>2, <1>3, <2>1, <2>3 DEF InitialNodes
<1> QED BY <1>6, <1>7, <1>8
-----------------------------------------------------------------------------
\* The nodes g are a walk in the graph of the design.
Walks(g, n) ==
  /\ \A k \in 1 .. n : g[k] \in Nodes
  /\ \A k \in 2 .. n : g[k] \in Successors(g[k - 1])

LEMMA PrefixParts ==
  ASSUME NEW X, NEW s \in Seq(X), NEW k \in 2 .. Len(s)
  PROVE  Front(SubSeq(s, 1, k)) = SubSeq(s, 1, k - 1) /\ Last(SubSeq(s, 1, k)) = s[k]
<1> DEFINE q == SubSeq(s, 1, k)
           r == SubSeq(s, 1, k - 1)
<1>0. Len(s) \in Nat /\ k \in 0 .. Len(s) /\ k - 1 \in 0 .. Len(s) /\ k \in Nat \ {0, 1}
  OBVIOUS
<1>1. q \in Seq(X) /\ Len(q) = k /\ \A j \in 1 .. k : q[j] = s[j]
  BY <1>0, PrefixType
<1>2. r \in Seq(X) /\ Len(r) = k - 1 /\ \A j \in 1 .. k - 1 : r[j] = s[j]
  BY <1>0, PrefixType
<1> HIDE DEF q, r
<1>3. q # <<>>
  BY <1>0, <1>1
<1>4. /\ Front(q) \in Seq(X) /\ Len(Front(q)) = k - 1
      /\ \A j \in 1 .. k - 1 : Front(q)[j] = q[j]
  BY <1>1, <1>3, FrontType
<1>5. \A j \in 1 .. k - 1 : j \in 1 .. k
  BY <1>0
<1>6. Front(q) = r
  BY <1>1, <1>2, <1>4, <1>5, SameSequence
<1>7. Last(q) = s[k]
  BY <1>0, <1>1 DEF Last
<1> QED BY <1>6, <1>7 DEF q, r

\* Where the path constraints hold, a path is a walk.
LEMMA PathsAreWalks ==
  ASSUME IsDesign(design), NEW p \in Path, Formed(p), NEW i \in Assignment,
         NEW A \in Seq(Assumption), Constrained(Append(p, i), ToSet(A)),
         NEW S \in SUBSET Sym, NEW m \in Valuations(S),
         \A j \in 1 .. Len(A) : Holds(design, A[j], m),
         FirstNode(p, m) \in Nodes
  PROVE  \E g : /\ NodeOf(design, p, m) = g[Len(p)] /\ g[1] = FirstNode(p, m)
                /\ Walks(g, Len(p))
<1> DEFINE q == Append(p, i)
           n == Len(p)
<1>1. /\ q \in Seq(Assignment) /\ q # <<>> /\ Len(q) = n + 1
      /\ \A k \in 1 .. n : q[k] = p[k]
  BY AppendType DEF Path
<1>2. n \in Nat \ {0} /\ p \in Seq(Assignment)
  BY DEF Formed, Path
<1>3. SubSeq(q, 1, n) = p
  <2>1. n \in 0 .. Len(q)
    BY <1>1, <1>2
  <2>2. /\ SubSeq(q, 1, n) \in Seq(Assignment) /\ Len(SubSeq(q, 1, n)) = n
        /\ \A k \in 1 .. n : SubSeq(q, 1, n)[k] = q[k]
    <3> HIDE DEF q, n
    <3> QED BY <1>1, <2>1, PrefixType
  <2> HIDE DEF q
  <2> QED BY <1>1, <1>2, <2>2, SameSequence
<1>4. Constrained(q, ToSet(A))
  OBVIOUS
<1> HIDE DEF q, n
<1>5. PICK g : /\ \A k \in 1 .. Len(q) : NodeOf(design, SubSeq(q, 1, k), m) = g[k]
               /\ Visits(design, q, m, g)
  BY <1>1, NodesOfPrefixes DEF Path
<1>6. NodeOf(design, p, m) = g[n]
  <2>1. n \in 1 .. Len(q)
    BY <1>1, <1>2
  <2> QED BY <1>3, <1>5, <2>1
<1>7. g[1] = FirstNode(p, m)
  <2>1. q[1] = p[1]
    BY <1>1, <1>2
  <2> QED BY <1>5, <2>1 DEF Visits, FirstNode
<1>8. \A k \in 2 .. n : q[k] = p[k] /\ g[k] = design.next[g[k - 1]][CellOf(q[k], m)]
  <2>1. \A k \in 2 .. n : k \in 1 .. n /\ k \in 2 .. Len(q)
    BY <1>1, <1>2
  <2> QED BY <1>1, <1>5, <2>1 DEF Visits
<1>9. ASSUME HasConstraints, NEW k \in 2 .. n + 1
      PROVE  CellOf(q[k], m) \in design.allowed[g[k - 1]]
  <2> DEFINE a == TsOver(q, k)
  <2>1. k \in 2 .. Len(q) /\ k - 1 \in 1 .. Len(q)
    BY <1>1, <1>2
  <2>2. a \in ToSet(A)
    BY <1>4, <1>9, <2>1 DEF Constrained
  <2>3. a.what = "ts" /\ a.over = SubSeq(q, 1, k)
    BY DEF TsOver
  <2> HIDE DEF a
  <2>4. PICK j \in 1 .. Len(A) : A[j] = a
    BY <2>2 DEF ToSet
  <2>5. Holds(design, a, m)
    BY <2>4
  <2>6. Front(a.over) = SubSeq(q, 1, k - 1) /\ Last(a.over) = q[k]
    BY <1>1, <2>1, <2>3, PrefixParts
  <2>7. CellOf(Last(a.over), m) \in design.allowed[NodeOf(design, Front(a.over), m)]
    BY <2>3, <2>5 DEF Holds
  <2> QED BY <1>5, <2>1, <2>6, <2>7
<1>10. \A k \in 2 .. n : CellOf(q[k], m) \in Cell
  BY <1>8, CellsAreCells DEF Formed, n
<1>11. design.next \in [Nodes -> [Cell -> Nodes]] /\ design.allowed \in [Nodes -> SUBSET Cell]
  BY DEF IsDesign
<1>12. \A k \in 1 .. n : g[k] \in Nodes
  <2> DEFINE T == {k \in Nat : k + 1 \in 1 .. n => g[k + 1] \in Nodes}
  <2>1. 0 \in T
    BY <1>7
  <2>2. ASSUME NEW k \in Nat, k \in T
        PROVE  k + 1 \in T
    <3> SUFFICES ASSUME (k + 1) + 1 \in 1 .. n
                 PROVE  g[(k + 1) + 1] \in Nodes
      OBVIOUS
    <3> DEFINE h == (k + 1) + 1
    <3>1. h \in 2 .. n /\ h - 1 = k + 1 /\ k + 1 \in 1 .. n
      BY <1>2
    <3>2. g[h - 1] \in Nodes
      BY <2>2, <3>1
    <3> HIDE DEF h
    <3>3. g[h] = design.next[g[h - 1]][CellOf(q[h], m)] /\ CellOf(q[h], m) \in Cell
      BY <1>8, <1>10, <3>1
    <3>4. g[h] \in Nodes
      BY <1>11, <3>2, <3>3
    <3> QED BY <3>4 DEF h
  <2>3. \A k \in Nat : k \in T
    <3> HIDE DEF T
    <3> QED BY <2>1, <2>2, SetInduction
  <2>4. \A k \in 1 .. n : k - 1 \in Nat /\ (k - 1) + 1 = k
    BY <1>2
  <2> QED BY <2>3, <2>4
<1>13. Cell # {}
  <2>1. PICK b \in Bits : TRUE
    BY TraceManagerAssumption
  <2>2. [v \in InVars |-> b] \in Cell
    BY DEF Cell
  <2> QED BY <2>2
<1>14. ~ HasConstraints => \A x \in Nodes : design.allowed[x] = Cell
  BY DEF IsDesign
<1>15. \A k \in 1 .. n : Live(g[k])
  <2> TAKE k \in 1 .. n
  <2>1. CASE HasConstraints
    <3>1. k + 1 \in 2 .. n + 1 /\ (k + 1) - 1 = k
      BY <1>2
    <3>2. CellOf(q[k + 1], m) \in design.allowed[g[k]]
      BY <1>9, <2>1, <3>1
    <3> QED BY <3>2 DEF Live
  <2>2. CASE ~ HasConstraints
    BY <1>12, <1>13, <1>14, <2>2 DEF Live
  <2> QED BY <2>1, <2>2
<1>16. ASSUME NEW k \in 2 .. n
       PROVE  g[k] \in Successors(g[k - 1])
  <2>1. k \in 1 .. n /\ k - 1 \in 1 .. n /\ k \in 2 .. n + 1
    BY <1>2
  <2>2. CellOf(q[k], m) \in design.allowed[g[k - 1]]
    BY <1>9, <1>10, <1>12, <1>14, <2>1
  <2> QED BY <1>8, <1>12, <1>15, <2>1, <2>2 DEF Successors
<1>17. Walks(g, n)
  BY <1>12, <1>16 DEF Walks
<1> QED BY <1>6, <1>7, <1>17 DEF n
-----------------------------------------------------------------------------
\* A state can be reached, and gone on from, if its path constraints hold: they
\* have the constraints over each of its inputs and over one more.
Reached(s) ==
  /\ Formed(s.sv)
  /\ \E i \in Assignment : Constrained(Append(s.sv, i), ToSet(s.asmpt))

\* What the simulator holds are such paths and states.
Orderly ==
  /\ \A k \in 1 .. Len(trace) : Formed(trace[k])
  /\ \A k \in 1 .. Len(history_choice) : Own(InVars, history_choice[k].var_assign)
  /\ ret # NoState => Reached(ret)

LEMMA CompleteIsOwn ==
  ASSUME IInv, NEW vs \in SUBSET Vars, NEW given \in Given(vs), CanMint(Unassigned(vs, given))
  PROVE  Own(vs, Complete(vs, given))
<1>1. Complete(vs, given) \in [vs -> Val \cup Sym]
  BY CompleteType DEF IInv, TypeOK
<1>2. \A v \in DOMAIN given : given[v] \in Val /\ given[v] \notin Sym
  BY SymSimAssumption DEF Given
<1>3. \A v \in vs : Complete(vs, given)[v] =
                      IF v \in DOMAIN given THEN given[v] ELSE free_make_symbol(v)
  BY DEF Complete
<1>4. \A v \in vs : free_make_symbol(v).var = v
  BY DEF free_make_symbol
<1> HIDE DEF free_make_symbol
<1> QED BY <1>1, <1>2, <1>3, <1>4 DEF Own

LEMMA FormedAppend ==
  ASSUME NEW p \in Path, Formed(p), NEW a \in Assignment, Own(InVars, a)
  PROVE  Formed(Append(p, a))
<1> DEFINE q == Append(p, a)
<1>1. /\ q \in Seq(Assignment) /\ q # <<>> /\ Len(q) = Len(p) + 1
      /\ \A k \in 1 .. Len(p) : q[k] = p[k]
      /\ q[Len(p) + 1] = a
  BY AppendType DEF Path
<1>2. Len(p) \in Nat \ {0}
  BY DEF Formed, Path
<1> HIDE DEF q
<1>3. q[1] = p[1]
  BY <1>1, <1>2
<1>4. ASSUME NEW k \in 2 .. Len(q)
      PROVE  Own(InVars, q[k])
  <2>1. k = Len(p) + 1 \/ (k \in 1 .. Len(p) /\ k \in 2 .. Len(p))
    BY <1>1, <1>2
  <2> QED BY <1>1, <2>1 DEF Formed
<1>5. Formed(q)
  BY <1>1, <1>3, <1>4 DEF Formed
<1> QED BY <1>5 DEF q

\* A copied state has the constraints over the input that is pending, or over
\* the one that get_curr_state has pushed for the purpose.
LEMMA CopyGoesOn ==
  ASSUME IInv, Copy
  PROVE  HasConstraints => \E i \in Assignment :
           [what |-> "ts", over |-> Append(Last(trace), i)] \in ToSet(ret'.asmpt)
<1> SUFFICES ASSUME HasConstraints
             PROVE  \E i \in Assignment :
                      [what |-> "ts", over |-> Append(Last(trace), i)] \in ToSet(ret'.asmpt)
  OBVIOUS
<1>1. PICK pre \in PreLists : get_curr_state(pre)
  BY DEF Copy
<1>2. trace # <<>> /\ history_assumptions \in Seq(Seq(Assumption))
  BY CopyAdds DEF IInv, TypeOK
<1> DEFINE n == Len(trace)
<1>3. /\ n \in Nat \ {0} /\ Last(trace) = trace[n] /\ Last(trace) \in Path
      /\ history_assumptions # <<>> /\ Len(history_assumptions) = n
      /\ Pending => /\ history_choice # <<>> /\ Len(history_choice) = n
                    /\ Last(history_choice) = history_choice[n]
                    /\ Last(history_choice) \in ChoiceItem
  BY <1>2, Shape DEF IInv
<1>4. n \in 1 .. n
  BY <1>3
<1>5. CASE get_curr_state_pending
  <2>1. Pending /\ ret'.asmpt = all_assumptions(history_assumptions)
    BY <1>5 DEF get_curr_state_pending
  <2> DEFINE c == history_choice[n]
             over == Append(trace[n], c.var_assign)
             A == AddedAssumptions(c.assumptions, over)
             B == SubSeq(history_assumptions[n], 1, c.assmpt_len)
  <2>2. c \in ChoiceItem /\ n \in 1 .. Len(history_choice)
    BY <1>3, <1>4, <2>1
  <2>3. c.var_assign \in Assignment /\ c.assumptions \in Seq(Pre) /\ c.assmpt_len \in Nat
    BY <2>2 DEF ChoiceItem, Assignment
  <2>4. over \in Path
    BY <1>3, <2>3 DEF Path
  <2>5. c.assmpt_len <= Len(history_assumptions[n]) /\ history_assumptions[n] = B \o A
    BY <2>2 DEF IInv, Replay, AssumptionsReplayChoices
  <2>6. history_assumptions[n] \in Seq(Assumption)
    BY <1>2, <1>3, <1>4
  <2>7. [what |-> "ts", over |-> over] \in ToSet(A)
    BY <2>3, <2>4, AddedConstraints
  <2>8. A \in Seq(Assumption)
    <3>1. Len(trace) - 1 \in Int
      BY <1>3
    <3> HIDE DEF over, c
    <3> QED BY <2>3, <2>4, <3>1, AddedType
  <2>9. B \in Seq(Assumption)
    <3>1. c.assmpt_len \in 0 .. Len(history_assumptions[n])
      BY <2>3, <2>5, <2>6
    <3> HIDE DEF c
    <3> QED BY <2>6, <3>1, PrefixType
  <2> HIDE DEF A, B
  <2>10. ToSet(history_assumptions[n]) = ToSet(B) \cup ToSet(A)
    BY <2>5, <2>8, <2>9, ConcatElements
  <2>11. ToSet(history_assumptions[n]) \subseteq ToSet(ret'.asmpt)
    BY <1>4, <2>1, ListsAreCollected
  <2> HIDE DEF c
  <2> QED BY <1>3, <2>3, <2>7, <2>10, <2>11
<1>6. CASE get_curr_state_pushed(pre)
  <2> DEFINE i == Complete(InVars, <<>>)
             over == Append(Last(trace), i)
             A == AddedAssumptions(pre, over)
             pushed == PushTop(history_assumptions, A)
  <2>1. CanMint(InVars) /\ ret'.asmpt = FlattenSeq(pushed)
    BY <1>6 DEF get_curr_state_pushed, all_assumptions
  <2>2. i \in Assignment
    <3>1. InVars \in SUBSET Vars /\ Unassigned(InVars, <<>>) = InVars
      BY DEF Vars, Unassigned
    <3>2. <<>> \in Given(InVars)
      <4>1. <<>> \in [{} -> Val] /\ {} \in SUBSET InVars
        OBVIOUS
      <4> QED BY <4>1 DEF Given
    <3>3. i \in [InVars -> Val \cup Sym]
      BY <2>1, <3>1, <3>2, CompleteType DEF IInv, TypeOK
    <3> QED BY <3>3 DEF Assignment
  <2> HIDE DEF i
  <2>3. over \in Path
    BY <1>3, <2>2 DEF Path
  <2>4. pre \in Seq(Pre) /\ A \in Seq(Assumption)
    <3>1. Len(trace) - 1 \in Int /\ pre \in Seq(Pre)
      BY <1>3, PreListType
    <3> HIDE DEF over
    <3> QED BY <2>3, <3>1, AddedType
  <2>5. [what |-> "ts", over |-> over] \in ToSet(A)
    BY <2>3, <2>4, AddedConstraints
  <2> HIDE DEF A, over
  <2>6. /\ pushed \in Seq(Seq(Assumption)) /\ Len(pushed) = n
        /\ pushed[n] = history_assumptions[n] \o A
    BY <1>2, <1>3, <2>4, PushTopType
  <2> HIDE DEF pushed
  <2>7. ToSet(pushed[n]) = ToSet(history_assumptions[n]) \cup ToSet(A)
    <3>1. history_assumptions[n] \in Seq(Assumption)
      BY <1>2, <1>3, <1>4
    <3> QED BY <2>4, <2>6, <3>1, ConcatElements
  <2>8. ToSet(pushed[n]) \subseteq ToSet(FlattenSeq(pushed))
    <3>1. n \in 1 .. Len(pushed)
      BY <1>4, <2>6
    <3> QED BY <2>6, <3>1, FlattenElements
  <2> QED BY <2>1, <2>2, <2>5, <2>7, <2>8 DEF over
<1> QED BY <1>1, <1>5, <1>6 DEF get_curr_state

LEMMA CopyIsReached ==
  ASSUME IInv, AllConstrained, Orderly, Copy
  PROVE  Orderly'
<1>1. /\ trace # <<>> /\ UNCHANGED stacks /\ ret' \in StateAsmpt /\ ret'.sv = Last(trace)
  BY CopyAdds
<1>2. trace' = trace /\ history_choice' = history_choice
  BY <1>1 DEF stacks
<1>3. /\ Len(trace) \in Nat \ {0} /\ Last(trace) = trace[Len(trace)]
  BY <1>1, Shape DEF IInv
<1>4. Formed(ret'.sv)
  <2>1. Len(trace) \in 1 .. Len(trace)
    BY <1>3
  <2> QED BY <1>1, <1>3, <2>1 DEF Orderly
<1>5. AllConstrained'
  BY CopyConstrains
<1>6. NoState \notin StateAsmpt
  BY NoStateAssumption
<1>7. Constrained(ret'.sv, ToSet(ret'.asmpt))
  BY <1>1, <1>5, <1>6 DEF AllConstrained
<1>8. ret'.sv \in Path
  BY <1>1 DEF StateAsmpt
<1>9. \E i \in Assignment : Constrained(Append(ret'.sv, i), ToSet(ret'.asmpt))
  <2>1. CASE HasConstraints
    <3>1. PICK i \in Assignment :
                 [what |-> "ts", over |-> Append(ret'.sv, i)] \in ToSet(ret'.asmpt)
      BY <1>1, <2>1, CopyGoesOn
    <3>2. Constrained(Append(ret'.sv, i), ToSet(ret'.asmpt))
      BY <1>7, <1>8, <3>1, ConstrainedAppend
    <3> QED BY <3>2
  <2>2. CASE ~ HasConstraints
    <3>1. PICK i \in Assignment : TRUE
      <4>1. 1 \in 1 .. Len(ret'.sv)
        BY <1>4, <1>8 DEF Formed, Path
      <4>2. ret'.sv[1] \in Assignment
        BY <1>8, <4>1 DEF Path
      <4> QED BY <4>2
    <3>2. Constrained(Append(ret'.sv, i), ToSet(ret'.asmpt))
      BY <1>7, <1>8, <2>2, <3>1, ConstrainedAppend
    <3> QED BY <3>2
  <2> QED BY <2>1, <2>2
<1> QED BY <1>2, <1>4, <1>9 DEF Orderly, Reached

\* No other call disturbs this: frames are extended by inputs, and set_current_state
\* installs a state that was copied.
LEMMA OrderlyStays ==
  ASSUME IInv, Orderly, [Next]_vars, ~ Copy
  PROVE  Orderly'
<1> USE DEF Orderly
<1>0. /\ trace \in Seq(Path) /\ history_choice \in Seq(ChoiceItem)
      /\ StateVars \in SUBSET Vars /\ InVars \in SUBSET Vars
  BY DEF IInv, TypeOK, Vars
<1>1. CASE UNCHANGED vars
  BY <1>1 DEF vars
<1>2. CASE Share
  BY <1>2 DEF Share, MakeSymbol, stacks
<1>3. CASE Start
  <2>1. PICK given \in Given(StateVars) : trace = <<>> /\ init(given)
    BY <1>3 DEF Start
  <2> DEFINE root == Complete(StateVars, given)
  <2>2. /\ CanMint(Unassigned(StateVars, given)) /\ trace' = Append(trace, <<root>>)
        /\ history_choice' = history_choice /\ ret' = ret
    BY <2>1 DEF init
  <2>3. Own(StateVars, root)
    BY <1>0, <2>2, CompleteIsOwn
  <2> HIDE DEF root
  <2>4. Formed(<<root>>)
    BY <2>3 DEF Formed
  <2>5. Len(trace') = 1 /\ trace'[1] = <<root>>
    BY <2>1, <2>2
  <2>6. \A k \in 1 .. Len(trace') : Formed(trace'[k])
    BY <2>4, <2>5
  <2> QED BY <2>2, <2>6
<1>4. CASE Choose
  <2>1. PICK given \in Given(InVars), pre \in PreLists : set_input(given, pre)
    BY <1>4 DEF Choose
  <2> DEFINE c == [assumptions |-> pre, var_assign |-> Complete(InVars, given),
                   UsedInSim |-> FALSE, assmpt_len |-> Len(Last(history_assumptions))]
  <2>2. /\ CanMint(Unassigned(InVars, given)) /\ trace' = trace /\ ret' = ret
        /\ history_choice' = Append(history_choice, c)
    BY <2>1 DEF set_input
  <2>3. Own(InVars, c.var_assign)
    BY <1>0, <2>2, CompleteIsOwn
  <2> HIDE DEF c
  <2>4. \A k \in 1 .. Len(history_choice') : k \in 1 .. Len(history_choice) \/ history_choice'[k] = c
    BY <1>0, <2>2
  <2>5. \A k \in 1 .. Len(history_choice) : history_choice'[k] = history_choice[k]
    BY <1>0, <2>2
  <2>6. \A k \in 1 .. Len(history_choice') : Own(InVars, history_choice'[k].var_assign)
    BY <2>3, <2>4, <2>5
  <2> QED BY <2>2, <2>6
<1>5. CASE Withdraw
  <2>1. /\ Pending /\ history_choice' = Front(history_choice) /\ trace' = trace /\ ret' = ret
    BY <1>5 DEF Withdraw, undo_set_input
  <2>2. /\ Len(history_choice') = Len(history_choice) - 1 /\ Len(history_choice) \in Nat
        /\ \A k \in 1 .. Len(history_choice) - 1 : history_choice'[k] = history_choice[k]
    BY <1>0, <2>1, FrontType DEF Pending
  <2>3. \A k \in 1 .. Len(history_choice') : Own(InVars, history_choice'[k].var_assign)
    BY <2>2
  <2> QED BY <2>1, <2>3
<1>6. CASE Advance
  <2> DEFINE n == Len(history_choice)
             a == Last(history_choice).var_assign
  <2>1. /\ Pending /\ trace' = Append(trace, Append(Last(trace), a)) /\ ret' = ret
        /\ history_choice' = [history_choice EXCEPT ![n].UsedInSim = TRUE]
    BY <1>6 DEF Advance, sim_one_step
  <2>2. trace # <<>>
    BY <2>1 DEF Pending, IInv, StacksAligned
  <2>3. /\ n \in Nat \ {0} /\ Len(trace) \in Nat \ {0}
        /\ Last(history_choice) = history_choice[n] /\ Last(history_choice) \in ChoiceItem
        /\ Last(trace) = trace[Len(trace)] /\ Last(trace) \in Path
    BY <2>1, <2>2, Shape DEF IInv
  <2>4. a \in Assignment /\ Own(InVars, a) /\ Formed(Last(trace))
    <3>1. n \in 1 .. n /\ Len(trace) \in 1 .. Len(trace)
      BY <2>3
    <3> QED BY <2>3, <3>1 DEF ChoiceItem, Assignment
  <2> DEFINE f == Append(Last(trace), a)
  <2> HIDE DEF a
  <2>5. Formed(f) /\ f \in Path
    <3>1. f \in Path
      BY <2>3, <2>4 DEF Path
    <3> QED BY <2>3, <2>4, <3>1, FormedAppend
  <2>6. trace' = Append(trace, f)
    BY <2>1
  <2> HIDE DEF f
  <2>7. \A k \in 1 .. Len(trace') : Formed(trace'[k])
    <3>1. /\ Len(trace') = Len(trace) + 1 /\ trace'[Len(trace) + 1] = f
          /\ \A k \in 1 .. Len(trace) : trace'[k] = trace[k]
      BY <1>0, <2>5, <2>6, AppendType
    <3>2. \A k \in 1 .. Len(trace') : k \in 1 .. Len(trace) \/ k = Len(trace) + 1
      BY <2>3, <3>1
    <3> QED BY <2>5, <3>1, <3>2
  <2>8. /\ Len(history_choice') = n
        /\ \A k \in 1 .. n : history_choice'[k].var_assign = history_choice[k].var_assign
    BY <1>0, <2>1, <2>3 DEF ChoiceItem
  <2> QED BY <2>1, <2>7, <2>8
<1>7. CASE Retreat
  <2> DEFINE n == Len(history_choice)
  <2>1. /\ history_choice # <<>> /\ trace' = Front(trace) /\ ret' = ret
        /\ history_choice' = [history_choice EXCEPT ![n].UsedInSim = FALSE]
    BY <1>7 DEF Retreat, backtrack
  <2>2. trace # <<>>
    BY <2>1 DEF IInv, StacksAligned
  <2>3. \A k \in 1 .. Len(trace') : Formed(trace'[k])
    <3>1. /\ Len(trace') = Len(trace) - 1 /\ Len(trace) \in Nat
          /\ \A k \in 1 .. Len(trace) - 1 : trace'[k] = trace[k]
      BY <1>0, <2>1, <2>2, FrontType
    <3> QED BY <3>1
  <2>4. /\ Len(history_choice') = n
        /\ \A k \in 1 .. n : history_choice'[k].var_assign = history_choice[k].var_assign
    BY <1>0, <2>1 DEF ChoiceItem
  <2> QED BY <2>1, <2>3, <2>4
<1>8. CASE Rebase
  <2>1. ret # NoState /\ ret' = ret /\ trace' = <<ret.sv>> /\ history_choice' = <<>>
    BY <1>8 DEF Rebase, set_current_state
  <2>2. Len(trace') = 1 /\ trace'[1] = ret.sv /\ Len(history_choice') = 0
    BY <2>1
  <2> QED BY <2>1, <2>2 DEF Reached
<1> QED BY <1>1, <1>2, <1>3, <1>4, <1>5, <1>6, <1>7, <1>8 DEF Next

\* Whatever the order of the calls, the frames are paths and a state that was
\* copied has the constraints over each of its inputs and over one more.
THEOREM OrderlyInvariance == Spec => [](IInv /\ Orderly)
<1>1. Init => Orderly
  BY DEF Init, Orderly
<1>2. IInv /\ AllConstrained /\ Orderly /\ [Next]_vars => Orderly'
  BY CopyIsReached, OrderlyStays
<1>3. Spec => []AllConstrained
  BY Invariance, InitConstrained, NextConstrained, PTL DEF Spec
<1> QED BY <1>1, <1>2, <1>3, Invariance, PTL DEF Spec
-----------------------------------------------------------------------------
(***************************************************************************)
(* Which nodes the recorded states stand for.                              *)
(***************************************************************************)

\* Every frame begins as the first one does.
LEMMA FramesBegin ==
  ASSUME IInv, Orderly, trace # <<>>
  PROVE  \A k \in 1 .. Len(trace) : trace[k][1] = trace[1][1]
<1>1. Len(trace) \in Nat \ {0} /\ trace \in Seq(Path)
  BY Shape DEF IInv, TypeOK
<1>2. \A k \in 1 .. Len(trace) - 1 : trace[k + 1] = Append(trace[k], history_choice[k].var_assign)
  BY DEF IInv, Replay, FramesReplayChoices
<1>3. \A k \in 1 .. Len(trace) : trace[k] # <<>> /\ trace[k] \in Path
  BY <1>1 DEF Orderly, Formed
<1> DEFINE S == {k \in Nat : k + 1 \in 1 .. Len(trace) => trace[k + 1][1] = trace[1][1]}
<1>4. 0 \in S
  OBVIOUS
<1>5. ASSUME NEW k \in Nat, k \in S
      PROVE  k + 1 \in S
  <2> SUFFICES ASSUME (k + 1) + 1 \in 1 .. Len(trace)
               PROVE  trace[(k + 1) + 1][1] = trace[1][1]
    OBVIOUS
  <2>1. k + 1 \in 1 .. Len(trace) - 1 /\ k + 1 \in 1 .. Len(trace)
    BY <1>1
  <2>2. trace[k + 1][1] = trace[1][1]
    BY <1>5, <2>1
  <2>3. trace[(k + 1) + 1] = Append(trace[k + 1], history_choice[k + 1].var_assign)
    BY <1>2, <2>1
  <2>4. trace[k + 1] \in Seq(Assignment) /\ trace[k + 1] # <<>>
    BY <1>3, <2>1 DEF Path
  <2>5. Append(trace[k + 1], history_choice[k + 1].var_assign)[1] = trace[k + 1][1]
    <3> DEFINE f == trace[k + 1]
    <3>1. Len(f) \in Nat \ {0} /\ f \in Seq(Assignment)
      BY <2>4
    <3> HIDE DEF f
    <3>2. \A a : Append(f, a)[1] = f[1]
      BY <3>1
    <3> QED BY <3>2 DEF f
  <2> QED BY <2>2, <2>3, <2>5
<1>6. \A k \in Nat : k \in S
  <2> HIDE DEF S
  <2> QED BY <1>4, <1>5, SetInduction
<1>7. \A k \in 1 .. Len(trace) : k - 1 \in Nat /\ (k - 1) + 1 = k
  BY <1>1
<1> QED BY <1>6, <1>7

\* The calls of a traversal leave the first frame alone.
LEMMA RootStays ==
  ASSUME Simulating,
         \/ UNCHANGED vars
         \/ get_curr_state(<<>>)
         \/ get_curr_state(Assumptions)
         \/ \E given, pre : set_input(given, pre)
         \/ sim_one_step
         \/ ~ Pending /\ backtrack
         \/ undo_set_input
  PROVE  trace'[1] = trace[1]
<1>1. Len(trace) \in Nat \ {0}
  BY Shape DEF Simulating, IInv
<1>2. 1 \in 1 .. Len(trace)
  BY <1>1
<1>3. CASE UNCHANGED vars
  BY <1>3 DEF vars, stacks
<1>4. CASE get_curr_state(<<>>) \/ get_curr_state(Assumptions)
  BY <1>4, CopyCall, AssumptionsAreGiven
<1>5. CASE \E given, pre : set_input(given, pre)
  BY <1>5 DEF set_input
<1>6. CASE sim_one_step
  BY <1>2, <1>6, StepCall
<1>7. CASE ~ Pending /\ backtrack
  <2>1. /\ Len(trace) > 1
        /\ \A k \in 1 .. Len(trace) - 1 : trace'[k] = trace[k]
    BY <1>7, BacktrackCall
  <2> QED BY <1>1, <2>1
<1>8. CASE undo_set_input
  BY <1>8 DEF undo_set_input
<1> QED BY <1>3, <1>4, <1>5, <1>6, <1>7, <1>8

\* The recorded states were reached from the first frame, whose assignment is
\* one of nodes or symbols.
Recorded ==
  /\ abs_state \in Seq(StateAsmpt)
  /\ IsDesign(design)
  /\ loc = "boot" => abs_state = <<>>
  /\ loc # "boot" => Range(trace[1][1]) \subseteq Nodes \cup Sym
  /\ \A k \in 1 .. Len(abs_state) : /\ Reached(abs_state[k])
                                    /\ abs_state[k].sv[1] = trace[1][1]

LEMMA BootRecords ==
  ASSUME Recorded, loc = "boot", IInv, trace = <<>>, NEW given \in Roots, init(given),
         design' = design, abs_state' = abs_state
  PROVE  Recorded'
<1> DEFINE root == Complete(StateVars, given)
<1>1. CanMint(Unassigned(StateVars, given)) /\ trace' = Append(trace, <<root>>)
  BY DEF init
<1>2. trace'[1][1] = root
  BY <1>1
<1>3. given \in Given(StateVars) /\ Range(given) \subseteq Nodes
  BY ExplorationAssumption
<1>4. root \in [StateVars -> Val \cup Sym]
  BY <1>1, <1>3, CompleteType DEF IInv, TypeOK, Vars
<1>5. \A v \in StateVars : v \in DOMAIN given => root[v] = given[v] /\ given[v] \in Nodes
  BY <1>3 DEF Complete, Range
<1>6. \A v \in StateVars : v \notin DOMAIN given => root[v] \in Sym
  <2>1. \A v \in StateVars : v \notin DOMAIN given => root[v] = free_make_symbol(v)
    BY DEF Complete
  <2>2. \A v \in Unassigned(StateVars, given) : free_make_symbol(v) \in Sym
    BY <1>1, MintFresh DEF IInv, TypeOK, Unassigned, Vars, CanMint
  <2> QED BY <2>1, <2>2 DEF Unassigned
<1> HIDE DEF root
<1>7. Range(root) \subseteq Nodes \cup Sym
  BY <1>4, <1>5, <1>6 DEF Range
<1>8. abs_state = <<>> /\ Len(abs_state) = 0
  BY DEF Recorded
<1> QED BY <1>2, <1>7, <1>8 DEF Recorded

LEMMA RecordedStays ==
  ASSUME Recorded, IInv, Orderly, trace # <<>>, trace'[1] = trace[1],
         loc # "boot", loc' # "boot", design' = design,
         \/ abs_state' = abs_state
         \/ abs_state' = Append(abs_state, ret) /\ JustCopied
  PROVE  Recorded'
<1>1. trace'[1][1] = trace[1][1]
  OBVIOUS
<1>2. CASE abs_state' = abs_state
  BY <1>1, <1>2 DEF Recorded
<1>3. CASE abs_state' = Append(abs_state, ret) /\ JustCopied
  <2>1. ret \in StateAsmpt /\ ret.sv = trace[Len(trace)] /\ ret # NoState
    BY <1>3, NoStateAssumption DEF JustCopied
  <2>2. Len(trace) \in 1 .. Len(trace)
    BY Shape DEF IInv
  <2>3. Reached(ret) /\ ret.sv[1] = trace[1][1]
    BY <2>1, <2>2, FramesBegin DEF Orderly
  <2>4. /\ abs_state' \in Seq(StateAsmpt) /\ Len(abs_state') = Len(abs_state) + 1
        /\ abs_state'[Len(abs_state) + 1] = ret
        /\ \A k \in 1 .. Len(abs_state) : abs_state'[k] = abs_state[k]
    BY <1>3, <2>1, AppendType DEF Recorded
  <2>5. \A k \in 1 .. Len(abs_state') : k \in 1 .. Len(abs_state) \/ k = Len(abs_state) + 1
    BY <2>4 DEF Recorded
  <2>6. \A k \in 1 .. Len(abs_state') : /\ Reached(abs_state'[k])
                                        /\ abs_state'[k].sv[1] = trace[1][1]
    BY <2>3, <2>4, <2>5 DEF Recorded
  <2>7. Range(trace'[1][1]) \subseteq Nodes \cup Sym /\ IsDesign(design')
    BY <1>1 DEF Recorded
  <2> QED BY <1>1, <2>4, <2>6, <2>7 DEF Recorded
<1> QED BY <1>2, <1>3
-----------------------------------------------------------------------------
\* The nodes of a recorded state end walks from an initial node.
LEMMA RecordedAreWalks ==
  ASSUME IsDesign(design), NEW s \in StateAsmpt, Reached(s), s.sv[1] = trace[1][1],
         Range(trace[1][1]) \subseteq Nodes \cup Sym, NEW n \in NodesOf(design, s)
  PROVE  \E g : n = g[Len(s.sv)] /\ g[1] \in InitialNodes /\ Walks(g, Len(s.sv))
<1> DEFINE S == SymsOfState(design, s)
<1>1. PICK m \in Models(design, S, s.asmpt) : n = NodeOf(design, s.sv, m)
  BY DEF NodesOf
<1>2. m \in Valuations(S) /\ \A j \in 1 .. Len(s.asmpt) : Holds(design, s.asmpt[j], m)
  BY DEF Models
<1>3. S \in SUBSET Sym
  BY DEF SymsOfState, SymsOfPath, SymsOf
<1>4. s.sv \in Path /\ s.asmpt \in Seq(Assumption) /\ Formed(s.sv)
  BY DEF StateAsmpt, Reached
<1>5. FirstNode(s.sv, m) \in InitialNodes /\ InitialNodes \subseteq Nodes
  BY <1>2, <1>4, FirstNodes
<1>6. PICK i \in Assignment : Constrained(Append(s.sv, i), ToSet(s.asmpt))
  BY DEF Reached
<1> HIDE DEF S
<1>7. \E g : /\ NodeOf(design, s.sv, m) = g[Len(s.sv)] /\ g[1] = FirstNode(s.sv, m)
             /\ Walks(g, Len(s.sv))
  BY <1>2, <1>3, <1>4, <1>5, <1>6, PathsAreWalks
<1> QED BY <1>1, <1>5, <1>7

LEMMA WalksReach ==
  ASSUME NEW g, NEW n \in Nat \ {0}, Walks(g, n)
  PROVE  g[n] \in ReachableFrom(g[1])
<1>1. g[n] \in Nodes
  BY DEF Walks
<1>2. ASSUME NEW S \in SUBSET Nodes, g[1] \in S, \A m \in S : Successors(m) \subseteq S
      PROVE  g[n] \in S
  <2> DEFINE T == {k \in Nat : k + 1 \in 1 .. n => g[k + 1] \in S}
  <2>1. 0 \in T
    BY <1>2
  <2>2. ASSUME NEW k \in Nat, k \in T
        PROVE  k + 1 \in T
    <3> SUFFICES ASSUME (k + 1) + 1 \in 1 .. n
                 PROVE  g[(k + 1) + 1] \in S
      OBVIOUS
    <3> DEFINE h == (k + 1) + 1
    <3>1. h \in 2 .. n /\ h - 1 = k + 1 /\ k + 1 \in 1 .. n
      OBVIOUS
    <3>2. g[h - 1] \in S
      BY <2>2, <3>1
    <3> HIDE DEF h
    <3>3. g[h] \in Successors(g[h - 1])
      BY <3>1 DEF Walks
    <3>4. g[h] \in S
      BY <1>2, <3>2, <3>3
    <3> QED BY <3>4 DEF h
  <2>3. \A k \in Nat : k \in T
    <3> HIDE DEF T
    <3> QED BY <2>1, <2>2, SetInduction
  <2>4. n - 1 \in Nat /\ (n - 1) + 1 = n /\ n \in 1 .. n
    OBVIOUS
  <2> QED BY <2>3, <2>4
<1> QED BY <1>1, <1>2 DEF ReachableFrom

\* A recorded state stands for nodes that a walk from an initial node leads to;
\* after one step from the first frame, for initial nodes and their successors.
LEMMA RecordedAreReachable ==
  ASSUME Recorded, loc # "boot"
  PROVE  RecordedNodes \subseteq UNION {ReachableFrom(n0) : n0 \in InitialNodes}
<1> SUFFICES ASSUME NEW n \in RecordedNodes
             PROVE  \E n0 \in InitialNodes : n \in ReachableFrom(n0)
  OBVIOUS
<1>1. PICK k \in 1 .. Len(abs_state) : n \in NodesOf(design, abs_state[k])
  BY DEF RecordedNodes
<1>2. /\ abs_state[k] \in StateAsmpt /\ Reached(abs_state[k]) /\ abs_state[k].sv[1] = trace[1][1]
      /\ IsDesign(design) /\ Range(trace[1][1]) \subseteq Nodes \cup Sym
  BY DEF Recorded
<1>3. PICK g : /\ n = g[Len(abs_state[k].sv)] /\ g[1] \in InitialNodes
               /\ Walks(g, Len(abs_state[k].sv))
  BY <1>1, <1>2, RecordedAreWalks
<1>4. Len(abs_state[k].sv) \in Nat \ {0}
  BY <1>2 DEF Reached, Formed, StateAsmpt, Path
<1> QED BY <1>3, <1>4, WalksReach

LEMMA RecordedAreSuccessors ==
  ASSUME Recorded, loc # "boot",
         \A k \in 1 .. Len(abs_state) : Len(abs_state[k].sv) <= 2
  PROVE  RecordedNodes \subseteq
           InitialNodes \cup UNION {Successors(n0) : n0 \in InitialNodes}
<1> SUFFICES ASSUME NEW n \in RecordedNodes, n \notin InitialNodes
             PROVE  \E n0 \in InitialNodes : n \in Successors(n0)
  OBVIOUS
<1>1. PICK k \in 1 .. Len(abs_state) : n \in NodesOf(design, abs_state[k])
  BY DEF RecordedNodes
<1>2. /\ abs_state[k] \in StateAsmpt /\ Reached(abs_state[k]) /\ abs_state[k].sv[1] = trace[1][1]
      /\ IsDesign(design) /\ Range(trace[1][1]) \subseteq Nodes \cup Sym
  BY DEF Recorded
<1>3. PICK g : /\ n = g[Len(abs_state[k].sv)] /\ g[1] \in InitialNodes
               /\ Walks(g, Len(abs_state[k].sv))
  BY <1>1, <1>2, RecordedAreWalks
<1>4. Len(abs_state[k].sv) \in {1, 2}
  <2>1. Len(abs_state[k].sv) <= 2
    OBVIOUS
  <2>2. Len(abs_state[k].sv) \in Nat \ {0}
    BY <1>2 DEF Reached, Formed, StateAsmpt, Path
  <2> DEFINE n0 == Len(abs_state[k].sv)
  <2> HIDE DEF n0
  <2>3. n0 <= 2 /\ n0 \in Nat \ {0} => n0 \in {1, 2}
    OBVIOUS
  <2> QED BY <2>1, <2>2, <2>3 DEF n0
<1>5. Len(abs_state[k].sv) = 2
  BY <1>3, <1>4
<1>6. g[2] \in Successors(g[2 - 1]) /\ 2 - 1 = 1
  BY <1>3, <1>5 DEF Walks
<1> QED BY <1>3, <1>5, <1>6
-----------------------------------------------------------------------------
\* traverse records copies of the frame it has just looked at.
LEMMA TRecords ==
  ASSUME TInv, Orderly, Recorded, [TNext]_tvars
  PROVE  Recorded'
<1>1. CASE loc = "boot"
  <2>1. (Boot \/ Stopped \/ UNCHANGED tvars)
    BY <1>1 DEF TNext, Enter, EnterUnreachable, EnterReachable, CopyHead, LeaveLast,
       LeaveState, TryChoice, Simulate, Snap, Check, TryNextChoice, TryDeeperChoice,
       RunOutOfChoices, NewState, Undo, GoTo
  <2>2. CASE Boot
    <3>1. PICK given \in Roots : init(given)
      BY <2>2 DEF Boot
    <3>2. design' = design /\ abs_state' = abs_state /\ IInv /\ trace = <<>>
      BY <1>1, <2>2 DEF Boot, TInv, search
    <3> QED BY <1>1, <3>1, <3>2, BootRecords
  <2>3. CASE Stopped \/ UNCHANGED tvars
    <3>1. trace' = trace /\ design' = design /\ abs_state' = abs_state /\ loc' = loc
      BY <2>3 DEF Stopped, tvars, vars, stacks, search
    <3> QED BY <3>1 DEF Recorded
  <2> QED BY <2>1, <2>2, <2>3
<1>2. CASE loc # "boot"
  <2>1. Simulating
    BY <1>2 DEF TInv
  <2>2. IInv /\ trace # <<>>
    BY <2>1 DEF Simulating
  <2>3. loc' # "boot" /\ design' = design
    BY <1>2 DEF TNext, Boot, Enter, EnterUnreachable, EnterReachable, CopyHead, LeaveLast,
       LeaveState, TryChoice, Simulate, Snap, Check, TryNextChoice, TryDeeperChoice,
       RunOutOfChoices, NewState, Undo, Stopped, GoTo, tvars
  <2>4. trace'[1] = trace[1]
    <3>1. CASE Enter \/ CopyHead \/ Snap \/ RunOutOfChoices
      BY <2>1, <3>1, RootStays DEF Enter, CopyHead, Snap, RunOutOfChoices
    <3>2. CASE TryChoice \/ Simulate \/ Undo
      BY <2>1, <3>2, RootStays DEF TryChoice, Simulate, Undo
    <3>3. CASE LeaveState \/ TryNextChoice \/ TryDeeperChoice
      <4>1. loc \in {"branch", "act"} /\ backtrack
        BY <3>3 DEF LeaveState, TryNextChoice, TryDeeperChoice, GoTo
      <4>2. ~ Pending
        BY <4>1, TopFollows DEF InLoop, FramesAligned
      <4> QED BY <2>1, <4>1, <4>2, RootStays
    <3>4. CASE \/ EnterUnreachable \/ EnterReachable \/ LeaveLast \/ Check \/ NewState \/ Stopped
               \/ UNCHANGED tvars
      <4>1. UNCHANGED vars
        BY <3>4 DEF EnterUnreachable, EnterReachable, LeaveLast, Check, NewState, Stopped, tvars
      <4> QED BY <2>1, <4>1, RootStays
    <3>5. CASE Boot
      BY <1>2, <3>5 DEF Boot, GoTo
    <3> QED BY <3>1, <3>2, <3>3, <3>4, <3>5 DEF TNext
  <2>5. \/ abs_state' = abs_state
        \/ abs_state' = Append(abs_state, ret) /\ JustCopied
    <3>1. CASE EnterReachable \/ NewState
      <4>1. loc \in {"entry", "act"} /\ abs_state' = Append(abs_state, ret)
        BY <3>1 DEF EnterReachable, NewState, GoTo
      <4>2. JustCopied
        BY <4>1 DEF TInv, Searching
      <4> QED BY <4>1, <4>2
    <3>2. CASE ~ (EnterReachable \/ NewState)
      BY <3>2 DEF TNext, Boot, Enter, EnterUnreachable, CopyHead, LeaveLast,
       LeaveState, TryChoice, Simulate, Snap, Check, TryNextChoice, TryDeeperChoice,
       RunOutOfChoices, Undo, Stopped, tvars, search
    <3> QED BY <3>1, <3>2
  <2> QED BY <1>2, <2>2, <2>3, <2>4, <2>5, RecordedStays
<1> QED BY <1>1, <1>2

LEMMA TRecordedInvariance == TSpec => []Recorded
<1>1. TInit => Recorded
  <2> SUFFICES ASSUME TInit PROVE Recorded
    OBVIOUS
  <2>1. abs_state = <<>> /\ loc = "boot" /\ IsDesign(design)
    BY ExplorationAssumption DEF TInit
  <2>2. <<>> \in Seq(StateAsmpt) /\ Len(<<>>) = 0
    OBVIOUS
  <2> QED BY <2>1, <2>2 DEF Recorded
<1>2. TSpec => []Orderly
  BY TraversalUsesSimulatorAsDocumented, OrderlyInvariance, PTL DEF UsesSimulatorAsDocumented
<1> QED BY <1>1, <1>2, TInvariance, TRecords, PTL DEF TSpec

\* Whatever branching points and assumptions a caller chooses, and also if the
\* traversal starts from a symbolic state or gives up: every node that a
\* recorded state stands for can be reached from the node the traversal started
\* from, along allowed cells and live nodes.
THEOREM OnlyReachableNodesAreRecorded == TSpec => []RecordsOnlyReachable
<1>1. Recorded => RecordsOnlyReachable
  BY RecordedAreReachable DEF RecordsOnlyReachable
<1> QED BY <1>1, TRecordedInvariance, PTL
-----------------------------------------------------------------------------
\* traverse_one_step: no recorded state is more than one step away.
ORecorded ==
  /\ Recorded
  /\ loc # "boot" => Len(trace[1]) = 1
  /\ loc \in {"entry", "check"} => JustCopied
  /\ \A k \in 1 .. Len(abs_state) : Len(abs_state[k].sv) <= 2

LEMMA OneStepFrames ==
  ASSUME OInv, ORecorded, loc \in {"entry", "check"}
  PROVE  Len(ret.sv) <= 2
<1>1. /\ IInv /\ trace # <<>> /\ Len(trace) = 1 + Trying /\ Trying \in {0, 1}
      /\ ret.sv = trace[Len(trace)] /\ Len(trace[1]) = 1
  BY DEF OInv, OSearching, Simulating, ORecorded, JustCopied, Trying
<1>2. CASE Trying = 0
  <2>1. Len(trace) = 1
    BY <1>1, <1>2
  <2>2. ret.sv = trace[1]
    BY <1>1, <2>1
  <2>3. Len(ret.sv) = 1
    BY <1>1, <2>2
  <2> QED BY <2>3
<1>3. CASE Trying = 1
  <2>1. Len(trace) = 2 /\ 1 \in 1 .. Len(trace) - 1 /\ 1 + 1 = 2
    BY <1>1, <1>3
  <2>2. trace[1 + 1] = Append(trace[1], history_choice[1].var_assign)
    BY <1>1, <2>1 DEF IInv, Replay, FramesReplayChoices
  <2>3. trace[1] \in Seq(Assignment)
    <3>1. trace \in Seq(Path) /\ 1 \in 1 .. Len(trace)
      BY <1>1, <2>1 DEF IInv, TypeOK
    <3> QED BY <3>1 DEF Path
  <2>4. \A a : Len(Append(trace[1], a)) = 2
    <3> DEFINE f == trace[1]
    <3>1. f \in Seq(Assignment) /\ Len(f) = 1
      BY <1>1, <2>3
    <3> HIDE DEF f
    <3>2. \A a : Len(Append(f, a)) = 2
      BY <3>1
    <3> QED BY <3>2 DEF f
  <2>5. ret.sv = trace[2]
    BY <1>1, <2>1
  <2>6. Len(ret.sv) = 2
    BY <2>1, <2>2, <2>4, <2>5
  <2> QED BY <2>6
<1> QED BY <1>1, <1>2, <1>3

LEMMA ORecords ==
  ASSUME OInv, Orderly, ORecorded, [ONext]_ovars
  PROVE  ORecorded'
<1>1. CASE loc = "boot"
  <2>1. (OBoot \/ OStopped \/ UNCHANGED ovars)
    BY <1>1 DEF ONext, OEnter, OEnterUnreachable, OEnterReachable, Finish, OTryChoice,
       OSimulate, OSnap, OCheck, OTryNextChoice, OTryDeeperChoice, ORunOutOfChoices, OUndo, GoTo
  <2>2. CASE OBoot
    <3>1. PICK given \in Roots : init(given)
      BY <2>2 DEF OBoot
    <3>2. /\ design' = design /\ abs_state' = abs_state /\ IInv /\ trace = <<>>
          /\ loc' = "start"
      BY <1>1, <2>2 DEF OBoot, OInv, GoTo
    <3>3. Recorded'
      BY <1>1, <3>1, <3>2, BootRecords DEF ORecorded
    <3>4. trace' = <<<<Complete(StateVars, given)>>>>
      BY <3>1, <3>2 DEF init
    <3>5. Len(trace'[1]) = 1
      BY <3>4
    <3>6. abs_state' = <<>> /\ Len(abs_state') = 0
      BY <1>1, <3>2 DEF ORecorded, Recorded
    <3> QED BY <3>2, <3>3, <3>5, <3>6 DEF ORecorded
  <2>3. CASE OStopped \/ UNCHANGED ovars
    <3>1. trace' = trace /\ design' = design /\ abs_state' = abs_state /\ loc' = loc
      BY <2>3 DEF OStopped, ovars, vars, stacks
    <3> QED BY <1>1, <3>1 DEF ORecorded, Recorded
  <2> QED BY <2>1, <2>2, <2>3
<1>2. CASE loc # "boot"
  <2>1. Simulating
    BY <1>2 DEF OInv
  <2>2. IInv /\ trace # <<>> /\ Recorded /\ Len(trace[1]) = 1
    BY <1>2, <2>1 DEF Simulating, ORecorded
  <2>3. loc' # "boot" /\ design' = design
    BY <1>2 DEF ONext, OBoot, OEnter, OEnterUnreachable, OEnterReachable, Finish, OTryChoice,
       OSimulate, OSnap, OCheck, OTryNextChoice, OTryDeeperChoice, ORunOutOfChoices, OUndo,
       OStopped, GoTo, ovars
  <2>4. trace'[1] = trace[1]
    <3>1. CASE OEnter \/ OSnap \/ ORunOutOfChoices
      BY <2>1, <3>1, RootStays DEF OEnter, OSnap, ORunOutOfChoices
    <3>2. CASE OTryChoice \/ OSimulate \/ OUndo
      BY <2>1, <3>2, RootStays DEF OTryChoice, OSimulate, OUndo
    <3>3. CASE OTryNextChoice \/ OTryDeeperChoice
      <4>1. loc = "act" /\ backtrack
        BY <3>3 DEF OTryNextChoice, OTryDeeperChoice, GoTo
      <4>2. ~ Pending
        BY <4>1 DEF OInv, OSearching
      <4> QED BY <2>1, <4>1, <4>2, RootStays
    <3>4. CASE \/ OEnterUnreachable \/ OEnterReachable \/ Finish \/ OCheck \/ OStopped
               \/ UNCHANGED ovars
      <4>1. UNCHANGED vars
        BY <3>4 DEF OEnterUnreachable, OEnterReachable, Finish, OCheck, OStopped, ovars
      <4> QED BY <2>1, <4>1, RootStays
    <3>5. CASE OBoot
      BY <1>2, <3>5 DEF OBoot, GoTo
    <3> QED BY <3>1, <3>2, <3>3, <3>4, <3>5 DEF ONext
  <2>5. \/ abs_state' = abs_state
        \/ abs_state' = Append(abs_state, ret) /\ loc \in {"entry", "check"}
    BY DEF ONext, OBoot, OEnter, OEnterUnreachable, OEnterReachable, Finish, OTryChoice,
       OSimulate, OSnap, OCheck, OTryNextChoice, OTryDeeperChoice, ORunOutOfChoices, OUndo,
       OStopped, GoTo, ovars
  <2>6. abs_state' = abs_state \/ (abs_state' = Append(abs_state, ret) /\ JustCopied)
    BY <2>5 DEF ORecorded
  <2>7. Recorded'
    BY <1>2, <2>2, <2>3, <2>4, <2>6, RecordedStays
  <2>8. loc' \in {"entry", "check"} => JustCopied'
    <3> SUFFICES ASSUME loc' \in {"entry", "check"} PROVE JustCopied'
      OBVIOUS
    <3>1. CASE OEnter \/ OSnap
      <4>1. ret' \in StateAsmpt /\ ret'.sv = trace[Len(trace)] /\ trace' = trace
        BY <2>1, <3>1, CopyCall, AssumptionsAreGiven DEF OEnter, OSnap
      <4> QED BY <4>1 DEF JustCopied
    <3>2. CASE UNCHANGED ovars
      <4>1. ret' = ret /\ trace' = trace /\ loc' = loc
        BY <3>2 DEF ovars, vars, stacks
      <4> QED BY <4>1 DEF ORecorded, JustCopied
    <3> QED BY <3>1, <3>2 DEF ONext, OBoot, OEnterUnreachable, OEnterReachable, Finish,
          OTryChoice, OSimulate, OCheck, OTryNextChoice, OTryDeeperChoice, ORunOutOfChoices,
          OUndo, OStopped, OEnded, GoTo
  <2>9. \A k \in 1 .. Len(abs_state') : Len(abs_state'[k].sv) <= 2
    <3>1. CASE abs_state' = abs_state
      BY <3>1 DEF ORecorded
    <3>2. CASE abs_state' = Append(abs_state, ret) /\ loc \in {"entry", "check"}
      <4>1. Len(ret.sv) <= 2 /\ ret \in StateAsmpt /\ abs_state \in Seq(StateAsmpt)
        BY <3>2, OneStepFrames DEF ORecorded, Recorded, JustCopied
      <4>2. /\ Len(abs_state') = Len(abs_state) + 1 /\ Len(abs_state) \in Nat
            /\ abs_state'[Len(abs_state) + 1] = ret
            /\ \A k \in 1 .. Len(abs_state) : abs_state'[k] = abs_state[k]
        BY <3>2, <4>1, AppendType
      <4>3. \A k \in 1 .. Len(abs_state') : k \in 1 .. Len(abs_state) \/ k = Len(abs_state) + 1
        BY <4>2
      <4> QED BY <4>1, <4>2, <4>3 DEF ORecorded
    <3> QED BY <2>5, <3>1, <3>2
  <2>10. loc' # "boot" => Len(trace'[1]) = 1
    BY <2>2, <2>4
  <2> QED BY <2>7, <2>8, <2>9, <2>10 DEF ORecorded
<1> QED BY <1>1, <1>2

LEMMA ORecordedInvariance == OSpec => []ORecorded
<1>1. OInit => ORecorded
  <2> SUFFICES ASSUME OInit PROVE ORecorded
    OBVIOUS
  <2>1. abs_state = <<>> /\ loc = "boot" /\ IsDesign(design)
    BY ExplorationAssumption DEF OInit
  <2>2. <<>> \in Seq(StateAsmpt) /\ Len(<<>>) = 0
    OBVIOUS
  <2> QED BY <2>1, <2>2 DEF ORecorded, Recorded
<1>2. OSpec => []Orderly
  BY OneStepUsesSimulatorAsDocumented, OrderlyInvariance, PTL
<1> QED BY <1>1, <1>2, OInvariance, ORecords, PTL DEF OSpec

\* Whatever branching points and assumptions a caller chooses: every node that a
\* state recorded by traverse_one_step stands for is the node it started from,
\* or one an allowed cell leads to from there.
THEOREM OnlySuccessorsAreRecorded == OSpec => []RecordsOnlySuccessors
<1>1. ORecorded => RecordsOnlySuccessors
  BY RecordedAreSuccessors DEF RecordsOnlySuccessors, ORecorded
<1> QED BY <1>1, ORecordedInvariance, PTL
-----------------------------------------------------------------------------
(***************************************************************************)
(* What a state stands for, without symbols.  A state is described by a    *)
(* path p, its frame and one more input, and by the formulas P[i] that     *)
(* were asked of each input.  A model of its path constraints is a way: a  *)
(* cell for each input of p and the nodes these lead to.                   *)
(***************************************************************************)
StateVar == CHOOSE v \in StateVars : TRUE

\* The cell gives the inputs that are not symbols their values.
Fits(a, c) ==
  \A v \in InVars : a[v] \notin Sym =>
    c[v] = IF a[v] \in Bits THEN a[v] ELSE CHOOSE b \in Bits : TRUE

\* A path from a node, on which no two inputs share a symbol.
Clear(p) ==
  /\ p \in Path /\ Len(p) > 1 /\ Formed(p)
  /\ p[1][StateVar] \in Nodes
  /\ \A i, j \in 2 .. Len(p) : i # j => SymsOf(p[i]) \cap SymsOf(p[j]) = {}

Way(d, p, P, c, g) ==
  /\ c \in [2 .. Len(p) -> Cell]
  /\ g \in [1 .. Len(p) - 1 -> Nodes]
  /\ g[1] = p[1][StateVar]
  /\ \A i \in 2 .. Len(p) - 1 : g[i] = d.next[g[i - 1]][c[i]]
  /\ \A i \in 2 .. Len(p) : /\ Fits(p[i], c[i])
                            /\ c[i] \in d.allowed[g[i - 1]]
                            /\ P[i] \subseteq d.holds[g[i - 1]][c[i]]

\* The formulas that are over the input i of a path.
AskedOf(P, i) == P[i] \cup {w \in {"ts"} : HasConstraints}

Described(s, p, P) ==
  /\ s \in StateAsmpt /\ Clear(p) /\ s.sv = SubSeq(p, 1, Len(p) - 1)
  /\ \A i \in 2 .. Len(p) : P[i] \subseteq Pre
  /\ \A a \in ToSet(s.asmpt) : a.what # "init" =>
       \E i \in 2 .. Len(p) : a.over = SubSeq(p, 1, i) /\ a.what \in AskedOf(P, i)
  /\ \A i \in 2 .. Len(p) : \A w \in AskedOf(P, i) :
       [what |-> w, over |-> SubSeq(p, 1, i)] \in ToSet(s.asmpt)

\* The model m gives the inputs of p the values of the cells c.
Gives(m, p, c) ==
  \A i \in 2 .. Len(p), v \in InVars : p[i][v] \in DOMAIN m => m[p[i][v]] = c[i][v]

\* Where two paths have the same symbol, the cells have the same value.
Compatible(p, c, q, e) ==
  \A i \in 2 .. Len(p), j \in 2 .. Len(q), v \in InVars :
    p[i][v] \in Sym /\ p[i][v] = q[j][v] => c[i][v] = e[j][v]

LEMMA StateVarIs == StateVar \in StateVars /\ StateVars = {StateVar}
<1>1. PICK u : StateVars = {u}
  BY TraceManagerAssumption, FS_Singleton
<1> QED BY <1>1 DEF StateVar

LEMMA MakeValuation ==
  ASSUME NEW S \in SUBSET Sym, NEW m, m = [x \in S |-> m[x]],
         \A x \in S : /\ x.var \in InVars => m[x] \in Bits
                      /\ x.var \in StateVars => m[x] \in Nodes
  PROVE  m \in Valuations(S)
<1> DEFINE F == {x \in S : x.var \in InVars}
           G == {x \in S : x.var \in StateVars}
           Both(f, g) == [x \in S |-> IF x.var \in InVars THEN f[x] ELSE g[x]]
           f == [x \in F |-> m[x]]
           g == [x \in G |-> m[x]]
<1>1. f \in [F -> Bits] /\ g \in [G -> Nodes]
  OBVIOUS
<1>2. \A x \in S : x \in F \/ x \in G
  BY DEF Sym, Vars
<1>3. Both(f, g) = m
  BY <1>2
<1>4. Valuations(S) = {Both(u, w) : u \in [F -> Bits], w \in [G -> Nodes]}
  BY DEF Valuations
<1> HIDE DEF Both, F, G, f, g
<1> QED BY <1>1, <1>3, <1>4

\* In a clear path, a symbol has one place.
LEMMA OnePlace ==
  ASSUME NEW p, Clear(p), NEW i \in 2 .. Len(p), NEW j \in 2 .. Len(p), NEW v \in InVars,
         p[i][v] \in Sym, p[j][v] = p[i][v]
  PROVE  i = j
<1>1. p[i][v] \in SymsOf(p[i]) /\ p[j][v] \in SymsOf(p[j])
  BY DEF Clear, Formed, Own, SymsOf, Range
<1> QED BY <1>1 DEF Clear

LEMMA ClearIsCompatible ==
  ASSUME NEW p, Clear(p), NEW c
  PROVE  Compatible(p, c, p, c)
<1> SUFFICES ASSUME NEW i \in 2 .. Len(p), NEW j \in 2 .. Len(p), NEW v \in InVars,
                    p[i][v] \in Sym, p[i][v] = p[j][v]
             PROVE  c[i][v] = c[j][v]
  BY DEF Compatible
<1> QED BY OnePlace

\* There is a valuation of any symbols that gives two paths compatible cells.
LEMMA JointValuation ==
  ASSUME NEW S \in SUBSET Sym, NEW p, NEW q, Clear(p), Clear(q), NEW c, NEW e,
         \A i \in 2 .. Len(p) : c[i] \in Cell, \A i \in 2 .. Len(q) : e[i] \in Cell,
         Compatible(p, c, q, e)
  PROVE  \E m \in Valuations(S) : Gives(m, p, c) /\ Gives(m, q, e)
<1> DEFINE InP(x) == {i \in 2 .. Len(p) : p[i][x.var] = x}
           InQ(x) == {i \in 2 .. Len(q) : q[i][x.var] = x}
           bit(x) == IF InP(x) # {} THEN c[CHOOSE i \in InP(x) : TRUE][x.var]
                     ELSE IF InQ(x) # {} THEN e[CHOOSE i \in InQ(x) : TRUE][x.var]
                     ELSE CHOOSE b \in Bits : TRUE
           m == [x \in S |-> IF x.var \in InVars THEN bit(x) ELSE CHOOSE n \in Nodes : TRUE]
<1>1. Nodes # {}
  BY DEF Clear
<1>2. ASSUME NEW x \in S, x.var \in InVars
      PROVE  bit(x) \in Bits
  <2>1. InP(x) # {} => (CHOOSE i \in InP(x) : TRUE) \in 2 .. Len(p)
    OBVIOUS
  <2>2. InQ(x) # {} => (CHOOSE i \in InQ(x) : TRUE) \in 2 .. Len(q)
    OBVIOUS
  <2>3. (CHOOSE b \in Bits : TRUE) \in Bits
    BY TraceManagerAssumption
  <2> HIDE DEF InP, InQ
  <2> QED BY <1>2, <2>1, <2>2, <2>3 DEF Cell
<1>3. m \in Valuations(S)
  <2>1. \A v \in StateVars : v \notin InVars
    BY SymSimAssumption
  <2>2. m = [x \in S |-> m[x]]
    OBVIOUS
  <2>3. \A x \in S : /\ x.var \in InVars => m[x] \in Bits
                     /\ x.var \in StateVars => m[x] \in Nodes
    <3> HIDE DEF bit
    <3> QED BY <1>1, <1>2, <2>1
  <2> HIDE DEF m
  <2> QED BY <2>2, <2>3, MakeValuation
<1>4. DOMAIN m = S
  OBVIOUS
<1>5. ASSUME NEW i \in 2 .. Len(p), NEW v \in InVars, p[i][v] \in S
      PROVE  m[p[i][v]] = c[i][v]
  <2> DEFINE x == p[i][v]
  <2>1. x \in Sym /\ x.var = v
    BY <1>5 DEF Clear, Formed, Own
  <2>2. i \in InP(x) /\ m[x] = bit(x)
    BY <1>5, <2>1
  <2>3. \A j \in InP(x) : j = i
    BY <2>1, OnePlace
  <2>4. (CHOOSE j \in InP(x) : TRUE) = i
    <3> HIDE DEF InP, x
    <3> QED BY <2>2, <2>3
  <2>5. bit(x) = c[i][v]
    <3> HIDE DEF InP, InQ, x
    <3> QED BY <2>1, <2>2, <2>4
  <2> HIDE DEF bit
  <2> QED BY <2>2, <2>5
<1>6. ASSUME NEW j \in 2 .. Len(q), NEW v \in InVars, q[j][v] \in S
      PROVE  m[q[j][v]] = e[j][v]
  <2> DEFINE x == q[j][v]
  <2>1. x \in Sym /\ x.var = v
    BY <1>6 DEF Clear, Formed, Own
  <2>2. j \in InQ(x) /\ m[x] = bit(x)
    BY <1>6, <2>1
  <2>3. \A k \in InQ(x) : k = j
    BY <2>1, OnePlace
  <2>4. (CHOOSE k \in InQ(x) : TRUE) = j
    <3> HIDE DEF InQ, x
    <3> QED BY <2>2, <2>3
  <2>5. \A i \in InP(x) : c[i][v] = e[j][v]
    BY <2>1 DEF Compatible
  <2>6. InP(x) # {} => (CHOOSE i \in InP(x) : TRUE) \in InP(x)
    OBVIOUS
  <2>7. bit(x) = e[j][v]
    <3> HIDE DEF InP, InQ, x
    <3> QED BY <2>1, <2>2, <2>4, <2>5, <2>6
  <2> HIDE DEF bit
  <2> QED BY <2>2, <2>7
<1> HIDE DEF m
<1>7. Gives(m, p, c) /\ Gives(m, q, e)
  BY <1>4, <1>5, <1>6 DEF Gives
<1> QED BY <1>3, <1>7

LEMMA ClearFacts ==
  ASSUME NEW p, Clear(p)
  PROVE  /\ p \in Seq(Assignment) /\ p \in Path /\ p # <<>> /\ Len(p) \in Nat /\ Len(p) > 1
         /\ p[1][StateVar] \notin Sym
<1>1. p \in Seq(Assignment) /\ Len(p) > 1 /\ p # <<>> /\ p[1][StateVar] \in Nodes
  BY DEF Clear, Path, Formed
<1>2. p[1][StateVar] \notin Sym
  BY <1>1, TraceManagerAssumption, SymSimAssumption
<1>3. Len(p) \in Nat /\ Len(p) > 1
  BY <1>1
<1>4. p \in Path
  BY DEF Clear
<1> QED BY <1>1, <1>2, <1>3, <1>4

LEMMA AgreeingCells ==
  ASSUME NEW d, IsDesign(d), NEW n \in Nodes, NEW c \in Cell, NEW e \in Cell,
         AgreeOn(d.reads, c, e)
  PROVE  /\ c \in d.allowed[n] <=> e \in d.allowed[n]
         /\ d.next[n][c] = d.next[n][e]
         /\ d.holds[n][c] = d.holds[n][e]
BY DEF IsDesign

\* A valuation that gives a path the cells of a way leads it along that way, as far
\* as the symbols of the path have values.
LEMMA FollowsWay ==
  ASSUME NEW d, IsDesign(d), NEW p, Clear(p), NEW P, NEW c, NEW g, Way(d, p, P, c, g),
         NEW S \in SUBSET Sym, NEW m \in Valuations(S), Gives(m, p, c),
         NEW n \in 1 .. Len(p), SymsOfPath(d, SubSeq(p, 1, n)) \subseteq S
  PROVE  /\ \A i \in 2 .. n : /\ CellOf(p[i], m) \in Cell
                              /\ AgreeOn(d.reads, CellOf(p[i], m), c[i])
         /\ \A i \in 1 .. n : i < Len(p) => NodeOf(d, SubSeq(p, 1, i), m) = g[i]
<1>1. DOMAIN m = S
  BY ValuesOfSymbols
<1>2. p \in Seq(Assignment) /\ Len(p) \in Nat /\ Len(p) > 1 /\ p[1][StateVar] \notin Sym
  BY ClearFacts
<1>3. ASSUME NEW i \in 2 .. n
      PROVE  CellOf(p[i], m) \in Cell /\ AgreeOn(d.reads, CellOf(p[i], m), c[i])
  <2>1. i \in 2 .. Len(p) /\ Own(InVars, p[i])
    BY <1>2 DEF Clear, Formed
  <2>2. CellOf(p[i], m) \in Cell
    BY <2>1, CellsAreCells
  <2>3. ASSUME NEW v \in d.reads
        PROVE  CellOf(p[i], m)[v] = c[i][v]
    <3>1. v \in InVars
      BY DEF IsDesign
    <3>2. CellOf(p[i], m)[v] = IF p[i][v] \in S THEN m[p[i][v]]
                               ELSE IF p[i][v] \in Bits THEN p[i][v]
                               ELSE CHOOSE b \in Bits : TRUE
      BY <1>1, <3>1 DEF CellOf
    <3>3. CASE p[i][v] \in Sym
      <4> DEFINE q == SubSeq(p, 1, n)
      <4>1. n \in 0 .. Len(p)
        BY <1>2
      <4>2. Len(q) = n /\ \A j \in 1 .. n : q[j] = p[j]
        BY <1>2, <4>1, PrefixType
      <4>3. i \in 1 .. Len(q) /\ q[i] = p[i]
        BY <4>2
      <4> HIDE DEF q
      <4>4. p[i][v] \in SymsOf(q[i]) /\ p[i][v].var = v
        BY <2>1, <3>1, <3>3, <4>3 DEF Own, SymsOf, Range
      <4>5. p[i][v] \in SymsOfPath(d, q)
        BY <4>3, <4>4 DEF SymsOfPath
      <4>6. p[i][v] \in S
        BY <4>5 DEF q
      <4>7. m[p[i][v]] = c[i][v]
        BY <1>1, <2>1, <3>1, <4>6 DEF Gives
      <4> QED BY <3>2, <4>6, <4>7
    <3>4. CASE p[i][v] \notin Sym
      <4>1. c[i][v] = IF p[i][v] \in Bits THEN p[i][v] ELSE CHOOSE b \in Bits : TRUE
        BY <2>1, <3>1, <3>4 DEF Way, Fits
      <4> QED BY <3>2, <3>4, <4>1
    <3> QED BY <3>3, <3>4
  <2> QED BY <2>2, <2>3 DEF AgreeOn
<1>4. PICK h : /\ \A k \in 1 .. Len(p) : NodeOf(d, SubSeq(p, 1, k), m) = h[k]
               /\ Visits(d, p, m, h)
  BY <1>2, NodesOfPrefixes, ClearFacts
<1>5. h[1] = g[1]
  BY <1>1, <1>2, <1>4 DEF Visits, FirstNode, Way, StateVar
<1> DEFINE Same == {j \in Nat : j + 1 \in 1 .. n /\ j + 1 < Len(p) => h[j + 1] = g[j + 1]}
<1>6. 0 \in Same
  BY <1>5
<1>7. ASSUME NEW j \in Nat, j \in Same
      PROVE  j + 1 \in Same
  <2> SUFFICES ASSUME (j + 1) + 1 \in 1 .. n, (j + 1) + 1 < Len(p)
               PROVE  h[(j + 1) + 1] = g[(j + 1) + 1]
    OBVIOUS
  <2> DEFINE i == (j + 1) + 1
  <2>1. /\ i \in 2 .. Len(p) - 1 /\ i \in 2 .. Len(p) /\ i \in 2 .. n
        /\ i - 1 = j + 1 /\ i - 1 \in 1 .. Len(p) - 1
    BY <1>2
  <2>2. h[i - 1] = g[i - 1]
    BY <1>2, <1>7, <2>1
  <2> HIDE DEF i
  <2>3. h[i] = d.next[h[i - 1]][CellOf(p[i], m)] /\ g[i] = d.next[g[i - 1]][c[i]]
    BY <1>4, <2>1 DEF Visits, Way
  <2>4. g[i - 1] \in Nodes /\ c[i] \in Cell
    BY <2>1 DEF Way
  <2>5. d.next[g[i - 1]][CellOf(p[i], m)] = d.next[g[i - 1]][c[i]]
    <3>1. CellOf(p[i], m) \in Cell /\ AgreeOn(d.reads, CellOf(p[i], m), c[i])
      BY <1>3, <2>1
    <3> QED BY <2>4, <3>1, AgreeingCells
  <2> QED BY <2>2, <2>3, <2>5 DEF i
<1>8. \A j \in Nat : j \in Same
  <2> HIDE DEF Same
  <2> QED BY <1>6, <1>7, SetInduction
<1>9. ASSUME NEW i \in 1 .. n, i < Len(p)
      PROVE  NodeOf(d, SubSeq(p, 1, i), m) = g[i]
  <2>1. i - 1 \in Nat /\ (i - 1) + 1 = i /\ i \in 1 .. Len(p)
    BY <1>2
  <2>2. h[i] = g[i]
    BY <1>8, <1>9, <2>1
  <2> QED BY <1>4, <2>1, <2>2
<1> QED BY <1>3, <1>9

\* The path constraints of a described state hold under a valuation that gives its
\* path the cells of a way.
LEMMA WayIsModel ==
  ASSUME NEW d, IsDesign(d), NEW s, NEW p, NEW P, Described(s, p, P),
         NEW c, NEW g, Way(d, p, P, c, g),
         NEW S \in SUBSET Sym, SymsOfState(d, s) \subseteq S,
         NEW m \in Valuations(S), Gives(m, p, c)
  PROVE  /\ \A k \in 1 .. Len(s.asmpt) : Holds(d, s.asmpt[k], m)
         /\ NodeOf(d, s.sv, m) = g[Len(p) - 1]
<1>1. Clear(p) /\ p \in Seq(Assignment) /\ Len(p) \in Nat /\ Len(p) > 1
  BY ClearFacts DEF Described
<1>2. ASSUME NEW k \in 1 .. Len(s.asmpt)
      PROVE  Holds(d, s.asmpt[k], m)
  <2> DEFINE a == s.asmpt[k]
  <2> SUFFICES ASSUME a.what # "init"
               PROVE  Holds(d, a, m)
    BY DEF Holds
  <2>1. a \in ToSet(s.asmpt)
    BY DEF ToSet
  <2>2. SymsOfPath(d, a.over) \subseteq S
    BY DEF SymsOfState
  <2> HIDE DEF a
  <2>3. PICK i \in 2 .. Len(p) : a.over = SubSeq(p, 1, i) /\ a.what \in AskedOf(P, i)
    BY <2>1 DEF Described
  <2>4. i \in 1 .. Len(p) /\ i \in 2 .. i /\ i - 1 \in 1 .. i /\ i - 1 < Len(p)
        /\ i - 1 \in 1 .. Len(p) - 1
    BY <1>1
  <2>5. /\ CellOf(p[i], m) \in Cell /\ AgreeOn(d.reads, CellOf(p[i], m), c[i])
        /\ NodeOf(d, SubSeq(p, 1, i - 1), m) = g[i - 1]
    BY <1>1, <2>2, <2>3, <2>4, FollowsWay
  <2>6. Front(a.over) = SubSeq(p, 1, i - 1) /\ Last(a.over) = p[i]
    BY <1>1, <2>3, PrefixParts
  <2>7. /\ c[i] \in Cell /\ g[i - 1] \in Nodes
        /\ c[i] \in d.allowed[g[i - 1]] /\ P[i] \subseteq d.holds[g[i - 1]][c[i]]
    BY <2>4 DEF Way
  <2>8. /\ CellOf(p[i], m) \in d.allowed[g[i - 1]]
        /\ d.holds[g[i - 1]][CellOf(p[i], m)] = d.holds[g[i - 1]][c[i]]
    BY <2>5, <2>7, AgreeingCells
  <2>9. a.what = "ts" \/ a.what \in P[i]
    BY <2>3 DEF AskedOf
  <2> QED BY <2>5, <2>6, <2>7, <2>8, <2>9 DEF Holds
<1>3. NodeOf(d, s.sv, m) = g[Len(p) - 1]
  <2> DEFINE n == Len(p) - 1
  <2>1. n \in 1 .. Len(p) /\ n \in 1 .. n /\ n < Len(p)
    BY <1>1
  <2>2. s.sv = SubSeq(p, 1, n) /\ SymsOfPath(d, SubSeq(p, 1, n)) \subseteq S
    BY DEF Described, SymsOfState
  <2> HIDE DEF n
  <2>3. NodeOf(d, SubSeq(p, 1, n), m) = g[n]
    BY <1>1, <2>1, <2>2, FollowsWay
  <2> QED BY <2>2, <2>3 DEF n
<1> QED BY <1>2, <1>3

\* A valuation under which the path constraints of a described state hold makes its
\* path a way.
LEMMA ModelIsWay ==
  ASSUME NEW d, IsDesign(d), NEW s, NEW p, NEW P, Described(s, p, P),
         NEW S \in SUBSET Sym, NEW m \in Valuations(S),
         \A k \in 1 .. Len(s.asmpt) : Holds(d, s.asmpt[k], m)
  PROVE  \E c, g : /\ Way(d, p, P, c, g)
                   /\ \A i \in 2 .. Len(p) : c[i] = CellOf(p[i], m)
                   /\ NodeOf(d, s.sv, m) = g[Len(p) - 1]
<1>1. /\ Clear(p) /\ p \in Path /\ p # <<>>
      /\ p \in Seq(Assignment) /\ Len(p) \in Nat /\ Len(p) > 1 /\ p[1][StateVar] \notin Sym
  BY ClearFacts DEF Described
<1>2. DOMAIN m = S
  BY ValuesOfSymbols
<1> DEFINE c == [i \in 2 .. Len(p) |-> CellOf(p[i], m)]
<1>3. \A i \in 2 .. Len(p) : c[i] = CellOf(p[i], m) /\ c[i] \in Cell
  BY <1>1, CellsAreCells DEF Clear, Formed
<1>4. c \in [2 .. Len(p) -> Cell]
  BY <1>3
<1>5. PICK h : /\ \A k \in 1 .. Len(p) : NodeOf(d, SubSeq(p, 1, k), m) = h[k]
               /\ Visits(d, p, m, h)
  BY <1>1, NodesOfPrefixes
<1> DEFINE g == [k \in 1 .. Len(p) - 1 |-> h[k]]
<1>6. \A k \in 1 .. Len(p) - 1 : g[k] = h[k]
  OBVIOUS
<1>7. h[1] = p[1][StateVar] /\ h[1] \in Nodes
  BY <1>1, <1>2, <1>5 DEF Visits, FirstNode, StateVar, Clear
<1> HIDE DEF c
<1>8. \A i \in 2 .. Len(p) : h[i] = d.next[h[i - 1]][c[i]]
  BY <1>3, <1>5 DEF Visits
<1> DEFINE Typed == {j \in Nat : j + 1 \in 1 .. Len(p) => h[j + 1] \in Nodes}
<1>9. 0 \in Typed
  BY <1>7
<1>10. ASSUME NEW j \in Nat, j \in Typed
       PROVE  j + 1 \in Typed
  <2> SUFFICES ASSUME (j + 1) + 1 \in 1 .. Len(p)
               PROVE  h[(j + 1) + 1] \in Nodes
    OBVIOUS
  <2>1. (j + 1) + 1 \in 2 .. Len(p) /\ ((j + 1) + 1) - 1 = j + 1 /\ j + 1 \in 1 .. Len(p)
    BY <1>1
  <2>2. h[j + 1] \in Nodes
    BY <1>10, <2>1
  <2>3. h[(j + 1) + 1] = d.next[h[j + 1]][c[(j + 1) + 1]] /\ c[(j + 1) + 1] \in Cell
    BY <1>3, <1>8, <2>1
  <2> QED BY <2>2, <2>3 DEF IsDesign
<1>11. \A j \in Nat : j \in Typed
  <2> HIDE DEF Typed
  <2> QED BY <1>9, <1>10, SetInduction
<1>12. \A i \in 1 .. Len(p) : h[i] \in Nodes
  <2> SUFFICES ASSUME NEW i \in 1 .. Len(p)
               PROVE  h[i] \in Nodes
    OBVIOUS
  <2>1. i - 1 \in Nat /\ (i - 1) + 1 = i
    BY <1>1
  <2> QED BY <1>11, <2>1
<1>13. g \in [1 .. Len(p) - 1 -> Nodes]
  <2>1. \A k \in 1 .. Len(p) - 1 : k \in 1 .. Len(p)
    BY <1>1
  <2> QED BY <1>12, <2>1
<1>14. ASSUME NEW i \in 2 .. Len(p)
       PROVE  /\ Fits(p[i], c[i])
              /\ c[i] \in d.allowed[h[i - 1]]
              /\ P[i] \subseteq d.holds[h[i - 1]][c[i]]
  <2>1. Fits(p[i], c[i])
    BY <1>2, <1>3 DEF Fits, CellOf
  <2>2. i - 1 \in 1 .. Len(p)
    BY <1>1
  <2>3. ASSUME NEW w \in AskedOf(P, i), w # "init"
        PROVE  IF w = "ts" THEN c[i] \in d.allowed[h[i - 1]]
                           ELSE w \in d.holds[h[i - 1]][c[i]]
    <3> DEFINE over == SubSeq(p, 1, i)
               a == [what |-> w, over |-> over]
    <3>1. a \in ToSet(s.asmpt)
      BY DEF Described
    <3>2. PICK k \in 1 .. Len(s.asmpt) : s.asmpt[k] = a
      <4> HIDE DEF a
      <4> QED BY <3>1 DEF ToSet
    <3>3. Holds(d, a, m)
      BY <3>2
    <3>4. a.what = w /\ a.over = over
      OBVIOUS
    <3>5. Front(over) = SubSeq(p, 1, i - 1) /\ Last(over) = p[i]
      BY <1>1, PrefixParts
    <3> HIDE DEF a, over
    <3>6. NodeOf(d, Front(over), m) = h[i - 1] /\ CellOf(Last(over), m) = c[i]
      BY <1>3, <1>5, <2>2, <3>5
    <3> QED BY <2>3, <3>3, <3>4, <3>6 DEF Holds
  <2>4. c[i] \in d.allowed[h[i - 1]]
    <3>1. CASE HasConstraints
      <4>1. "ts" \in AskedOf(P, i) /\ "ts" # "init"
        BY <3>1 DEF AskedOf
      <4> QED BY <2>3, <4>1
    <3>2. CASE ~ HasConstraints
      <4>1. h[i - 1] \in Nodes /\ c[i] \in Cell
        BY <1>3, <1>12, <2>2
      <4> QED BY <3>2, <4>1 DEF IsDesign
    <3> QED BY <3>1, <3>2
  <2>5. P[i] \subseteq d.holds[h[i - 1]][c[i]]
    <3> SUFFICES ASSUME NEW w \in P[i]
                 PROVE  w \in d.holds[h[i - 1]][c[i]]
      OBVIOUS
    <3>1. w \in Pre /\ w \in AskedOf(P, i)
      BY DEF Described, AskedOf
    <3>2. w # "init" /\ w # "ts"
      BY <3>1, SymSimAssumption
    <3> QED BY <2>3, <3>1, <3>2
  <2> QED BY <2>1, <2>4, <2>5
<1>15. Way(d, p, P, c, g)
  <2>1. \A i \in 2 .. Len(p) : i - 1 \in 1 .. Len(p) - 1
    BY <1>1
  <2>2. 1 \in 1 .. Len(p) - 1
    BY <1>1
  <2>3. \A i \in 2 .. Len(p) - 1 : i \in 2 .. Len(p) /\ i \in 1 .. Len(p) - 1
    BY <1>1
  <2> HIDE DEF g
  <2> QED BY <1>4, <1>6, <1>7, <1>8, <1>13, <1>14, <2>1, <2>2, <2>3 DEF Way
<1>16. NodeOf(d, s.sv, m) = g[Len(p) - 1]
  <2>1. Len(p) - 1 \in 1 .. Len(p) /\ Len(p) - 1 \in 1 .. Len(p) - 1
    BY <1>1
  <2>2. s.sv = SubSeq(p, 1, Len(p) - 1)
    BY DEF Described
  <2> HIDE DEF g
  <2> QED BY <1>5, <1>6, <2>1, <2>2
<1> HIDE DEF g
<1> QED BY <1>3, <1>15, <1>16

LEMMA SymsOfStateAreSyms == \A d, s : SymsOfState(d, s) \subseteq Sym
BY DEF SymsOfState, SymsOfPath, SymsOf

\* A state stands for the nodes that the ways of its path end in.
LEMMA NodesEndWays ==
  ASSUME NEW d, IsDesign(d), NEW s, NEW p, NEW P, Described(s, p, P)
  PROVE  /\ \A c, g : Way(d, p, P, c, g) => g[Len(p) - 1] \in NodesOf(d, s)
         /\ \A n \in NodesOf(d, s) : \E c, g : Way(d, p, P, c, g) /\ g[Len(p) - 1] = n
<1> DEFINE S == SymsOfState(d, s)
<1>1. S \subseteq Sym /\ Clear(p)
  BY SymsOfStateAreSyms DEF Described
<1>2. NodesOf(d, s) = {NodeOf(d, s.sv, m) : m \in Models(d, S, s.asmpt)}
  BY DEF NodesOf
<1>3. \A m : m \in Models(d, S, s.asmpt) <=>
        m \in Valuations(S) /\ \A k \in 1 .. Len(s.asmpt) : Holds(d, s.asmpt[k], m)
  BY DEF Models
<1>4. ASSUME NEW c, NEW g, Way(d, p, P, c, g)
      PROVE  g[Len(p) - 1] \in NodesOf(d, s)
  <2>1. \A i \in 2 .. Len(p) : c[i] \in Cell
    BY <1>4 DEF Way
  <2>2. PICK m \in Valuations(S) : Gives(m, p, c)
    BY <1>1, <2>1, ClearIsCompatible, JointValuation
  <2>3. /\ \A k \in 1 .. Len(s.asmpt) : Holds(d, s.asmpt[k], m)
        /\ NodeOf(d, s.sv, m) = g[Len(p) - 1]
    BY <1>1, <1>4, <2>2, WayIsModel
  <2> HIDE DEF S
  <2> QED BY <1>2, <1>3, <2>2, <2>3
<1>5. ASSUME NEW n \in NodesOf(d, s)
      PROVE  \E c, g : Way(d, p, P, c, g) /\ g[Len(p) - 1] = n
  <2>1. PICK m \in Models(d, S, s.asmpt) : n = NodeOf(d, s.sv, m)
    BY <1>2
  <2>2. PICK c, g : Way(d, p, P, c, g) /\ NodeOf(d, s.sv, m) = g[Len(p) - 1]
    <3> HIDE DEF S
    <3> QED BY <1>1, <1>3, <2>1, ModelIsWay
  <2> QED BY <2>1, <2>2
<1> QED BY <1>4, <1>5

\* Ways with the same inputs, as far as they are read, go through the same nodes.
LEMMA SameWays ==
  ASSUME NEW d, IsDesign(d), NEW p, Clear(p), NEW P,
         NEW c, NEW g, Way(d, p, P, c, g), NEW e, NEW h, Way(d, p, P, e, h),
         NEW n \in 1 .. Len(p) - 1, \A i \in 2 .. n : AgreeOn(d.reads, c[i], e[i])
  PROVE  g[n] = h[n]
<1>1. Len(p) \in Nat /\ Len(p) > 1
  BY ClearFacts
<1> DEFINE Same == {j \in Nat : j + 1 \in 1 .. n => h[j + 1] = g[j + 1]}
<1>2. 0 \in Same
  BY DEF Way
<1>3. ASSUME NEW j \in Nat, j \in Same
      PROVE  j + 1 \in Same
  <2> SUFFICES ASSUME (j + 1) + 1 \in 1 .. n
               PROVE  h[(j + 1) + 1] = g[(j + 1) + 1]
    OBVIOUS
  <2> DEFINE i == (j + 1) + 1
  <2>1. /\ i \in 2 .. Len(p) - 1 /\ i \in 2 .. Len(p) /\ i \in 2 .. n /\ i - 1 = j + 1
        /\ i - 1 \in 1 .. Len(p) - 1 /\ i - 1 \in 1 .. n
    BY <1>1
  <2>2. h[i - 1] = g[i - 1]
    BY <1>3, <2>1
  <2> HIDE DEF i
  <2>3. h[i] = d.next[h[i - 1]][e[i]] /\ g[i] = d.next[g[i - 1]][c[i]]
    BY <2>1 DEF Way
  <2>4. g[i - 1] \in Nodes /\ c[i] \in Cell /\ e[i] \in Cell
    BY <2>1 DEF Way
  <2>5. d.next[g[i - 1]][c[i]] = d.next[g[i - 1]][e[i]]
    BY <2>1, <2>4, AgreeingCells
  <2> QED BY <2>2, <2>3, <2>5 DEF i
<1>4. \A j \in Nat : j \in Same
  <2> HIDE DEF Same
  <2> QED BY <1>2, <1>3, SetInduction
<1>5. n - 1 \in Nat /\ (n - 1) + 1 = n /\ n \in 1 .. n
  BY <1>1
<1> QED BY <1>4, <1>5
-----------------------------------------------------------------------------
\* The cells are those of two valuations that differ in one symbol.
OneInputApart(p, c, e) ==
  \E j \in 2 .. Len(p), u \in InVars : \A i \in 2 .. Len(p), v \in InVars :
    i # j \/ v # u => c[i][v] = e[i][v]

\* No single input decides where a way ends.
Steady(d, p, P) ==
  \A c, g, e, h : Way(d, p, P, c, g) /\ Way(d, p, P, e, h) /\ OneInputApart(p, c, e)
                    => g[Len(p) - 1] = h[Len(p) - 1]

LEMMA ConcreteIsSteady ==
  ASSUME NEW d, IsDesign(d), NEW s, NEW p, NEW P, Described(s, p, P),
         NEW X, \A i \in 2 .. Len(p) - 1 : SymsOf(p[i]) \subseteq X,
         check_concrete_enough(d, s, X)
  PROVE  Steady(d, p, P)
<1> DEFINE S == SymsOfState(d, s)
<1>1. S \subseteq Sym /\ Clear(p) /\ Len(p) \in Nat /\ Len(p) > 1 /\ p \in Seq(Assignment)
  BY SymsOfStateAreSyms, ClearFacts DEF Described
<1>2. \A m : m \in Models(d, S, s.asmpt) <=>
        m \in Valuations(S) /\ \A k \in 1 .. Len(s.asmpt) : Holds(d, s.asmpt[k], m)
  BY DEF Models
<1> SUFFICES ASSUME NEW c, NEW g, NEW e, NEW h, Way(d, p, P, c, g), Way(d, p, P, e, h),
                    OneInputApart(p, c, e)
             PROVE  g[Len(p) - 1] = h[Len(p) - 1]
  BY DEF Steady
<1>3. PICK j \in 2 .. Len(p), u \in InVars : \A i \in 2 .. Len(p), v \in InVars :
        i # j \/ v # u => c[i][v] = e[i][v]
  BY DEF OneInputApart
<1> DEFINE x == p[j][u]
<1>4. CASE x \in SymsOfPath(d, s.sv) /\ j < Len(p)
  <2>1. PICK m \in Valuations(S) : Gives(m, p, c)
    <3>1. \A i \in 2 .. Len(p) : c[i] \in Cell
      BY DEF Way
    <3> QED BY <1>1, <3>1, ClearIsCompatible, JointValuation
  <2>2. DOMAIN m = S
    BY ValuesOfSymbols
  <2>3. x \in S /\ x \in Sym /\ x.var = u
    BY <1>1, <1>4 DEF SymsOfState, Clear, Formed, Own
  <2> DEFINE n == [y \in S |-> IF y = x THEN e[j][u] ELSE m[y]]
  <2>4. DOMAIN n = S /\ \A y \in S : n[y] = IF y = x THEN e[j][u] ELSE m[y]
    OBVIOUS
  <2>5. n \in Valuations(S)
    <3>1. n = [y \in S |-> n[y]]
      OBVIOUS
    <3>2. e[j][u] \in Bits /\ u \notin StateVars
      BY SymSimAssumption DEF Way, Cell
    <3>3. \A y \in S : /\ y.var \in InVars => n[y] \in Bits
                       /\ y.var \in StateVars => n[y] \in Nodes
      <4> HIDE DEF n, x
      <4> QED BY <2>3, <2>4, <3>2, ValuesOfSymbols
    <3> HIDE DEF n
    <3> QED BY <1>1, <3>1, <3>3, MakeValuation
  <2> HIDE DEF n
  <2>6. Gives(n, p, e)
    <3> SUFFICES ASSUME NEW i \in 2 .. Len(p), NEW v \in InVars, p[i][v] \in S
                 PROVE  n[p[i][v]] = e[i][v]
      BY <2>4 DEF Gives
    <3>1. p[i][v] \in Sym /\ p[i][v].var = v
      BY <1>1 DEF Clear, Formed, Own
    <3>2. CASE p[i][v] = x
      <4>1. v = u
        BY <2>3, <3>1, <3>2
      <4>2. i = j
        BY <1>1, <2>3, <3>2, <4>1, OnePlace
      <4> QED BY <2>4, <3>2, <4>1, <4>2
    <3>3. CASE p[i][v] # x
      <4>1. i # j \/ v # u
        BY <3>3
      <4>2. m[p[i][v]] = c[i][v]
        BY <2>1, <2>2 DEF Gives
      <4> QED BY <1>3, <2>4, <3>3, <4>1, <4>2
    <3> QED BY <3>2, <3>3
  <2>7. /\ m \in Models(d, S, s.asmpt) /\ NodeOf(d, s.sv, m) = g[Len(p) - 1]
        /\ n \in Models(d, S, s.asmpt) /\ NodeOf(d, s.sv, n) = h[Len(p) - 1]
    <3>1. /\ \A k \in 1 .. Len(s.asmpt) : Holds(d, s.asmpt[k], m)
          /\ NodeOf(d, s.sv, m) = g[Len(p) - 1]
      BY <1>1, <2>1, WayIsModel
    <3>2. /\ \A k \in 1 .. Len(s.asmpt) : Holds(d, s.asmpt[k], n)
          /\ NodeOf(d, s.sv, n) = h[Len(p) - 1]
      BY <1>1, <2>5, <2>6, WayIsModel
    <3> HIDE DEF S
    <3> QED BY <1>2, <2>1, <2>5, <3>1, <3>2
  <2>8. \A y \in DOMAIN m \ {x} : m[y] = n[y]
    BY <2>2, <2>4
  <2>9. x \in X
    <3>1. j \in 2 .. Len(p) - 1
      BY <1>1, <1>4
    <3>2. x \in SymsOf(p[j])
      BY <1>1, <2>3 DEF Clear, Formed, Own, SymsOf, Range
    <3> QED BY <3>1, <3>2
  <2>10. e_is_independent_of_v(d, s.sv, x, Models(d, S, s.asmpt))
    <3> HIDE DEF x
    <3> QED BY <1>4, <2>9 DEF check_concrete_enough
  <2> HIDE DEF S, x
  <2> QED BY <2>7, <2>8, <2>10 DEF e_is_independent_of_v
<1>5. CASE ~ (x \in SymsOfPath(d, s.sv) /\ j < Len(p))
  <2> DEFINE n == Len(p) - 1
  <2>1. n \in 1 .. Len(p) - 1 /\ n \in 0 .. Len(p)
    BY <1>1
  <2>2. ASSUME NEW i \in 2 .. n, NEW v \in d.reads
        PROVE  c[i][v] = e[i][v]
    <3>1. i \in 2 .. Len(p) /\ v \in InVars /\ i < Len(p)
      BY <1>1 DEF IsDesign
    <3>2. CASE i # j \/ v # u
      BY <1>3, <3>1, <3>2
    <3>3. CASE i = j /\ v = u
      <4>1. x \notin Sym
        <5> SUFFICES ASSUME x \in Sym
                     PROVE  FALSE
          OBVIOUS
        <5> DEFINE q == SubSeq(p, 1, n)
        <5>1. q = s.sv
          BY DEF Described
        <5>2. Len(q) = n /\ \A k \in 1 .. n : q[k] = p[k]
          <6> HIDE DEF n
          <6> QED BY <1>1, <2>1, PrefixType
        <5> HIDE DEF q
        <5>3. j \in 1 .. Len(q) /\ q[j] = p[j]
          BY <3>3, <5>2
        <5>4. x \in SymsOf(q[j]) /\ x.var = u /\ u \in d.reads
          BY <1>1, <3>3, <5>3 DEF Clear, Formed, Own, SymsOf, Range
        <5>5. x \in SymsOfPath(d, q)
          BY <5>3, <5>4 DEF SymsOfPath
        <5> QED BY <1>5, <3>1, <3>3, <5>1, <5>5
      <4>2. /\ c[i][v] = IF p[i][v] \in Bits THEN p[i][v] ELSE CHOOSE b \in Bits : TRUE
            /\ e[i][v] = IF p[i][v] \in Bits THEN p[i][v] ELSE CHOOSE b \in Bits : TRUE
        BY <3>1, <3>3, <4>1 DEF Way, Fits
      <4> QED BY <4>2
    <3> QED BY <3>2, <3>3
  <2>3. \A i \in 2 .. n : AgreeOn(d.reads, c[i], e[i])
    BY <2>2 DEF AgreeOn
  <2> HIDE DEF n
  <2>4. g[n] = h[n]
    BY <1>1, <2>1, <2>3, SameWays
  <2> QED BY <2>4 DEF n
<1> QED BY <1>4, <1>5

LEMMA SteadyIsConcrete ==
  ASSUME NEW d, IsDesign(d), NEW s, NEW p, NEW P, Described(s, p, P), Steady(d, p, P), NEW X
  PROVE  check_concrete_enough(d, s, X)
<1> DEFINE S == SymsOfState(d, s)
<1>1. S \subseteq Sym /\ Clear(p) /\ Len(p) \in Nat /\ Len(p) > 1 /\ p \in Seq(Assignment)
      /\ p[1][StateVar] \notin Sym
  BY SymsOfStateAreSyms, ClearFacts DEF Described
<1> SUFFICES ASSUME NEW x \in SymsOfPath(d, s.sv),
                    NEW m \in Models(d, S, s.asmpt), NEW n \in Models(d, S, s.asmpt),
                    \A y \in DOMAIN m \ {x} : m[y] = n[y]
             PROVE  NodeOf(d, s.sv, m) = NodeOf(d, s.sv, n)
  BY DEF check_concrete_enough, e_is_independent_of_v
<1>2. /\ m \in Valuations(S) /\ \A k \in 1 .. Len(s.asmpt) : Holds(d, s.asmpt[k], m)
      /\ n \in Valuations(S) /\ \A k \in 1 .. Len(s.asmpt) : Holds(d, s.asmpt[k], n)
  BY DEF Models
<1> HIDE DEF S
<1>3. PICK c, g : /\ Way(d, p, P, c, g) /\ \A i \in 2 .. Len(p) : c[i] = CellOf(p[i], m)
                  /\ NodeOf(d, s.sv, m) = g[Len(p) - 1]
  BY <1>1, <1>2, ModelIsWay
<1>4. PICK e, h : /\ Way(d, p, P, e, h) /\ \A i \in 2 .. Len(p) : e[i] = CellOf(p[i], n)
                  /\ NodeOf(d, s.sv, n) = h[Len(p) - 1]
  BY <1>1, <1>2, ModelIsWay
<1>5. PICK j \in 2 .. Len(p), u \in InVars : p[j][u] = x
  <2>1. PICK j \in 1 .. Len(s.sv) : x \in SymsOf(s.sv[j])
    BY DEF SymsOfPath
  <2>2. Len(s.sv) = Len(p) - 1 /\ s.sv[j] = p[j]
    <3> DEFINE k == Len(p) - 1
    <3>1. s.sv = SubSeq(p, 1, k) /\ k \in 0 .. Len(p)
      BY <1>1 DEF Described
    <3> HIDE DEF k
    <3>2. Len(s.sv) = k /\ \A i \in 1 .. k : s.sv[i] = p[i]
      BY <1>1, <3>1, PrefixType
    <3> QED BY <2>1, <3>2 DEF k
  <2>3. x \in Sym /\ x \in SymsOf(p[j])
    BY <2>1, <2>2 DEF SymsOf
  <2>4. j # 1
    <3> SUFFICES ASSUME x \in SymsOf(p[1])
                 PROVE  FALSE
      BY <2>3
    <3>1. PICK v \in StateVars : x = p[1][v]
      BY <1>1 DEF SymsOf, Range, Clear, Formed, Own
    <3>2. v = StateVar
      BY StateVarIs
    <3> QED BY <1>1, <2>3, <3>1, <3>2
  <2>5. j \in 2 .. Len(p)
    BY <1>1, <2>1, <2>2, <2>4
  <2>6. PICK u \in InVars : p[j][u] = x
    BY <1>1, <2>3, <2>5 DEF SymsOf, Range, Clear, Formed, Own
  <2> QED BY <2>5, <2>6
<1>6. x \in Sym /\ DOMAIN m = S /\ DOMAIN n = S
  BY <1>2, ValuesOfSymbols DEF SymsOfPath, SymsOf
<1>7. ASSUME NEW i \in 2 .. Len(p), NEW v \in InVars, i # j \/ v # u
      PROVE  c[i][v] = e[i][v]
  <2>1. p[i][v] # x
    <3> SUFFICES ASSUME p[i][v] = x
                 PROVE  FALSE
      OBVIOUS
    <3>1. x.var = v /\ x.var = u
      BY <1>1, <1>5, <1>6 DEF Clear, Formed, Own
    <3>2. i = j
      BY <1>1, <1>5, <1>6, <3>1, OnePlace
    <3> QED BY <1>7, <3>1, <3>2
  <2>2. /\ c[i][v] = IF p[i][v] \in S THEN m[p[i][v]] ELSE IF p[i][v] \in Bits THEN p[i][v]
                     ELSE CHOOSE b \in Bits : TRUE
        /\ e[i][v] = IF p[i][v] \in S THEN n[p[i][v]] ELSE IF p[i][v] \in Bits THEN p[i][v]
                     ELSE CHOOSE b \in Bits : TRUE
    <3>1. c[i] = CellOf(p[i], m) /\ e[i] = CellOf(p[i], n)
      BY <1>3, <1>4
    <3> QED BY <1>6, <3>1 DEF CellOf
  <2>3. p[i][v] \in S => m[p[i][v]] = n[p[i][v]]
    BY <1>6, <2>1
  <2> QED BY <2>2, <2>3
<1>8. OneInputApart(p, c, e)
  BY <1>7 DEF OneInputApart
<1> QED BY <1>3, <1>4, <1>8 DEF Steady

\* Ways of two states that give common symbols the same values are a common model.
LEMMA JointModel ==
  ASSUME NEW d, IsDesign(d), NEW r, NEW q, NEW Q, Described(r, q, Q),
         NEW s, NEW p, NEW P, Described(s, p, P),
         NEW e, NEW h, Way(d, q, Q, e, h), NEW c, NEW g, Way(d, p, P, c, g),
         Compatible(p, c, q, e)
  PROVE  /\ CommonModels(d, r, s) # {}
         /\ abs_eq(d, r, s) => h[Len(q) - 1] = g[Len(p) - 1]
<1> DEFINE S == SymsOfState(d, r) \cup SymsOfState(d, s)
<1>1. S \subseteq Sym /\ SymsOfState(d, r) \subseteq S /\ SymsOfState(d, s) \subseteq S
  BY SymsOfStateAreSyms
<1>2. Clear(p) /\ Clear(q) /\ r.asmpt \in Seq(Assumption) /\ s.asmpt \in Seq(Assumption)
  BY DEF Described, StateAsmpt
<1>3. PICK m \in Valuations(S) : Gives(m, p, c) /\ Gives(m, q, e)
  <2>1. (\A i \in 2 .. Len(p) : c[i] \in Cell) /\ (\A i \in 2 .. Len(q) : e[i] \in Cell)
    BY DEF Way
  <2> HIDE DEF S
  <2> QED BY <1>1, <1>2, <2>1, JointValuation
<1> HIDE DEF S
<1>4. /\ \A k \in 1 .. Len(r.asmpt) : Holds(d, r.asmpt[k], m)
      /\ NodeOf(d, r.sv, m) = h[Len(q) - 1]
  BY <1>1, <1>3, WayIsModel
<1>5. /\ \A k \in 1 .. Len(s.asmpt) : Holds(d, s.asmpt[k], m)
      /\ NodeOf(d, s.sv, m) = g[Len(p) - 1]
  BY <1>1, <1>3, WayIsModel
<1> DEFINE A == r.asmpt \o s.asmpt
<1>6. A \in Seq(Assumption) /\ ToSet(A) = ToSet(r.asmpt) \cup ToSet(s.asmpt)
  BY <1>2, ConcatType, ConcatElements
<1> HIDE DEF A
<1>7. ASSUME NEW k \in 1 .. Len(A)
      PROVE  Holds(d, A[k], m)
  <2>1. A[k] \in ToSet(r.asmpt) \cup ToSet(s.asmpt)
    BY <1>6 DEF ToSet
  <2>2. ASSUME A[k] \in ToSet(r.asmpt)
        PROVE  Holds(d, A[k], m)
    <3>1. PICK l \in 1 .. Len(r.asmpt) : A[k] = r.asmpt[l]
      BY <1>2, <2>2 DEF ToSet
    <3> QED BY <1>4, <3>1
  <2>3. ASSUME A[k] \in ToSet(s.asmpt)
        PROVE  Holds(d, A[k], m)
    <3>1. PICK l \in 1 .. Len(s.asmpt) : A[k] = s.asmpt[l]
      BY <1>2, <2>3 DEF ToSet
    <3> QED BY <1>5, <3>1
  <2> QED BY <2>1, <2>2, <2>3
<1>8. m \in CommonModels(d, r, s)
  BY <1>3, <1>7 DEF CommonModels, Models, S, A
<1> QED BY <1>4, <1>5, <1>8 DEF abs_eq
-----------------------------------------------------------------------------
(***************************************************************************)
(* Copied states are described by the frame they are copied from.          *)
(***************************************************************************)

\* What is in a flattened sequence is in one of its parts.
LEMMA FlattenHas ==
  ASSUME NEW X, NEW seqs \in Seq(Seq(X)), NEW a \in ToSet(FlattenSeq(seqs)), seqs # <<>>
  PROVE  \E k \in 1 .. Len(seqs) : a \in ToSet(seqs[k])
<1>1. Len(seqs) \in Nat \ {0} /\ \A i \in 1 .. Len(seqs) : seqs[i] \in Seq(X)
  OBVIOUS
<1>2. PICK g : /\ FlattenSeq(seqs) = g[Len(seqs)] /\ g[1] = seqs[1]
               /\ \A j \in Nat : j + 2 \in 1 .. Len(seqs) =>
                    g[j + 2] = g[j + 1] \o seqs[j + 2]
               /\ \A j \in Nat : j + 1 \in 1 .. Len(seqs) => g[j + 1] \in Seq(X)
  BY ONLY seqs \in Seq(Seq(X)), seqs # <<>>, FlattenParts
<1> DEFINE S == {j \in Nat : j + 1 \in 1 .. Len(seqs) /\ a \in ToSet(g[j + 1]) =>
                   \E i \in 1 .. j + 1 : a \in ToSet(seqs[i])}
<1>3. 0 \in S
  BY <1>2
<1>4. ASSUME NEW j \in Nat, j \in S
      PROVE  j + 1 \in S
  <2> SUFFICES ASSUME j + 2 \in 1 .. Len(seqs), a \in ToSet(g[j + 2])
               PROVE  \E i \in 1 .. j + 2 : a \in ToSet(seqs[i])
    <3>1. (j + 1) + 1 = j + 2 /\ j + 1 \in Nat
      OBVIOUS
    <3> QED BY <3>1
  <2>1. j + 1 \in 1 .. Len(seqs)
    BY <1>1
  <2>2. g[j + 1] \in Seq(X) /\ seqs[j + 2] \in Seq(X)
    BY <1>1, <1>2, <2>1
  <2>3. ToSet(g[j + 2]) = ToSet(g[j + 1]) \cup ToSet(seqs[j + 2])
    <3>1. g[j + 2] = g[j + 1] \o seqs[j + 2]
      BY <1>2
    <3> QED BY <2>2, <3>1, ConcatElements
  <2>4. a \in ToSet(g[j + 1]) => \E i \in 1 .. j + 1 : a \in ToSet(seqs[i])
    BY <1>4, <2>1
  <2>5. (\A i \in 1 .. j + 1 : i \in 1 .. j + 2) /\ j + 2 \in 1 .. j + 2
    OBVIOUS
  <2> QED BY <2>3, <2>4, <2>5
<1>5. \A j \in Nat : j \in S
  <2> HIDE DEF S
  <2> QED BY <1>3, <1>4, SetInduction
<1>6. Len(seqs) - 1 \in Nat /\ (Len(seqs) - 1) + 1 = Len(seqs) /\ Len(seqs) \in 1 .. Len(seqs)
  BY <1>1
<1>7. Len(seqs) - 1 \in S
  <2> HIDE DEF S
  <2> QED BY <1>5, <1>6
<1>8. a \in ToSet(g[Len(seqs)]) => \E i \in 1 .. Len(seqs) : a \in ToSet(seqs[i])
  BY <1>6, <1>7
<1> QED BY <1>2, <1>8

\* What set_input pushes.
LEMMA AddedElements ==
  ASSUME NEW pre \in Seq(Pre), NEW over \in Path
  PROVE  \A a : a \in ToSet(AddedAssumptions(pre, over)) <=>
           \E w \in ToSet(pre) \cup {u \in {"ts"} : HasConstraints} :
             a = [what |-> w, over |-> over]
<1> DEFINE ts == IF HasConstraints THEN <<[what |-> "ts", over |-> over]>> ELSE <<>>
           formulas == [i \in 1 .. Len(pre) |-> [what |-> pre[i], over |-> over]]
<1>1. ts \in Seq(Assumption) /\ formulas \in Seq(Assumption)
  <2>1. Len(pre) \in Nat /\ \A i \in 1 .. Len(pre) : pre[i] \in Pre
    OBVIOUS
  <2>2. [what |-> "ts", over |-> over] \in Assumption
    BY DEF Assumption
  <2>3. \A i \in 1 .. Len(pre) : [what |-> pre[i], over |-> over] \in Assumption
    BY <2>1 DEF Assumption
  <2> QED BY <2>1, <2>2, <2>3
<1>2. AddedAssumptions(pre, over) = ts \o formulas
  BY DEF AddedAssumptions
<1>3. \A a : a \in ToSet(ts) <=> HasConstraints /\ a = [what |-> "ts", over |-> over]
  BY DEF ToSet
<1>4. \A a : a \in ToSet(formulas) <=> \E w \in ToSet(pre) : a = [what |-> w, over |-> over]
  BY DEF ToSet
<1> HIDE DEF ts, formulas
<1>5. ToSet(ts \o formulas) = ToSet(ts) \cup ToSet(formulas)
  BY <1>1, ConcatElements
<1> QED BY <1>2, <1>3, <1>4, <1>5

\* The simulator was given in one frame, with a node.
RootGiven == Len(trace[1]) = 1 /\ trace[1][1][StateVar] \in Nodes

\* The frames are the root followed by the inputs of the choices.
LEMMA FramesAre ==
  ASSUME IInv, trace # <<>>, Len(trace[1]) = 1
  PROVE  \A k \in 1 .. Len(trace) :
           /\ trace[k] \in Seq(Assignment) /\ Len(trace[k]) = k
           /\ trace[k][1] = trace[1][1]
           /\ \A i \in 2 .. k : trace[k][i] = history_choice[i - 1].var_assign
<1>1. Len(trace) \in Nat \ {0} /\ \A k \in 1 .. Len(trace) : trace[k] \in Seq(Assignment)
  BY Shape DEF IInv, TypeOK, Path
<1>2. ASSUME NEW k \in 1 .. Len(trace) - 1
      PROVE  /\ trace[k + 1] = Append(trace[k], history_choice[k].var_assign)
             /\ history_choice[k].var_assign \in Assignment
  <2>1. trace[k + 1] = Append(trace[k], history_choice[k].var_assign)
    BY <1>2 DEF IInv, Replay, FramesReplayChoices
  <2>2. k \in 1 .. Len(history_choice) /\ history_choice \in Seq(ChoiceItem)
    BY <1>1, Shape DEF IInv, TypeOK
  <2>3. history_choice[k] \in ChoiceItem
    BY <2>2
  <2> QED BY <2>1, <2>3 DEF ChoiceItem, Assignment
<1> DEFINE Good(k) == /\ Len(trace[k]) = k /\ trace[k][1] = trace[1][1]
                      /\ \A i \in 2 .. k : trace[k][i] = history_choice[i - 1].var_assign
           S == {j \in Nat : j + 1 \in 1 .. Len(trace) => Good(j + 1)}
<1>3. 0 \in S
  OBVIOUS
<1>4. ASSUME NEW j \in Nat, j \in S
      PROVE  j + 1 \in S
  <2> SUFFICES ASSUME (j + 1) + 1 \in 1 .. Len(trace)
               PROVE  Good((j + 1) + 1)
    OBVIOUS
  <2> DEFINE k == j + 1
  <2>1. k \in 1 .. Len(trace) - 1 /\ k \in 1 .. Len(trace) /\ k \in Nat \ {0}
    BY <1>1
  <2>2. Good(k)
    BY <1>4, <2>1
  <2> HIDE DEF k
  <2> DEFINE f == trace[k]
             a == history_choice[k].var_assign
  <2>3. f \in Seq(Assignment) /\ a \in Assignment /\ Len(f) = k /\ trace[k + 1] = Append(f, a)
    BY <1>1, <1>2, <2>1, <2>2
  <2> HIDE DEF f, a
  <2>4. /\ Len(trace[k + 1]) = k + 1 /\ \A i \in 1 .. k : trace[k + 1][i] = f[i]
        /\ trace[k + 1][k + 1] = a
    BY <2>3, AppendType
  <2>5. trace[k + 1][1] = trace[1][1]
    BY <2>1, <2>2, <2>4 DEF f
  <2>6. ASSUME NEW i \in 2 .. k + 1
        PROVE  trace[k + 1][i] = history_choice[i - 1].var_assign
    <3>1. CASE i \in 2 .. k
      BY <2>1, <2>2, <2>4, <3>1 DEF f
    <3>2. CASE i = k + 1
      <4>1. i - 1 = k
        BY <2>1, <3>2
      <4> QED BY <2>4, <3>2, <4>1 DEF a
    <3> QED BY <2>1, <3>1, <3>2
  <2>7. Good(k + 1)
    BY <2>4, <2>5, <2>6
  <2> QED BY <2>7 DEF k
<1>5. \A j \in Nat : j \in S
  <2> HIDE DEF S
  <2> QED BY <1>3, <1>4, SetInduction
<1>6. ASSUME NEW k \in 1 .. Len(trace)
      PROVE  Good(k)
  <2>1. k - 1 \in Nat /\ (k - 1) + 1 = k
    BY <1>1
  <2>2. k - 1 \in S
    BY <1>5, <2>1
  <2> QED BY <2>1, <2>2
<1> QED BY <1>1, <1>6

\* A frame is the beginning of those above it.
LEMMA FramesBelow ==
  ASSUME IInv, trace # <<>>, Len(trace[1]) = 1, NEW k \in 1 .. Len(trace), NEW j \in 1 .. k
  PROVE  SubSeq(trace[k], 1, j) = trace[j]
<1>0. Len(trace) \in Nat \ {0}
  BY Shape DEF IInv
<1>1. /\ trace[k] \in Seq(Assignment) /\ Len(trace[k]) = k
      /\ trace[k][1] = trace[1][1]
      /\ \A i \in 2 .. k : trace[k][i] = history_choice[i - 1].var_assign
  BY FramesAre
<1>2. /\ trace[j] \in Seq(Assignment) /\ Len(trace[j]) = j
      /\ trace[j][1] = trace[1][1]
      /\ \A i \in 2 .. j : trace[j][i] = history_choice[i - 1].var_assign
  BY <1>0, FramesAre
<1> DEFINE f == trace[k]
           q == SubSeq(f, 1, j)
<1>3. j \in 0 .. Len(f)
  BY <1>0, <1>1
<1>4. q \in Seq(Assignment) /\ Len(q) = j /\ \A i \in 1 .. j : q[i] = f[i]
  <2> HIDE DEF f
  <2> QED BY <1>1, <1>3, PrefixType DEF f
<1>5. \A i \in 1 .. j : f[i] = trace[j][i]
  <2> SUFFICES ASSUME NEW i \in 1 .. j
               PROVE  f[i] = trace[j][i]
    OBVIOUS
  <2>1. i = 1 \/ (i \in 2 .. j /\ i \in 2 .. k)
    BY <1>0
  <2> QED BY <1>1, <1>2, <2>1
<1> HIDE DEF q, f
<1>6. q = trace[j]
  BY <1>2, <1>4, <1>5, SameSequence
<1> QED BY <1>6 DEF q, f

\* What the choice k asks of its input, and that its list says so.
Asks(pre) == ToSet(pre) \cup {w \in {"ts"} : HasConstraints}

LEMMA ListElements ==
  ASSUME Simulating, NEW k \in 1 .. Len(history_choice), k <= Len(trace),
         NEW over, over = Append(trace[k], history_choice[k].var_assign)
  PROVE  /\ \A a \in ToSet(history_assumptions[k]) : a.what # "init" =>
              a.over = over /\ a.what \in Asks(history_choice[k].assumptions)
         /\ \A w \in Asks(history_choice[k].assumptions) :
              [what |-> w, over |-> over] \in ToSet(history_assumptions[k])
<1> DEFINE c == history_choice[k]
           A == AddedAssumptions(c.assumptions, over)
           h == history_assumptions[k]
           B == SubSeq(h, 1, c.assmpt_len)
<1>1. /\ c \in ChoiceItem /\ trace[k] \in Path /\ h \in Seq(Assumption)
      /\ Len(trace) \in Nat
  <2>1. /\ trace \in Seq(Path) /\ history_assumptions \in Seq(Seq(Assumption))
        /\ history_choice \in Seq(ChoiceItem) /\ Len(history_assumptions) = Len(trace)
    BY Shape DEF Simulating, IInv, TypeOK
  <2>2. Len(trace) \in Nat
    BY <2>1
  <2>3. k \in 1 .. Len(trace)
    BY <2>2
  <2>4. c \in ChoiceItem
    BY <2>1
  <2>5. trace[k] \in Path /\ h \in Seq(Assumption)
    BY <2>1, <2>3
  <2> QED BY <2>2, <2>4, <2>5
<1>2. c.var_assign \in Assignment /\ c.assumptions \in Seq(Pre) /\ c.assmpt_len \in Nat
  BY <1>1 DEF ChoiceItem, Assignment
<1>3. over \in Path
  <2> HIDE DEF c
  <2> QED BY <1>1, <1>2 DEF Path, c
<1>4. c.assmpt_len <= Len(h) /\ (k > 1 => c.assmpt_len = 0) /\ h = B \o A
  BY DEF Simulating, IInv, Replay, AssumptionsReplayChoices
<1> DEFINE n == c.assmpt_len
<1>5. A \in Seq(Assumption)
  <2>1. Len(trace) - 1 \in Int
    BY <1>1
  <2> HIDE DEF c
  <2> QED BY <1>2, <1>3, <2>1, AddedType
<1>6. B \in Seq(Assumption) /\ Len(B) = n
  <2>1. n \in 0 .. Len(h) /\ B = SubSeq(h, 1, n)
    BY <1>1, <1>2, <1>4
  <2> HIDE DEF n, h, B
  <2> QED BY <1>1, <2>1, PrefixType
<1>7. ToSet(h) = ToSet(B) \cup ToSet(A)
  <2> HIDE DEF A, B, h
  <2> QED BY <1>4, <1>5, <1>6, ConcatElements
<1>8. \A a \in ToSet(B) : a.what = "init"
  <2>1. CASE k = 1
    <3>1. history_choice # <<>> /\ trace # <<>>
      BY <2>1 DEF Simulating
    <3>2. Bottom = B
      BY <2>1, <3>1 DEF Bottom
    <3> HIDE DEF B
    <3> QED BY <1>6, <3>1, <3>2 DEF Simulating, OnlyInit, ToSet
  <2>2. CASE k # 1
    <3>1. n = 0
      BY <1>4, <2>2
    <3> HIDE DEF B, n
    <3> QED BY <1>6, <3>1 DEF ToSet
  <2> QED BY <2>1, <2>2
<1>9. \A a : a \in ToSet(A) <=>
        \E w \in Asks(c.assumptions) : a = [what |-> w, over |-> over]
  <2> HIDE DEF c
  <2> QED BY <1>2, <1>3, AddedElements DEF Asks
<1> HIDE DEF A, B, n
<1>10. ASSUME NEW a \in ToSet(h), a.what # "init"
       PROVE  a.over = over /\ a.what \in Asks(c.assumptions)
  <2>1. a \in ToSet(A)
    BY <1>7, <1>8, <1>10
  <2>2. PICK w \in Asks(c.assumptions) : a = [what |-> w, over |-> over]
    BY <1>9, <2>1
  <2> QED BY <2>2
<1>11. ASSUME NEW w \in Asks(c.assumptions)
       PROVE  [what |-> w, over |-> over] \in ToSet(h)
  <2> DEFINE b == [what |-> w, over |-> over]
  <2>1. b \in ToSet(A)
    BY <1>9
  <2> HIDE DEF b
  <2> QED BY <1>7, <2>1 DEF b
<1> QED BY <1>10, <1>11

\* The formulas asked of the inputs of frame n, and of one input more.
PlanAt(n, pre) ==
  [i \in 2 .. n + 1 |-> ToSet(IF i <= n THEN history_choice[i - 1].assumptions ELSE pre)]

\* get_curr_state with no input pending describes the current frame; the symbols
\* of the input it pushes are new.
LEMMA CopyDescribes ==
  ASSUME Simulating, Orderly, SymbolsApart, RootGiven, ~ Pending,
         NEW pre \in PreLists, get_curr_state(pre)
  PROVE  \E e \in [InVars -> Sym] :
           /\ Own(InVars, e) /\ SymsOf(e) \subseteq syms' /\ SymsOf(e) \cap syms = {}
           /\ Described(ret', Append(trace[Len(trace)], e), PlanAt(Len(trace), pre))
<1> DEFINE n == Len(trace)
           f == trace[n]
           e == Complete(InVars, <<>>)
           p == Append(f, e)
           A == AddedAssumptions(pre, p)
           lists == PushTop(history_assumptions, A)
           P == PlanAt(n, pre)
<1>1. /\ n \in Nat \ {0} /\ Last(trace) = f /\ history_assumptions \in Seq(Seq(Assumption))
      /\ history_assumptions # <<>> /\ Len(history_assumptions) = n
      /\ history_choice \in Seq(ChoiceItem) /\ Len(history_choice) = n - 1 /\ n \in 1 .. n
  BY Shape DEF Simulating, IInv, TypeOK
<1>2. get_curr_state_pushed(pre)
  BY DEF get_curr_state, get_curr_state_pending
<1>3. /\ CanMint(InVars) /\ new_var(InVars) /\ ret'.asmpt = FlattenSeq(lists)
      /\ ret' \in StateAsmpt /\ ret'.sv = f
  BY <1>1, <1>2, CopyCall DEF get_curr_state_pushed, all_assumptions
<1>4. /\ InVars \in SUBSET Vars /\ <<>> \in Given(InVars) /\ Unassigned(InVars, <<>>) = InVars
  <2>1. <<>> \in [{} -> Val] /\ {} \in SUBSET InVars
    OBVIOUS
  <2> QED BY <2>1 DEF Given, Vars, Unassigned
<1>5. /\ name_cnt \in [Vars -> 0 .. MaxCnt] /\ syms \subseteq Sym
      /\ \A v \in InVars : FreeCnts(v) # {}
  BY <1>3 DEF CanMint, Simulating, IInv, TypeOK
<1>6. e \in [InVars -> Sym] /\ Own(InVars, e)
  <2>1. \A v \in InVars : e[v] = free_make_symbol(v) /\ v \in Vars
    BY <1>4 DEF Complete
  <2>2. \A v \in InVars : free_make_symbol(v) \in Sym
    BY <1>5, <2>1, MintFresh
  <2>3. e = [v \in InVars |-> free_make_symbol(v)]
    BY DEF Complete
  <2>4. e \in [InVars -> Sym]
    <3> HIDE DEF e, free_make_symbol
    <3> QED BY <2>2, <2>3
  <2>5. Own(InVars, e)
    <3>1. Unassigned(InVars, <<>>) = InVars
      BY <1>4
    <3> QED BY <1>3, <1>4, <3>1, CompleteIsOwn DEF Simulating
  <2> QED BY <2>4, <2>5
<1> DEFINE new == {free_make_symbol(v) : v \in InVars}
<1>7. SymsOf(e) \subseteq new
  BY <1>4, CompleteSyms
<1>8. new \subseteq syms' /\ new \cap syms = {}
  BY <1>3, <1>4, <1>5, NewVarType
<1> HIDE DEF e, new
<1>9. /\ f \in Seq(Assignment) /\ Len(f) = n /\ f[1] = trace[1][1] /\ Formed(f)
      /\ Apart(f, Xvar, syms)
  <2>1. trace # <<>> /\ Len(trace[1]) = 1
    BY DEF Simulating, RootGiven
  <2>2. f \in Seq(Assignment) /\ Len(f) = n /\ f[1] = trace[1][1]
    BY <1>1, <2>1, FramesAre DEF Simulating
  <2>3. Formed(f)
    BY <1>1 DEF Orderly
  <2> QED BY <1>1, <2>1, <2>2, <2>3, LiveLast DEF Simulating
<1>10. e \in Assignment
  BY <1>6 DEF Assignment
<1> HIDE DEF f, n
<1>11. /\ p \in Seq(Assignment) /\ Len(p) = n + 1 /\ p[n + 1] = e /\ p # <<>>
       /\ \A k \in 1 .. n : p[k] = f[k]
  BY <1>9, <1>10, AppendType
<1>12. Clear(p)
  <2>1. Formed(p)
    BY <1>6, <1>9, <1>10, FormedAppend DEF Path
  <2>2. Apart(p, Xvar \cup new, syms \cup new)
    BY <1>7, <1>8, <1>9, ApartAppend DEF Path
  <2>3. p[1][StateVar] \in Nodes
    BY <1>1, <1>9, <1>11 DEF RootGiven
  <2>4. Len(p) > 1
    BY <1>1, <1>11
  <2>5. \A i, j \in 2 .. Len(p) : i # j => SymsOf(p[i]) \cap SymsOf(p[j]) = {}
    <3>1. \A i \in 2 .. Len(p) : i \in 1 .. Len(p)
      BY <1>1, <1>11
    <3> QED BY <2>2, <3>1 DEF Apart
  <2> HIDE DEF p
  <2> QED BY <1>11, <2>1, <2>3, <2>4, <2>5 DEF Clear, Path
<1>13. SubSeq(p, 1, Len(p) - 1) = f
  BY <1>9, <1>10
<1>14. pre \in Seq(Pre) /\ A \in Seq(Assumption)
  <2>1. n - 1 \in Int /\ pre \in Seq(Pre) /\ p \in Path
    BY <1>1, <1>11, PreListType DEF Path
  <2> HIDE DEF p
  <2> QED BY <2>1, AddedType
<1>15. /\ \A i \in 2 .. n : P[i] = ToSet(history_choice[i - 1].assumptions)
       /\ P[n + 1] = ToSet(pre)
  <2>1. \A i \in 2 .. n : i \in 2 .. n + 1 /\ i <= n
    BY <1>1
  <2>2. n + 1 \in 2 .. n + 1 /\ ~ (n + 1 <= n)
    BY <1>1
  <2> QED BY <2>1, <2>2 DEF PlanAt
<1> HIDE DEF P
<1>16. \A i \in 2 .. n + 1 : P[i] \subseteq Pre
  <2>1. ASSUME NEW i \in 2 .. n
        PROVE  P[i] \subseteq Pre
    <3>1. i - 1 \in 1 .. Len(history_choice)
      BY <1>1
    <3>2. history_choice[i - 1] \in ChoiceItem
      BY <1>1, <3>1
    <3>3. history_choice[i - 1].assumptions \in Seq(Pre)
      BY <3>2 DEF ChoiceItem
    <3> QED BY <1>15, <3>3 DEF ToSet
  <2>2. P[n + 1] \subseteq Pre
    BY <1>14, <1>15 DEF ToSet
  <2>3. \A i \in 2 .. n + 1 : i \in 2 .. n \/ i = n + 1
    BY <1>1
  <2> QED BY <2>1, <2>2, <2>3
<1>17. ASSUME NEW k \in 1 .. n - 1
       PROVE  /\ SubSeq(p, 1, k + 1) = Append(trace[k], history_choice[k].var_assign)
              /\ k \in 1 .. Len(history_choice) /\ k <= n
  <2>1. trace[k + 1] = Append(trace[k], history_choice[k].var_assign)
    BY <1>1 DEF Simulating, IInv, Replay, FramesReplayChoices, n
  <2>2. k + 1 \in 1 .. n /\ trace # <<>> /\ Len(trace[1]) = 1
    BY <1>1 DEF Simulating, RootGiven
  <2>3. SubSeq(f, 1, k + 1) = trace[k + 1]
    BY <1>1, <2>2, FramesBelow DEF Simulating, f, n
  <2>4. SubSeq(p, 1, k + 1) = SubSeq(f, 1, k + 1)
    <3>1. p \in Seq(Assignment) /\ k + 1 \in 0 .. Len(f) /\ k + 1 <= Len(p)
          /\ \A j \in 1 .. k + 1 : p[j] = f[j]
      BY <1>1, <1>9, <1>11, <2>2
    <3> HIDE DEF p
    <3> QED BY <1>9, <3>1, SamePrefix
  <2>5. k \in 1 .. Len(history_choice) /\ k <= n
    BY <1>1
  <2> QED BY <2>1, <2>3, <2>4, <2>5
<1>18. SubSeq(p, 1, n + 1) = p
  BY <1>1, <1>11
<1>19. /\ lists \in Seq(Seq(Assumption)) /\ Len(lists) = n /\ lists # <<>>
       /\ \A k \in 1 .. n - 1 : lists[k] = history_assumptions[k]
       /\ lists[n] = history_assumptions[n] \o A
  <2> HIDE DEF A
  <2> QED BY <1>1, <1>14, PushTopType
<1>20. \A a : a \in ToSet(A) <=> \E w \in Asks(pre) : a = [what |-> w, over |-> p]
  <2>1. p \in Path
    BY <1>11 DEF Path
  <2> HIDE DEF p
  <2> QED BY <1>14, <2>1, AddedElements DEF Asks
<1>21. \A a \in ToSet(history_assumptions[n]) : a.what = "init"
  <2>1. CASE n = 1
    <3>1. history_choice = <<>>
      BY <1>1, <2>1
    <3>2. Bottom = history_assumptions[1]
      BY <3>1 DEF Bottom
    <3>3. history_assumptions[1] \in Seq(Assumption)
      BY <1>1, <2>1
    <3> QED BY <2>1, <3>2, <3>3 DEF Simulating, OnlyInit, ToSet
  <2>2. CASE n # 1
    <3>1. n \in 2 .. Len(trace) /\ n > Len(history_choice)
      BY <1>1, <2>2 DEF n
    <3>2. history_assumptions[n] = <<>>
      BY <3>1 DEF Simulating, IInv, Replay, AssumptionsReplayChoices
    <3> QED BY <3>2 DEF ToSet
  <2> QED BY <2>1, <2>2
<1>22. ToSet(lists[n]) = ToSet(history_assumptions[n]) \cup ToSet(A)
  <2>1. history_assumptions[n] \in Seq(Assumption)
    BY <1>1
  <2> HIDE DEF A, lists
  <2> QED BY <1>14, <1>19, <2>1, ConcatElements
<1> HIDE DEF A, lists, p
<1>23. ASSUME NEW a \in ToSet(ret'.asmpt), a.what # "init"
       PROVE  \E i \in 2 .. Len(p) : a.over = SubSeq(p, 1, i) /\ a.what \in AskedOf(P, i)
  <2>1. PICK k \in 1 .. n : a \in ToSet(lists[k])
    BY <1>3, <1>19, FlattenHas
  <2>2. CASE k = n
    <3>1. a \in ToSet(A)
      BY <1>21, <1>22, <1>23, <2>1, <2>2
    <3>2. PICK w \in Asks(pre) : a = [what |-> w, over |-> p]
      BY <1>20, <3>1
    <3>3. a.over = SubSeq(p, 1, n + 1) /\ a.what \in AskedOf(P, n + 1)
      BY <1>15, <1>18, <3>2 DEF AskedOf, Asks
    <3>4. n + 1 \in 2 .. Len(p)
      BY <1>1, <1>11
    <3> QED BY <3>3, <3>4
  <2>3. CASE k # n
    <3>1. k \in 1 .. n - 1 /\ k + 1 \in 2 .. Len(p) /\ k + 1 \in 2 .. n /\ (k + 1) - 1 = k
          /\ k <= Len(trace)
      BY <1>1, <1>11, <2>3 DEF n
    <3>2. a \in ToSet(history_assumptions[k])
      BY <1>19, <2>1, <3>1
    <3>3. a.over = SubSeq(p, 1, k + 1) /\ a.what \in Asks(history_choice[k].assumptions)
      BY <1>17, <1>23, <3>1, <3>2, ListElements
    <3>4. a.what \in AskedOf(P, k + 1)
      BY <1>15, <3>1, <3>3 DEF AskedOf, Asks
    <3> QED BY <3>1, <3>3, <3>4
  <2> QED BY <2>2, <2>3
<1>24. ASSUME NEW i \in 2 .. Len(p), NEW w \in AskedOf(P, i)
       PROVE  [what |-> w, over |-> SubSeq(p, 1, i)] \in ToSet(ret'.asmpt)
  <2> DEFINE k == i - 1
             b == [what |-> w, over |-> SubSeq(p, 1, i)]
  <2>1. k \in 1 .. n /\ k + 1 = i /\ k \in 1 .. Len(lists)
    BY <1>1, <1>11, <1>19
  <2>2. b \in ToSet(lists[k])
    <3>1. CASE k = n
      <4>1. i = n + 1 /\ w \in Asks(pre)
        BY <1>15, <2>1, <3>1 DEF AskedOf, Asks
      <4>2. b = [what |-> w, over |-> p]
        BY <1>18, <4>1
      <4>3. b \in ToSet(A)
        BY <1>20, <4>1, <4>2
      <4> HIDE DEF b, k
      <4> QED BY <1>22, <3>1, <4>3
    <3>2. CASE k # n
      <4>1. k \in 1 .. n - 1 /\ i \in 2 .. n /\ k <= Len(trace)
        BY <1>1, <2>1, <3>2 DEF n
      <4>2. P[i] = ToSet(history_choice[k].assumptions)
        BY <1>15, <4>1
      <4>3. w \in Asks(history_choice[k].assumptions)
        BY <4>2 DEF AskedOf, Asks
      <4>4. SubSeq(p, 1, i) = Append(trace[k], history_choice[k].var_assign)
        BY <1>17, <2>1, <4>1
      <4>5. b \in ToSet(history_assumptions[k])
        <5> HIDE DEF k
        <5> QED BY <1>17, <4>1, <4>3, <4>4, ListElements
      <4> HIDE DEF b
      <4> QED BY <1>19, <4>1, <4>5
    <3> QED BY <3>1, <3>2
  <2>3. ToSet(lists[k]) \subseteq ToSet(ret'.asmpt)
    <3> HIDE DEF k
    <3> QED BY <1>3, <1>19, <2>1, FlattenElements
  <2> HIDE DEF b
  <2> QED BY <2>2, <2>3 DEF b
<1>25. Described(ret', p, P)
  BY <1>3, <1>11, <1>12, <1>13, <1>16, <1>23, <1>24 DEF Described
<1> QED BY <1>6, <1>7, <1>8, <1>25 DEF p, f, n, P
-----------------------------------------------------------------------------
(***************************************************************************)
(* How states whose paths begin alike are related.                         *)
(***************************************************************************)

\* The path q of the formulas Q is no longer than p and asks no more of its cells.
Looser(q, Q, p, P) ==
  /\ Len(q) <= Len(p) /\ q[1] = p[1]
  /\ \A i \in 2 .. Len(q) : /\ Q[i] \subseteq P[i]
                            /\ \A c \in Cell : Fits(p[i], c) => Fits(q[i], c)

\* The way of q that has the first cells and nodes of a way of p.
Begins(d, q, Q, e, h, c, g) ==
  /\ Way(d, q, Q, e, h)
  /\ \A i \in 2 .. Len(q) : e[i] = c[i]
  /\ \A i \in 1 .. Len(q) - 1 : h[i] = g[i]

\* A way of a path leads along a looser one.
LEMMA WayRestricts ==
  ASSUME NEW d, NEW p, Clear(p), NEW q, Clear(q), NEW P, NEW Q, Looser(q, Q, p, P),
         NEW c, NEW g, Way(d, p, P, c, g)
  PROVE  \E e, h : Begins(d, q, Q, e, h, c, g)
<1> DEFINE n == Len(q)
           e == [i \in 2 .. n |-> c[i]]
           h == [i \in 1 .. n - 1 |-> g[i]]
<1>1. n \in Nat /\ n > 1 /\ Len(p) \in Nat /\ n <= Len(p)
  BY ClearFacts DEF Looser
<1> HIDE DEF n
<1>2. /\ \A i \in 2 .. n : i \in 2 .. Len(p) /\ i - 1 \in 1 .. n - 1
      /\ \A i \in 1 .. n - 1 : i \in 1 .. Len(p) - 1
      /\ \A i \in 2 .. n - 1 : i \in 2 .. Len(p) - 1 /\ i \in 2 .. n /\ i - 1 \in 1 .. n - 1
                               /\ i \in 1 .. n - 1
      /\ 1 \in 1 .. n - 1
  BY <1>1
<1>3. /\ \A i \in 2 .. n : e[i] = c[i] /\ c[i] \in Cell
      /\ \A i \in 1 .. n - 1 : h[i] = g[i] /\ g[i] \in Nodes
  BY <1>2 DEF Way
<1>4. e \in [2 .. n -> Cell] /\ h \in [1 .. n - 1 -> Nodes]
  BY <1>3
<1> HIDE DEF e, h
<1>5. h[1] = q[1][StateVar]
  BY <1>2, <1>3 DEF Way, Looser
<1>6. ASSUME NEW i \in 2 .. n - 1
      PROVE  h[i] = d.next[h[i - 1]][e[i]]
  <2>1. g[i] = d.next[g[i - 1]][c[i]]
    BY <1>2 DEF Way
  <2>2. h[i] = g[i] /\ h[i - 1] = g[i - 1] /\ e[i] = c[i]
    BY <1>2, <1>3
  <2> QED BY <2>1, <2>2
<1>7. ASSUME NEW i \in 2 .. n
      PROVE  /\ Fits(q[i], e[i]) /\ e[i] \in d.allowed[h[i - 1]]
             /\ Q[i] \subseteq d.holds[h[i - 1]][e[i]]
  <2>1. /\ Fits(p[i], c[i]) /\ c[i] \in d.allowed[g[i - 1]]
        /\ P[i] \subseteq d.holds[g[i - 1]][c[i]]
    BY <1>2 DEF Way
  <2>2. h[i - 1] = g[i - 1] /\ e[i] = c[i] /\ c[i] \in Cell
    BY <1>2, <1>3
  <2>3. Fits(q[i], c[i]) /\ Q[i] \subseteq P[i]
    BY <2>1, <2>2 DEF n, Looser
  <2> QED BY <2>1, <2>2, <2>3
<1>8. Way(d, q, Q, e, h)
  BY <1>4, <1>5, <1>6, <1>7 DEF Way, n
<1> QED BY <1>3, <1>8 DEF n, Begins

\* Symbols alone fit every cell.
LEMMA SymbolsFit ==
  ASSUME NEW e \in [InVars -> Sym], NEW c
  PROVE  Fits(e, c)
BY DEF Fits

\* Two paths that have the same inputs, or else no symbol in common, are given
\* compatible cells.
Akin(q, p) ==
  \A i \in 2 .. Len(q) :
    q[i] = p[i] \/ \A j \in 2 .. Len(p) : SymsOf(q[i]) \cap SymsOf(p[j]) = {}

LEMMA AkinIsCompatible ==
  ASSUME NEW p, Clear(p), NEW q, Clear(q), Len(q) <= Len(p), Akin(q, p),
         NEW c, NEW e, \A i \in 2 .. Len(q) : e[i] = c[i]
  PROVE  Compatible(p, c, q, e)
<1> SUFFICES ASSUME NEW i \in 2 .. Len(p), NEW j \in 2 .. Len(q), NEW v \in InVars,
                    p[i][v] \in Sym, p[i][v] = q[j][v]
             PROVE  c[i][v] = e[j][v]
  BY DEF Compatible
<1>1. j \in 2 .. Len(p)
  <2>1. Len(p) \in Nat /\ Len(q) \in Nat
    BY ClearFacts
  <2> QED BY <2>1
<1>2. CASE q[j] = p[j]
  <2>1. i = j
    BY <1>1, <1>2, OnePlace
  <2> QED BY <2>1
<1>3. CASE q[j] # p[j]
  <2>1. SymsOf(q[j]) \cap SymsOf(p[i]) = {}
    BY <1>3 DEF Akin
  <2>2. p[i][v] \in SymsOf(q[j]) /\ p[i][v] \in SymsOf(p[i])
    BY DEF Clear, Formed, Own, SymsOf, Range
  <2> QED BY <2>1, <2>2
<1> QED BY <1>2, <1>3

\* What abs_eq tells of two states, the second of which is reachable, if each way
\* of the second can be taken together with one of the first.
LEMMA Compared ==
  ASSUME NEW d, IsDesign(d), NEW r, NEW q, NEW Q, Described(r, q, Q),
         NEW s, NEW p, NEW P, Described(s, p, P), NodesOf(d, s) # {},
         \A c, g : Way(d, p, P, c, g) =>
           \E e, h : Way(d, q, Q, e, h) /\ Compatible(p, c, q, e)
  PROVE  /\ CommonModels(d, r, s) # {}
         /\ abs_eq(d, r, s) => NodesOf(d, s) \subseteq NodesOf(d, r)
<1>1. PICK n \in NodesOf(d, s) : TRUE
  OBVIOUS
<1>2. CommonModels(d, r, s) # {}
  <2>1. PICK c, g : Way(d, p, P, c, g)
    BY <1>1, NodesEndWays
  <2>2. PICK e, h : Way(d, q, Q, e, h) /\ Compatible(p, c, q, e)
    BY <2>1
  <2> QED BY <2>1, <2>2, JointModel
<1>3. ASSUME abs_eq(d, r, s), NEW x \in NodesOf(d, s)
      PROVE  x \in NodesOf(d, r)
  <2>1. PICK c, g : Way(d, p, P, c, g) /\ g[Len(p) - 1] = x
    BY NodesEndWays
  <2>2. PICK e, h : Way(d, q, Q, e, h) /\ Compatible(p, c, q, e)
    BY <2>1
  <2>3. h[Len(q) - 1] = x
    BY <1>3, <2>1, <2>2, JointModel
  <2>4. h[Len(q) - 1] \in NodesOf(d, r)
    BY <2>2, NodesEndWays
  <2> QED BY <2>3, <2>4
<1> QED BY <1>2, <1>3

\* A state is compared with one that its path has passed by.
LEMMA ComparedOnBranch ==
  ASSUME NEW d, IsDesign(d), NEW r, NEW q, NEW Q, Described(r, q, Q),
         NEW s, NEW p, NEW P, Described(s, p, P), NodesOf(d, s) # {},
         Looser(q, Q, p, P), Akin(q, p)
  PROVE  /\ CommonModels(d, r, s) # {}
         /\ abs_eq(d, r, s) => NodesOf(d, s) \subseteq NodesOf(d, r)
<1>1. Clear(p) /\ Clear(q)
  BY DEF Described
<1>2. ASSUME NEW c, NEW g, Way(d, p, P, c, g)
      PROVE  \E e, h : Way(d, q, Q, e, h) /\ Compatible(p, c, q, e)
  <2>1. PICK e, h : Begins(d, q, Q, e, h, c, g)
    BY <1>1, <1>2, WayRestricts
  <2>2. Way(d, q, Q, e, h) /\ Compatible(p, c, q, e)
    BY <1>1, <2>1, AkinIsCompatible DEF Looser, Begins
  <2> QED BY <2>2
<1> QED BY <1>2, Compared

\* A state is compared with one that shares no symbol with it.
LEMMA ComparedApart ==
  ASSUME NEW d, IsDesign(d), NEW r, NEW q, NEW Q, Described(r, q, Q), NodesOf(d, r) # {},
         NEW s, NEW p, NEW P, Described(s, p, P), NodesOf(d, s) # {},
         \A i \in 2 .. Len(q), j \in 2 .. Len(p) : SymsOf(q[i]) \cap SymsOf(p[j]) = {}
  PROVE  /\ CommonModels(d, r, s) # {}
         /\ abs_eq(d, r, s) => NodesOf(d, s) \subseteq NodesOf(d, r)
<1>1. Clear(p) /\ Clear(q)
  BY DEF Described
<1>2. PICK n \in NodesOf(d, r) : TRUE
  OBVIOUS
<1>3. PICK e, h : Way(d, q, Q, e, h)
  BY <1>2, NodesEndWays
<1>4. ASSUME NEW c
      PROVE  Compatible(p, c, q, e)
  <2> SUFFICES ASSUME NEW i \in 2 .. Len(p), NEW j \in 2 .. Len(q), NEW v \in InVars,
                      p[i][v] \in Sym, p[i][v] = q[j][v]
               PROVE  FALSE
    BY DEF Compatible
  <2>1. p[i][v] \in SymsOf(q[j]) /\ p[i][v] \in SymsOf(p[i])
    BY <1>1 DEF Clear, Formed, Own, SymsOf, Range
  <2> QED BY <2>1
<1> QED BY <1>3, <1>4, Compared

\* States with paths of one form stand for the same nodes.
LEMMA SameForm ==
  ASSUME NEW d, IsDesign(d), NEW r, NEW q, NEW Q, Described(r, q, Q),
         NEW s, NEW p, NEW P, Described(s, p, P),
         Looser(q, Q, p, P), Looser(p, P, q, Q)
  PROVE  /\ NodesOf(d, r) = NodesOf(d, s)
         /\ Steady(d, q, Q) => Steady(d, p, P)
<1>1. Clear(p) /\ Clear(q) /\ Len(p) \in Nat /\ Len(p) > 1
  BY ClearFacts DEF Described
<1>2. Len(p) - 1 \in 1 .. Len(p) - 1 /\ Len(q) = Len(p)
  <2>1. Len(q) \in Nat /\ Len(q) <= Len(p) /\ Len(p) <= Len(q)
    BY <1>1, ClearFacts DEF Looser
  <2> QED BY <1>1, <2>1
<1>3. ASSUME NEW c, NEW g, Way(d, p, P, c, g)
      PROVE  \E e, h : /\ Way(d, q, Q, e, h) /\ h[Len(q) - 1] = g[Len(p) - 1]
                       /\ \A i \in 2 .. Len(q) : e[i] = c[i]
  <2>1. PICK e, h : Begins(d, q, Q, e, h, c, g)
    BY <1>1, <1>3, WayRestricts
  <2> QED BY <1>2, <2>1 DEF Begins
<1>4. ASSUME NEW e, NEW h, Way(d, q, Q, e, h)
      PROVE  \E c, g : Way(d, p, P, c, g) /\ g[Len(p) - 1] = h[Len(q) - 1]
  <2>1. PICK c, g : Begins(d, p, P, c, g, e, h)
    BY <1>1, <1>4, WayRestricts
  <2> QED BY <1>2, <2>1 DEF Begins
<1>5. NodesOf(d, s) \subseteq NodesOf(d, r)
  <2> SUFFICES ASSUME NEW x \in NodesOf(d, s)
               PROVE  x \in NodesOf(d, r)
    OBVIOUS
  <2>1. PICK c, g : Way(d, p, P, c, g) /\ g[Len(p) - 1] = x
    BY NodesEndWays
  <2>2. PICK e, h : Way(d, q, Q, e, h) /\ h[Len(q) - 1] = g[Len(p) - 1]
    BY <1>3, <2>1
  <2>3. h[Len(q) - 1] \in NodesOf(d, r)
    BY <2>2, NodesEndWays
  <2> QED BY <2>1, <2>2, <2>3
<1>6. NodesOf(d, r) \subseteq NodesOf(d, s)
  <2> SUFFICES ASSUME NEW x \in NodesOf(d, r)
               PROVE  x \in NodesOf(d, s)
    OBVIOUS
  <2>1. PICK e, h : Way(d, q, Q, e, h) /\ h[Len(q) - 1] = x
    BY NodesEndWays
  <2>2. PICK c, g : Way(d, p, P, c, g) /\ g[Len(p) - 1] = h[Len(q) - 1]
    BY <1>4, <2>1
  <2>3. g[Len(p) - 1] \in NodesOf(d, s)
    BY <2>2, NodesEndWays
  <2> QED BY <2>1, <2>2, <2>3
<1>7. ASSUME Steady(d, q, Q),
             NEW c, NEW g, NEW c2, NEW g2, Way(d, p, P, c, g), Way(d, p, P, c2, g2),
             OneInputApart(p, c, c2)
      PROVE  g[Len(p) - 1] = g2[Len(p) - 1]
  <2>1. PICK e, h : /\ Way(d, q, Q, e, h) /\ h[Len(q) - 1] = g[Len(p) - 1]
                    /\ \A i \in 2 .. Len(q) : e[i] = c[i]
    BY <1>3, <1>7
  <2>2. PICK e2, h2 : /\ Way(d, q, Q, e2, h2) /\ h2[Len(q) - 1] = g2[Len(p) - 1]
                      /\ \A i \in 2 .. Len(q) : e2[i] = c2[i]
    BY <1>3, <1>7
  <2>3. PICK j \in 2 .. Len(p), u \in InVars : \A i \in 2 .. Len(p), v \in InVars :
          i # j \/ v # u => c[i][v] = c2[i][v]
    BY <1>7 DEF OneInputApart
  <2>4. OneInputApart(q, e, e2)
    <3>1. \A i \in 2 .. Len(q), v \in InVars : i # j \/ v # u => e[i][v] = e2[i][v]
      BY <1>2, <2>1, <2>2, <2>3
    <3>2. j \in 2 .. Len(q)
      BY <1>2
    <3> QED BY <3>1, <3>2 DEF OneInputApart
  <2> QED BY <1>7, <2>1, <2>2, <2>4 DEF Steady
<1>8. Steady(d, q, Q) => Steady(d, p, P)
  BY <1>7 DEF Steady
<1> QED BY <1>5, <1>6, <1>8

\* p goes on where q stops: instead of the last input of q it has the input of a
\* choice, and one more that is free.
GoesOn(q, Q, p, P) ==
  /\ Len(p) = Len(q) + 1 /\ p[1] = q[1]
  /\ \A i \in 2 .. Len(q) - 1 : p[i] = q[i] /\ P[i] = Q[i]
  /\ p[Len(p)] \in [InVars -> Sym] /\ P[Len(p)] = {}

\* A node of the first state leads to one of the second by each cell that fits the
\* choice, if a cell is allowed there.
LEMMA ChoiceLeadsOn ==
  ASSUME NEW d, IsDesign(d), NEW r, NEW q, NEW Q, Described(r, q, Q),
         NEW s, NEW p, NEW P, Described(s, p, P), GoesOn(q, Q, p, P),
         NEW x \in NodesOf(d, r), NEW a \in d.allowed[x], Fits(p[Len(q)], a),
         P[Len(q)] \subseteq d.holds[x][a], d.allowed[d.next[x][a]] # {}
  PROVE  d.next[x][a] \in NodesOf(d, s)
<1> DEFINE n == Len(q)
           y == d.next[x][a]
<1>1. Clear(p) /\ Clear(q) /\ n \in Nat /\ n > 1 /\ Len(p) = n + 1
  BY ClearFacts DEF Described, GoesOn
<1>2. PICK e, h : Way(d, q, Q, e, h) /\ h[n - 1] = x
  BY NodesEndWays
<1>3. x \in Nodes /\ a \in Cell /\ y \in Nodes
  <2>1. x \in Nodes
    <3>1. n - 1 \in 1 .. n - 1
      BY <1>1
    <3>2. h \in [1 .. n - 1 -> Nodes]
      BY <1>2 DEF Way
    <3> QED BY <1>2, <3>1, <3>2
  <2>2. d.allowed \in [Nodes -> SUBSET Cell] /\ d.next \in [Nodes -> [Cell -> Nodes]]
    BY DEF IsDesign
  <2> QED BY <2>1, <2>2
<1>4. PICK b \in d.allowed[y] : b \in Cell
  BY <1>3 DEF IsDesign
<1> HIDE DEF n
<1> DEFINE c == [i \in 2 .. n + 1 |-> IF i = n THEN a ELSE IF i = n + 1 THEN b ELSE e[i]]
           g == [i \in 1 .. n |-> IF i = n THEN y ELSE h[i]]
<1>5. /\ \A i \in 2 .. n - 1 : e[i] \in Cell /\ i \in 2 .. n /\ i # n /\ i # n + 1 /\ i \in 1 .. n
                               /\ i \in 2 .. n + 1
      /\ \A i \in 1 .. n - 1 : h[i] \in Nodes /\ i # n /\ i \in 1 .. n
  <2>1. e \in [2 .. n -> Cell] /\ h \in [1 .. n - 1 -> Nodes]
    BY <1>2 DEF Way, n
  <2>2. \A i \in 2 .. n - 1 : i \in 2 .. n /\ i # n /\ i # n + 1 /\ i \in 1 .. n /\ i \in 2 .. n + 1
    BY <1>1
  <2>3. \A i \in 1 .. n - 1 : i # n /\ i \in 1 .. n
    BY <1>1
  <2> QED BY <2>1, <2>2, <2>3
<1>6. /\ c \in [2 .. n + 1 -> Cell] /\ g \in [1 .. n -> Nodes]
      /\ c[n] = a /\ c[n + 1] = b /\ \A i \in 2 .. n - 1 : c[i] = e[i]
      /\ g[n] = y /\ \A i \in 1 .. n - 1 : g[i] = h[i]
  <2>1. \A i \in 2 .. n + 1 : i = n \/ i = n + 1 \/ i \in 2 .. n - 1
    BY <1>1
  <2>2. \A i \in 1 .. n : i = n \/ i \in 1 .. n - 1
    BY <1>1
  <2>3. n \in 2 .. n + 1 /\ n + 1 \in 2 .. n + 1 /\ n + 1 # n /\ n \in 1 .. n
    BY <1>1
  <2>4. c \in [2 .. n + 1 -> Cell]
    BY <1>3, <1>4, <1>5, <2>1
  <2>5. g \in [1 .. n -> Nodes]
    BY <1>3, <1>5, <2>2
  <2> HIDE DEF y
  <2> QED BY <1>5, <2>3, <2>4, <2>5
<1> HIDE DEF c, g
<1>7. g[1] = p[1][StateVar]
  <2>1. h[1] = q[1][StateVar] /\ p[1] = q[1] /\ 1 \in 1 .. n - 1
    BY <1>1, <1>2 DEF Way, GoesOn
  <2> QED BY <1>6, <2>1
<1>8. ASSUME NEW i \in 2 .. n
      PROVE  g[i] = d.next[g[i - 1]][c[i]]
  <2>1. CASE i = n
    <3>1. n - 1 \in 1 .. n - 1 /\ h[n - 1] = x
      BY <1>1, <1>2 DEF n
    <3> HIDE DEF y
    <3> QED BY <1>6, <2>1, <3>1 DEF y
  <2>2. CASE i # n
    <3>1. i \in 2 .. n - 1 /\ i \in 1 .. n - 1 /\ i - 1 \in 1 .. n - 1
      BY <1>1, <2>2
    <3>2. h[i] = d.next[h[i - 1]][e[i]]
      BY <1>2, <3>1 DEF Way, n
    <3> QED BY <1>6, <3>1, <3>2
  <2> QED BY <2>1, <2>2
<1>9. ASSUME NEW i \in 2 .. n + 1
      PROVE  /\ Fits(p[i], c[i]) /\ c[i] \in d.allowed[g[i - 1]]
             /\ P[i] \subseteq d.holds[g[i - 1]][c[i]]
  <2>1. CASE i = n
    <3>1. n - 1 \in 1 .. n - 1 /\ h[n - 1] = x
      BY <1>1, <1>2 DEF n
    <3> QED BY <1>6, <2>1, <3>1 DEF n
  <2>2. CASE i = n + 1
    <3>1. i - 1 = n /\ Fits(p[i], b) /\ P[i] = {}
      BY <1>1, <2>2, SymbolsFit DEF GoesOn
    <3> HIDE DEF y
    <3> QED BY <1>4, <1>6, <2>2, <3>1
  <2>3. CASE i # n /\ i # n + 1
    <3>1. i \in 2 .. n - 1 /\ i \in 2 .. n /\ i - 1 \in 1 .. n - 1
      BY <1>1, <2>3
    <3>2. /\ Fits(q[i], e[i]) /\ e[i] \in d.allowed[h[i - 1]]
          /\ Q[i] \subseteq d.holds[h[i - 1]][e[i]]
      BY <1>2, <3>1 DEF Way, n
    <3>3. p[i] = q[i] /\ P[i] = Q[i]
      BY <3>1 DEF GoesOn, n
    <3> QED BY <1>6, <3>1, <3>2, <3>3
  <2> QED BY <2>1, <2>2, <2>3
<1>10. Way(d, p, P, c, g)
  <2>1. Len(p) - 1 = n
    BY <1>1
  <2> QED BY <1>1, <1>6, <1>7, <1>8, <1>9, <2>1 DEF Way
<1>11. g[Len(p) - 1] \in NodesOf(d, s)
  BY <1>10, NodesEndWays
<1>12. Len(p) - 1 = n
  BY <1>1
<1> QED BY <1>6, <1>11, <1>12

\* Where a single input decides where the second state is, but not where the first
\* is, two cells that fit the choice lead to different nodes.
LEMMA ChoiceLeavesOpen ==
  ASSUME NEW d, IsDesign(d), NEW r, NEW q, NEW Q, Described(r, q, Q), Steady(d, q, Q),
         NEW s, NEW p, NEW P, Described(s, p, P), ~ Steady(d, p, P),
         Len(p) = Len(q) + 1, Looser(q, Q, p, P)
  PROVE  \E x \in NodesOf(d, r) : \E a, b \in d.allowed[x] :
           /\ Fits(p[Len(q)], a) /\ P[Len(q)] \subseteq d.holds[x][a]
           /\ Fits(p[Len(q)], b) /\ P[Len(q)] \subseteq d.holds[x][b]
           /\ d.next[x][a] # d.next[x][b]
<1> DEFINE n == Len(q)
<1>1. Clear(p) /\ Clear(q) /\ n \in Nat /\ n > 1 /\ Len(p) = n + 1 /\ Len(p) - 1 = n
  <2>1. Clear(p) /\ Clear(q)
    BY DEF Described
  <2>2. n \in Nat /\ n > 1
    BY <2>1, ClearFacts
  <2> QED BY <2>1, <2>2
<1>2. PICK c, g, c2, g2 : /\ Way(d, p, P, c, g) /\ Way(d, p, P, c2, g2)
                          /\ OneInputApart(p, c, c2) /\ g[n] # g2[n]
  BY <1>1 DEF Steady
<1>3. PICK e, h : Begins(d, q, Q, e, h, c, g)
  BY <1>1, <1>2, WayRestricts
<1>4. PICK e2, h2 : Begins(d, q, Q, e2, h2, c2, g2)
  BY <1>1, <1>2, WayRestricts
<1>5. OneInputApart(q, e, e2)
  <2>1. PICK j \in 2 .. Len(p), u \in InVars : \A i \in 2 .. Len(p), v \in InVars :
          i # j \/ v # u => c[i][v] = c2[i][v]
    BY <1>2 DEF OneInputApart
  <2>2. \A i \in 2 .. n : i \in 2 .. Len(p) /\ e[i] = c[i] /\ e2[i] = c2[i]
    BY <1>1, <1>3, <1>4 DEF Begins
  <2>3. PICK k \in 2 .. n : j \in 2 .. n => k = j
    <3>1. 2 \in 2 .. n
      BY <1>1
    <3> QED BY <3>1
  <2>4. ASSUME NEW i \in 2 .. n, NEW v \in InVars, i # k \/ v # u
        PROVE  e[i][v] = e2[i][v]
    <3>1. i # j \/ v # u
      BY <2>3, <2>4
    <3> QED BY <2>1, <2>2, <3>1
  <2> QED BY <2>4 DEF OneInputApart
<1>6. h[n - 1] = h2[n - 1] /\ n - 1 \in 1 .. n - 1 /\ n \in 2 .. n /\ n \in 2 .. Len(p) - 1
      /\ n \in 2 .. Len(p)
  BY <1>1, <1>3, <1>4, <1>5 DEF Steady, Begins
<1> DEFINE x == h[n - 1]
<1>7. x \in NodesOf(d, r) /\ g[n - 1] = x /\ g2[n - 1] = x
  <2>1. x \in NodesOf(d, r)
    BY <1>3, NodesEndWays DEF Begins
  <2> QED BY <1>3, <1>4, <1>6, <2>1 DEF Begins
<1>8. g[n] = d.next[g[n - 1]][c[n]] /\ g2[n] = d.next[g2[n - 1]][c2[n]]
  BY <1>2, <1>6 DEF Way
<1>9. /\ Fits(p[n], c[n]) /\ c[n] \in d.allowed[g[n - 1]] /\ P[n] \subseteq d.holds[g[n - 1]][c[n]]
      /\ Fits(p[n], c2[n]) /\ c2[n] \in d.allowed[g2[n - 1]]
      /\ P[n] \subseteq d.holds[g2[n - 1]][c2[n]]
  BY <1>2, <1>6 DEF Way
<1> HIDE DEF n, x
<1> QED BY <1>2, <1>7, <1>8, <1>9 DEF n
=============================================================================

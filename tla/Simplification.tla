--------------------------- MODULE Simplification ---------------------------
(***************************************************************************)
(* What the traversals do with a recorded state in the end: get rid of the *)
(* X symbols in the values of its state variables.  state_simplify_xvar    *)
(* replaces X symbols and conditions that the path constraints fix;        *)
(* sygus_simplify asks cvc5 for a term without X, for the whole value and, *)
(* where there is no answer, for its parts.                                *)
(*                                                                         *)
(* All terms are Boolean: [op, name, args].  The path constraints are the  *)
(* set of the valuations that satisfy them.                                *)
(***************************************************************************)
EXTENDS Integers, Sequences, FiniteSets, SequencesExt

CONSTANTS
  Vars,        \* the state variables
  Xs,          \* set_of_xvar
  Others,      \* the other symbols
  States       \* [value : [Vars -> terms], allowed : sets of valuations]

ASSUME SymbolsAreDistinct == Xs \cap Others = {}

VARIABLES
  state,     \* the recorded state, whose values are updated in place
  recorded,  \* the state as it was recorded
  todo,      \* the state variables that sygus_simplify has not come to
  answers,   \* cvc5 finds a term without X in time whenever there is one
  pc

spvars == <<state, recorded, todo, answers, pc>>

Symbols == Xs \cup Others
Valuations == [Symbols -> BOOLEAN]

Leaf(op, name) == [op |-> op, name |-> name, args |-> <<>>]
Sym(s) == Leaf("sym", s)
T == Leaf("true", "")
F == Leaf("false", "")

RECURSIVE Eval(_, _)
Eval(t, v) ==
  CASE t.op = "sym" -> v[t.name]
    [] t.op = "true" -> TRUE
    [] t.op = "false" -> FALSE
    [] t.op = "not" -> ~Eval(t.args[1], v)
    [] t.op = "and" -> Eval(t.args[1], v) /\ Eval(t.args[2], v)
    [] t.op = "eq" -> Eval(t.args[1], v) = Eval(t.args[2], v)
    [] t.op = "ult" -> ~Eval(t.args[1], v) /\ Eval(t.args[2], v)
    [] t.op = "ite" -> IF Eval(t.args[1], v) THEN Eval(t.args[2], v) ELSE Eval(t.args[3], v)
    [] t.op = "fun" -> v \in t.name

RECURSIVE FreeSymbols(_)
FreeSymbols(t) ==
  IF t.op = "sym" THEN {t.name}
  ELSE UNION {FreeSymbols(t.args[i]) : i \in DOMAIN t.args}

\* make_term of the solver, which folds constants.
make_term(op, args) ==
  CASE op = "ite" /\ args[1] = T -> args[2]
    [] op = "ite" /\ args[1] = F -> args[3]
    [] op = "and" /\ F \in ToSet(args) -> F
    [] op = "not" /\ args[1] = T -> F
    [] op = "not" /\ args[1] = F -> T
    [] OTHER -> [op |-> op, name |-> "", args |-> args]

RECURSIVE Substitute(_, _)
Substitute(t, m) ==
  IF t \in DOMAIN m THEN m[t]
  ELSE IF t.args = <<>> THEN t
  ELSE make_term(t.op, [i \in DOMAIN t.args |-> Substitute(t.args[i], m)])
-----------------------------------------------------------------------------
expr_contains_X(t) == FreeSymbols(t) \cap Xs # {}

\* Whether t may be b under the path constraints.
MayBe(t, b, allowed) == \E v \in allowed : Eval(t, v) = b

\* Slip: the two answers are mixed up.
MixedUp(t, allowed) ==
  IF ~MayBe(t, TRUE, allowed) THEN 1 ELSE IF ~MayBe(t, FALSE, allowed) THEN 0 ELSE 2

is_reducible_bool(t, allowed) ==
  IF ~MayBe(t, TRUE, allowed) THEN 0 ELSE IF ~MayBe(t, FALSE, allowed) THEN 1 ELSE 2

Constant(r) == IF r = 1 THEN T ELSE F

get_xvar_sub(free, allowed) ==
  LET reducible == {x \in Xs \cap free : is_reducible_bool(Sym(x), allowed) # 2}
  IN [t \in {Sym(x) : x \in reducible} |-> Constant(is_reducible_bool(t, allowed))]

\* expr_simplify_ite: a queue of nodes and the conditions found to be constant;
\* the branches of a condition that was found before are not looked at.
RECURSIVE Conditions(_, _, _)
Conditions(que, found, allowed) ==
  IF que = <<>> THEN found
  ELSE LET node == Head(que)
           r == is_reducible_bool(node.args[1], allowed)
       IN IF node.op # "ite" THEN Conditions(Tail(que) \o node.args, found, allowed)
          ELSE IF node.args[1] \in found THEN Conditions(Tail(que), found, allowed)
          ELSE IF r = 2 THEN Conditions(Tail(que) \o node.args, found, allowed)
          ELSE Conditions(Append(Tail(que), node.args[3 - r]),
                          found \cup {node.args[1]}, allowed)

expr_simplify_ite(t, allowed) ==
  Substitute(t, [c \in Conditions(<<t>>, {}, allowed) |->
                   Constant(is_reducible_bool(c, allowed))])

state_simplify_xvar ==
  LET free == UNION {FreeSymbols(state.value[s]) : s \in Vars}
      sub == get_xvar_sub(free, state.allowed)
  IN /\ pc = "recorded"
     /\ pc' = "reduced"
     /\ state' = [state EXCEPT !.value = [s \in Vars |->
          expr_simplify_ite(Substitute(state.value[s], sub), state.allowed)]]
     /\ todo' = Vars
     /\ UNCHANGED <<recorded, answers>>
-----------------------------------------------------------------------------
\* Slip: FunNew has no parameters.
NoParameters(t) == {}

\* FunNew takes the other symbols of the term; those that only the path
\* constraints mention are not among them.
Parameters(t) == FreeSymbols(t) \cap Others

\* The answer of cvc5: a term over the parameters that equals t whenever the path
\* constraints hold, if there is one.
Agree(v, w, params) == \A s \in params : v[s] = w[s]

HasAnswer(t, allowed) ==
  \A v, w \in allowed : Agree(v, w, Parameters(t)) => Eval(t, v) = Eval(t, w)

Answer(t, allowed) ==
  [op |-> "fun", args |-> [i \in 1 .. Cardinality(Parameters(t)) |->
                             Sym(SetToSeq(Parameters(t))[i])],
   name |-> {w \in Valuations :
               \E v \in allowed : Agree(v, w, Parameters(t)) /\ Eval(t, v)}]

NoFile == Leaf("no_file", "")
Thrown == Leaf("thrown", "")

run_sygus(t, allowed) ==
  (IF HasAnswer(t, allowed) THEN {Answer(t, allowed)} ELSE {})
    \cup (IF answers /\ HasAnswer(t, allowed) THEN {} ELSE {NoFile})

Handled == {"ite", "not", "and", "eq"}

Rebuilt(t, kids) ==
  IF Thrown \in ToSet(kids) \/ t.op \notin Handled THEN Thrown
  ELSE make_term(t.op, kids)

\* The terms that structure_simplify and child_vec_simplify may return.
RECURSIVE structure_simplify(_, _)
structure_simplify(t, allowed) ==
  LET kid(i) == IF expr_contains_X(t.args[i])
                  THEN structure_simplify(t.args[i], allowed) ELSE {t.args[i]}
      all == UNION {kid(i) : i \in DOMAIN t.args}
      kids == {k \in [DOMAIN t.args -> all] : \A i \in DOMAIN t.args : k[i] \in kid(i)}
      direct == run_sygus(t, allowed)
  IN (direct \ {NoFile})
       \cup (IF NoFile \in direct THEN {Rebuilt(t, k) : k \in kids} ELSE {})

sygus_simplify ==
  /\ pc = "reduced" /\ todo # {}
  /\ \E s \in todo :
       /\ todo' = todo \ {s}
       /\ \/ /\ ~expr_contains_X(state.value[s])
             /\ UNCHANGED <<state, pc>>
          \/ /\ expr_contains_X(state.value[s])
             /\ \E t \in structure_simplify(state.value[s], state.allowed) :
                  IF t = Thrown
                    THEN pc' = "thrown" /\ UNCHANGED state
                    ELSE state' = [state EXCEPT !.value[s] = t] /\ UNCHANGED pc
  /\ UNCHANGED <<recorded, answers>>

\* The assertion of the traversals that no X is left.
Finish ==
  /\ pc = "reduced" /\ todo = {}
  /\ pc' = IF \E s \in Vars : expr_contains_X(state.value[s]) THEN "failed" ELSE "done"
  /\ UNCHANGED <<state, recorded, todo, answers>>

\* check_concrete_enough: for each X alone, the value of no two valuations that
\* satisfy the constraints and differ only in that X is different.
ConcreteEnough(st) ==
  \A s \in Vars : \A x \in FreeSymbols(st.value[s]) \cap Xs : \A v, w \in st.allowed :
     (\A y \in Symbols \ {x} : v[y] = w[y]) => Eval(st.value[s], v) = Eval(st.value[s], w)

Init ==
  /\ recorded \in {st \in States : st.allowed # {} /\ ConcreteEnough(st)}
  /\ state = recorded
  /\ todo = {} /\ pc = "recorded"
  /\ answers \in BOOLEAN

Next == state_simplify_xvar \/ sygus_simplify \/ Finish

Spec == Init /\ [][Next]_spvars
-----------------------------------------------------------------------------
SimTypeOK ==
  /\ pc \in {"recorded", "reduced", "thrown", "failed", "done"}
  /\ todo \subseteq Vars /\ answers \in BOOLEAN
  /\ DOMAIN state.value = Vars /\ state.allowed \subseteq Valuations

\* Under its path constraints a recorded state keeps its meaning through every
\* step of the simplification, also when it breaks off in the middle: X symbols
\* and conditions are replaced all at once, by what the constraints make of each.
MeaningKept ==
  /\ SimTypeOK
  /\ \A s \in Vars, v \in recorded.allowed :
     Eval(state.value[s], v) = Eval(recorded.value[s], v)

\* The assertion of the traversals: a simplification that ends leaves no X.
AssertionHolds == pc # "failed"

\* The path constraints do not tie the X together, or to other symbols: there
\* are values that the X of every model can be given one after the other.
Untied(allowed) ==
  \E g \in [Xs -> BOOLEAN] : \A v \in allowed, x \in Xs :
    [v EXCEPT ![x] = g[x]] \in allowed

\* The X symbols of a recorded state are independent one by one
\* (check_concrete_enough).  Where the path constraints leave them untied they
\* are independent together: cvc5 has an answer, and the simplification does
\* not throw out of a traversal that has found all states.  Tied X symbols may
\* make it throw.
RecordedStatesSimplify ==
  /\ AssertionHolds
  /\ answers /\ Untied(recorded.allowed) => pc # "thrown"
=============================================================================

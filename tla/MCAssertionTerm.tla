-------------------------- MODULE MCAssertionTerm --------------------------
(***************************************************************************)
(* Small assertions: a comparison of two expressions of depth two, over    *)
(* variables of different widths.                                          *)
(***************************************************************************)
EXTENDS AssertionTerm

\* d is wider than the operands added up into it, c is one bit.
MCVarWidth == [a |-> 2, b |-> 2, c |-> 1, d |-> 3]
MCNativeWidth == 3

Num(k) == [op |-> "MK_CONST", base |-> 0, width |-> MCNativeWidth, value |-> k]
Var(v) == [op |-> "AT", args |-> <<[op |-> "MK_VAR", name |-> v], Num(0)>>]
Sized(w, k) == [op |-> "MK_CONST", base |-> 2, width |-> w, value |-> k]
Node(op, args) == [op |-> op, args |-> args]

Leaf == {Var(v) : v \in DOMAIN MCVarWidth} \cup {Sized(2, 3)}

Binary == {Node(op, <<x, y>>) :
             op \in Arithmetic \cup Bitwise \cup Relational \cup {"CONCAT"},
             x \in {Var("a"), Var("c"), Num(2)}, y \in {Var("b"), Sized(2, 3)}}

Other ==
  {Node("B_NEG", <<Var("a")>>), Node("L_NEG", <<Var("c")>>),
   Node("L_NEG", <<Var("a")>>), Node("B_OR", <<Var("a")>>),
   Node("INDEX", <<Var("a"), Num(1)>>), Node("INDEX", <<Var("c"), Num(1)>>),
   Node("RANGE_INDEX", <<Var("d"), Num(2), Num(1)>>),
   Node("IDX_PRT_SEL_PLUS", <<Var("d"), Num(1), Num(2)>>),
   Node("IDX_PRT_SEL_MINUS", <<Var("d"), Num(1), Num(2)>>),
   Node("TERNARY", <<Var("c"), Var("a"), Var("b")>>),
   Node("TERNARY", <<Var("c"), Var("a"), Var("d")>>),
   Node("MOD", <<Var("d"), Sized(3, 5)>>), Node("DIV", <<Var("d"), Var("a")>>)}
  \cup {Node(op, <<x, y>>) : op \in Shifts, x \in {Var("a"), Var("d")},
                             y \in {Var("b"), Num(1)}}

Inner == Leaf \cup Binary \cup Other

\* A comparison with a variable, one of a sum of an expression and a variable,
\* and a conjunction of comparisons.
MCAsts ==
  {Node(op, <<Var("d"), e>>) : op \in {"L_EQ", "LT"}, e \in Inner}
  \cup {Node("L_EQ", <<Var("a"), e>>) : e \in Other}
  \cup {Node("L_EQ", <<Var("d"), Node(op, <<e, Var("a")>>)>>) :
          op \in {"PLUS", "B_AND"}, e \in Inner}
  \cup {Node(op, <<Node("GTE", <<Var("d"), e>>), Node("L_NEQ", <<e, Var("c")>>)>>) :
          op \in {"L_AND", "L_OR"}, e \in Leaf \cup Other}
=============================================================================

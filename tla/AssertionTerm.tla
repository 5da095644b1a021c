--------------------------- MODULE AssertionTerm ---------------------------
(***************************************************************************)
(* How a timed assertion becomes an SMT term (make_assertion_term): the    *)
(* Verilog parser's tree is walked three times.  set_node_width computes   *)
(* the width of each node bottom-up, update_target_width the width its     *)
(* parent wants top-down, and ast2term builds the term, zero-extending a   *)
(* node whose parent wants more bits than the node has.                    *)
(*                                                                         *)
(* A term is represented by its meaning: for each valuation of the         *)
(* variables a width and a value, or NoTerm where the solver refuses to    *)
(* build it.  The operators of the tree keep the parser's names.           *)
(***************************************************************************)
EXTENDS Integers, Sequences, FiniteSets, FiniteSetsExt, SequencesExt

CONSTANTS
  Asts,        \* trees the parser may return
  VarWidth,    \* for each variable of the design, its width
  NativeWidth  \* width of a constant written without a base (32)

ASSUME WidthsArePositive ==
  NativeWidth \in Nat \ {0} /\ \A v \in DOMAIN VarWidth : VarWidth[v] \in Nat \ {0}

VARIABLES
  ast,     \* the tree of the assertion
  width,   \* set_node_width of each node, addressed by its path
  target,  \* set_target_width of each node
  term,    \* for each valuation, the meaning of the term
  phase    \* the last pass done

atvars == <<ast, width, target, term, phase>>

Arithmetic == {"PLUS", "MINUS", "STAR", "DIV", "MOD"}
Relational == {"L_EQ", "L_NEQ", "GTE", "LTE", "GT", "LT"}
Logical    == {"L_AND", "L_OR", "L_NEG"}
Bitwise    == {"B_AND", "B_OR", "B_XOR"}
Shifts     == {"LSL", "LSR"}
Selects    == {"INDEX", "RANGE_INDEX", "IDX_PRT_SEL_PLUS", "IDX_PRT_SEL_MINUS"}
Leaves     == {"MK_VAR", "MK_CONST"}

-----------------------------------------------------------------------------
(***************************************************************************)
(* The nodes of a tree are addressed by the indices on the way down.       *)
(***************************************************************************)
Args(n) == IF n.op \in Leaves THEN <<>> ELSE n.args

RECURSIVE Paths(_)
Paths(n) ==
  {<<>>} \cup UNION {{<<i>> \o p : p \in Paths(Args(n)[i])} : i \in DOMAIN Args(n)}

RECURSIVE At(_, _)
At(n, path) == IF path = <<>> THEN n ELSE At(Args(n)[Head(path)], Tail(path))

MaxOf(f, S) == Max({f[i] : i \in S})

-----------------------------------------------------------------------------
(***************************************************************************)
(* set_node_width: the width of a node n, w being those of its children.   *)
(***************************************************************************)
LeafWidth(n) == IF n.op = "MK_VAR" THEN VarWidth[n.name] ELSE n.width

SelectWidth(n, w) ==
  CASE n.op = "INDEX"       -> 1
    [] n.op = "RANGE_INDEX" -> n.args[2].value - n.args[3].value + 1
    [] n.op \in {"IDX_PRT_SEL_PLUS", "IDX_PRT_SEL_MINUS"} -> n.args[3].value
    [] n.op = "AT"          -> w[1]
    [] n.op = "TERNARY"     -> w[2]
    [] n.op = "CONCAT"      -> w[1] + w[2]

WidthOf(n, w) ==
  CASE n.op \in Leaves                       -> LeafWidth(n)
    [] n.op \in Arithmetic \cup Bitwise      -> MaxOf(w, DOMAIN w)
    [] n.op \in Relational \cup Logical      -> 1
    [] n.op \in Shifts \cup {"B_NEG"}        -> w[1]
    [] OTHER                                 -> SelectWidth(n, w)

RECURSIVE NodeWidth(_)
NodeWidth(n) ==
  WidthOf(n, [i \in DOMAIN Args(n) |-> NodeWidth(Args(n)[i])])

-----------------------------------------------------------------------------
(***************************************************************************)
(* update_target_width: the width a node n with target t gives child i.    *)
(* Operators that are not named leave the child's own width.               *)
(***************************************************************************)
\* Slip: the operands of a comparison keep their widths.
ComparesUnequal(n, t, w, i) ==
  CASE n.op \in Arithmetic -> t
    [] n.op \in Bitwise    -> MaxOf(w, DOMAIN w)
    [] OTHER               -> w[i]

ChildTarget(n, t, w, i) ==
  CASE n.op \in Arithmetic           -> t
    [] n.op \in Relational \cup Bitwise -> MaxOf(w, DOMAIN w)
    [] OTHER                         -> w[i]

RECURSIVE TargetAt(_, _)
TargetAt(root, path) ==
  IF path = <<>> THEN NodeWidth(root)
  ELSE LET parent == At(root, Front(path))
       IN ChildTarget(parent, TargetAt(root, Front(path)),
                      [i \in DOMAIN Args(parent) |-> NodeWidth(Args(parent)[i])],
                      Last(path))

-----------------------------------------------------------------------------
(***************************************************************************)
(* The solver's bit-vector operators.  A one-bit vector is a Boolean, as   *)
(* in the Boolector solver the checker is used with.                       *)
(***************************************************************************)
NoTerm == [width |-> 0, value |-> 0]
Bits(w, v) == [width |-> w, value |-> v % 2^w]
Truth(b) == Bits(1, IF b THEN 1 ELSE 0)

Zero_Extend(by, x) == IF x = NoTerm THEN NoTerm ELSE [x EXCEPT !.width = @ + by]

Extract(hi, lo, x) ==
  IF x = NoTerm \/ hi >= x.width \/ lo < 0 \/ hi < lo THEN NoTerm
  ELSE Bits(hi - lo + 1, x.value \div 2^lo)

SameSort(x, y) == x # NoTerm /\ x.width = y.width

Digit(x, i) == (x.value \div 2^i) % 2
BitByBit(x, Op(_)) ==
  Bits(x.width, FoldSet(LAMBDA i, acc : acc + 2^i * Op(i), 0, 0 .. x.width - 1))

Signed(x) == IF x.value >= 2^(x.width - 1) THEN x.value - 2^x.width ELSE x.value

BVUdiv(x, y) == Bits(x.width, IF y.value = 0 THEN 2^x.width - 1
                                             ELSE x.value \div y.value)

\* bvsmod: the remainder takes the sign of the divisor.
BVSmod(x, y) ==
  Bits(x.width,
       CASE y.value = 0    -> x.value
         [] Signed(y) > 0  -> Signed(x) % Signed(y)
         [] OTHER          -> -((-Signed(x)) % (-Signed(y))))

\* A shift by as many bits as the operand has, or by their logarithm.
ShiftBits(x, s, up) ==
  IF x = NoTerm \/ s = NoTerm \/ x.width \notin {s.width, 2^s.width} THEN NoTerm
  ELSE IF up THEN (IF s.value >= x.width THEN Bits(x.width, 0)
                   ELSE Bits(x.width, x.value * 2^s.value))
       ELSE (IF s.value >= x.width THEN Bits(x.width, 0)
             ELSE Bits(x.width, x.value \div 2^s.value))

-----------------------------------------------------------------------------
(***************************************************************************)
(* ast2term: the term of a node n of width w and target t, from those of   *)
(* its children.  env gives the values of the variables.                   *)
(***************************************************************************)
AddOp(op, x, y) ==
  IF ~ SameSort(x, y) THEN NoTerm
  ELSE CASE op = "PLUS"  -> Bits(x.width, x.value + y.value)
         [] op = "MINUS" -> Bits(x.width, x.value - y.value)
         [] op = "STAR"  -> Bits(x.width, x.value * y.value)
         [] op = "DIV"   -> BVUdiv(x, y)
         [] op = "MOD"   -> BVSmod(x, y)

\* Slip: the operands of a comparison are read as signed numbers.
ComparesSigned(op, x, y) ==
  IF ~ SameSort(x, y) THEN NoTerm
  ELSE Truth(CASE op = "L_EQ"  -> x.value = y.value
               [] op = "L_NEQ" -> x.value # y.value
               [] op = "GTE"   -> Signed(x) >= Signed(y)
               [] op = "LTE"   -> Signed(x) <= Signed(y)
               [] op = "GT"    -> Signed(x) > Signed(y)
               [] op = "LT"    -> Signed(x) < Signed(y))

CompareOp(op, x, y) ==
  IF ~ SameSort(x, y) THEN NoTerm
  ELSE Truth(CASE op = "L_EQ"  -> x.value = y.value
               [] op = "L_NEQ" -> x.value # y.value
               [] op = "GTE"   -> x.value >= y.value
               [] op = "LTE"   -> x.value <= y.value
               [] op = "GT"    -> x.value > y.value
               [] op = "LT"    -> x.value < y.value)

LogicalOp(op, c) ==
  IF \E i \in DOMAIN c : c[i].width # 1 THEN NoTerm
  ELSE Truth(CASE op = "L_AND" -> c[1].value = 1 /\ c[2].value = 1
               [] op = "L_OR"  -> c[1].value = 1 \/ c[2].value = 1
               [] op = "L_NEG" -> c[1].value = 0)

\* The unary forms hand a binary operator one operand: the solver refuses.
BitOp(op, c) ==
  IF Len(c) # 2 \/ ~ SameSort(c[1], c[Len(c)]) THEN NoTerm
  ELSE BitByBit(c[1], LAMBDA i :
         LET p == Digit(c[1], i) q == Digit(c[2], i)
         IN CASE op = "B_AND" -> p * q
              [] op = "B_OR"  -> p + q - p * q
              [] op = "B_XOR" -> (p + q) % 2)

Log2(w) == Max({k \in 0 .. w : 2^k <= w})

\* Only as many low bits of the amount are used as count up to the width.
ShiftOp(op, c) == ShiftBits(c[1], Extract(Log2(c[1].width) - 1, 0, c[2]), op = "LSL")

SelectOp(op, n, c) ==
  LET v(i) == n.args[i].value
  IN CASE op = "INDEX"             -> Extract(v(2), v(2), c[1])
       [] op = "RANGE_INDEX"       -> Extract(v(2), v(3), c[1])
       [] op = "IDX_PRT_SEL_PLUS"  -> Extract(v(2) + v(3) - 1, v(2), c[1])
       [] op = "IDX_PRT_SEL_MINUS" -> Extract(v(2), v(2) - v(3) + 1, c[1])

MakeConst(n, w, t) ==
  Bits((IF n.base = 0 THEN NativeWidth ELSE n.width) + t - w, n.value)

MuxOp(c) ==
  IF c[1].width # 1 \/ ~ SameSort(c[2], c[3]) THEN NoTerm
  ELSE IF c[1].value = 1 THEN c[2] ELSE c[3]

\* a@k is the variable's value k steps on, for which a symbol of the width of
\* a is made.
BuiltFrom(n, w, t, c, env) ==
  CASE n.op = "MK_CONST"   -> MakeConst(n, w, t)
    [] n.op = "MK_VAR"     -> Zero_Extend(t - w, Bits(VarWidth[n.name], env[n.name]))
    [] n.op \in Arithmetic -> AddOp(n.op, c[1], c[2])
    [] n.op \in Relational -> Zero_Extend(t - w, CompareOp(n.op, c[1], c[2]))
    [] n.op \in Logical    -> Zero_Extend(t - w, LogicalOp(n.op, c))
    [] n.op \in Bitwise    -> Zero_Extend(t - w, BitOp(n.op, c))
    [] n.op \in Shifts     -> Zero_Extend(t - w, ShiftOp(n.op, c))
    [] n.op \in Selects    -> Zero_Extend(t - w, SelectOp(n.op, n, c))
    [] n.op = "B_NEG"      ->
         Zero_Extend(t - w, IF c[1] = NoTerm THEN NoTerm
                            ELSE Bits(c[1].width, 2^c[1].width - 1 - c[1].value))
    [] n.op = "CONCAT"     ->
         Zero_Extend(t - w, IF NoTerm \in {c[1], c[2]} THEN NoTerm
                            ELSE Bits(c[1].width + c[2].width,
                                      c[1].value * 2^c[2].width + c[2].value))
    [] n.op = "AT"         -> Zero_Extend(t - w, c[1])
    [] n.op = "TERNARY"    -> Zero_Extend(t - w, MuxOp(c))

RECURSIVE TermAt(_, _, _, _, _)
TermAt(root, path, w, t, env) ==
  LET n == At(root, path)
  IN BuiltFrom(n, w[path], t[path],
               [i \in DOMAIN Args(n) |-> TermAt(root, Append(path, i), w, t, env)],
               env)

-----------------------------------------------------------------------------
Env == {e \in [DOMAIN VarWidth -> 0 .. 2^Max({VarWidth[v] : v \in DOMAIN VarWidth}) - 1] :
          \A v \in DOMAIN VarWidth : e[v] < 2^VarWidth[v]}

Init ==
  /\ ast \in Asts
  /\ width = <<>> /\ target = <<>> /\ term = <<>>
  /\ phase = "parsed"

set_node_width ==
  /\ phase = "parsed"
  /\ width' = [p \in Paths(ast) |-> NodeWidth(At(ast, p))]
  /\ target' = width'
  /\ phase' = "sized"
  /\ UNCHANGED <<ast, term>>

update_target_width ==
  /\ phase = "sized"
  /\ target' = [p \in Paths(ast) |-> TargetAt(ast, p)]
  /\ phase' = "widened"
  /\ UNCHANGED <<ast, width, term>>

ast2term ==
  /\ phase = "widened"
  /\ term' = [e \in Env |-> TermAt(ast, <<>>, width, target, e)]
  /\ phase' = "built"
  /\ UNCHANGED <<ast, width, target>>

Next == set_node_width \/ update_target_width \/ ast2term

Spec == Init /\ [][Next]_atvars

-----------------------------------------------------------------------------
(***************************************************************************)
(* What Verilog says the assertion means: the width of an operand is that  *)
(* of the widest operand of the expression around it, down to the operands *)
(* of comparisons, concatenations, selects and logical operators, which    *)
(* start an expression of their own.                                       *)
(***************************************************************************)
RECURSIVE OwnWidth(_)
OwnWidth(n) ==
  LET w == [i \in DOMAIN Args(n) |-> OwnWidth(Args(n)[i])]
  IN IF n.op = "TERNARY" THEN Max({w[2], w[3]}) ELSE WidthOf(n, w)

Calculates(op, p, q, ctx) ==
  CASE op = "PLUS"  -> p + q
    [] op = "MINUS" -> p - q
    [] op = "STAR"  -> p * q
    [] op = "DIV"   -> IF q = 0 THEN 2^ctx - 1 ELSE p \div q
    [] op = "MOD"   -> IF q = 0 THEN p ELSE p % q

Compares(op, p, q) ==
  \/ op \in {"L_EQ", "GTE", "LTE"} /\ p = q
  \/ op \in {"L_NEQ", "GTE", "GT"} /\ p > q
  \/ op \in {"L_NEQ", "LTE", "LT"} /\ p < q

Number(b) == IF b THEN 1 ELSE 0

\* The value of an expression in a context that is ctx bits wide.
RECURSIVE Verilog(_, _, _)
Verilog(n, ctx, env) ==
  LET in(i) == Verilog(n.args[i], ctx, env)
      own(i) == Verilog(n.args[i], OwnWidth(n.args[i]), env)
      both(i) == Verilog(n.args[i],
                         Max({OwnWidth(n.args[k]) : k \in DOMAIN n.args}), env)
      v(i) == n.args[i].value
  IN (CASE n.op = "MK_VAR"     -> env[n.name]
        [] n.op = "MK_CONST"   -> n.value
        [] n.op \in Arithmetic -> Calculates(n.op, in(1), in(2), ctx)
        [] n.op \in Bitwise    ->
             BitOp(n.op, <<Bits(ctx, in(1)), Bits(ctx, in(2))>>).value
        [] n.op = "B_NEG"      -> 2^ctx - 1 - in(1)
        [] n.op = "LSL"        -> in(1) * 2^own(2)
        [] n.op = "LSR"        -> in(1) \div 2^own(2)
        [] n.op = "TERNARY"    -> IF own(1) # 0 THEN in(2) ELSE in(3)
        [] n.op \in Relational -> Number(Compares(n.op, both(1), both(2)))
        [] n.op = "L_NEG"      -> Number(own(1) = 0)
        [] n.op = "L_AND"      -> Number(own(1) # 0 /\ own(2) # 0)
        [] n.op = "L_OR"       -> Number(own(1) # 0 \/ own(2) # 0)
        [] n.op = "INDEX"      -> (own(1) \div 2^v(2)) % 2
        [] n.op = "RANGE_INDEX"       -> (own(1) % 2^(v(2) + 1)) \div 2^v(3)
        [] n.op = "IDX_PRT_SEL_PLUS"  -> (own(1) \div 2^v(2)) % 2^v(3)
        [] n.op = "IDX_PRT_SEL_MINUS" ->
             (own(1) % 2^(v(2) + 1)) \div 2^(v(2) - v(3) + 1)
        [] n.op = "AT"         -> own(1)
        [] n.op = "CONCAT"     -> own(1) * 2^OwnWidth(n.args[2]) + own(2)) % 2^ctx

\* The nodes of the assertion, by path.
Nodes == Paths(ast)

\* The assertion is of a form every node of which the solver can build: the
\* operands of a logical operator and the condition of a choice are single
\* bits, the branches of a choice equally wide, bitwise operators binary,
\* shifted operands a power of two wide and the amount wide enough, selected
\* bits there.
Supported ==
  \A p \in Nodes :
    LET n == At(ast, p)
        w(i) == width[Append(p, i)]
    IN /\ n.op \in Logical => \A i \in DOMAIN n.args : w(i) = 1
       /\ n.op = "TERNARY" => w(1) = 1 /\ w(2) = w(3)
       /\ n.op \in Bitwise => Len(n.args) = 2
       /\ n.op \in Shifts  => /\ w(1) > 1 /\ 2^Log2(w(1)) = w(1)
                              /\ w(2) >= Log2(w(1))
       /\ n.op \in Selects => SelectOp(n.op, n, <<Bits(w(1), 0)>>) # NoTerm

\* The bits a node is extended by are those Verilog computes: its operator
\* either starts an expression of its own or passes the width on.
ExtendedFaithfully ==
  \A p \in Nodes :
    target[p] > width[p] =>
      At(ast, p).op \in Arithmetic \cup Relational \cup Logical \cup Selects
                        \cup Leaves \cup {"CONCAT", "AT"}

Built == phase = "built"

\* For every valuation the code's term has the value Verilog gives.
MeansVerilog ==
  \A e \in Env : term[e] = Bits(OwnWidth(ast), Verilog(ast, OwnWidth(ast), e))

Ops == {At(ast, p).op : p \in Nodes}

\* Every attribute is a width, and it is there once its pass is done.
ATypeOK ==
  /\ ast \in Asts /\ phase \in {"parsed", "sized", "widened", "built"}
  /\ phase # "parsed" => width \in [Nodes -> Nat] /\ target \in [Nodes -> Nat]
  /\ Built => \A e \in Env : term[e].width \in Nat

\* No supported assertion is refused: the widths the parents want make the
\* operands of every operator equally wide, wherever the widths of a tree
\* differ, and the term is as wide as its root.
SortsAgree ==
  /\ ATypeOK
  /\ Built /\ Supported => \A e \in Env : term[e].width = target[<<>>]

\* The assertion that is checked is the one that was written: carries of sums
\* go into the extra bits, comparisons are made on all bits, and an operand is
\* extended where Verilog extends it.  (Assertions with a remainder, which is
\* translated to the signed one, with any shift, which uses the low bits of its
\* amount, or with operators extended after they are applied are excluded.)
MeansWhatItSays ==
  Built /\ Supported /\ ExtendedFaithfully /\ Ops \cap ({"MOD"} \cup Shifts) = {}
    => MeansVerilog
=============================================================================

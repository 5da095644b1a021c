----------------------------- MODULE Btor2Terms -----------------------------
(***************************************************************************)
(* The terms BTOR2Encoder::parse builds for one line of a BTOR2 file from  *)
(* the terms of its arguments.  A term is represented by its sort and by   *)
(* its value under one valuation of the states and inputs, or is NoTerm    *)
(* where the encoder or the solver throws.  Arrays are left out.           *)
(***************************************************************************)
EXTENDS Integers, Sequences, FiniteSets, FiniteSetsExt

CONSTANT SeparateBools  \* FALSE for Boolector, which has no Boolean sort

NoTerm == [kind |-> "none", width |-> 0, value |-> 0]
BV(w, v) == [kind |-> "BV", width |-> w, value |-> v % 2^w]
Truth(b) == [kind |-> IF SeparateBools THEN "BOOL" ELSE "BV", width |-> 1,
             value |-> IF b THEN 1 ELSE 0]

IsBool(t) == t.kind = "BOOL"
IsBit(t) == t.kind = "BV" /\ t.width = 1
SameSort(x, y) == x.kind = y.kind /\ x.width = y.width

Signed(w, v) == IF v >= 2^(w - 1) THEN v - 2^w ELSE v
Digit(v, i) == (v \div 2^i) % 2
BitByBit(w, Op(_)) == FoldSet(LAMBDA i, acc : acc + 2^i * Op(i), 0, 0 .. w - 1)

-----------------------------------------------------------------------------
(***************************************************************************)
(* The solver's operators (PrimOp of smt-switch), on values of width w.    *)
(***************************************************************************)
Quotient(x, y) == IF x >= 0 THEN x \div y ELSE -((-x) \div y)
SignedDivision(x, y) ==
  IF y > 0 THEN Quotient(x, y) ELSE Quotient(-x, -y)

Arithmetic(tag, w, x, y) ==
  CASE tag = "add"  -> x + y
    [] tag = "sub"  -> x - y
    [] tag = "mul"  -> x * y
    [] tag = "udiv" -> IF y = 0 THEN 2^w - 1 ELSE x \div y
    [] tag = "urem" -> IF y = 0 THEN x ELSE x % y
    [] tag = "sdiv" -> IF y = 0 THEN (IF Signed(w, x) >= 0 THEN -1 ELSE 1)
                       ELSE SignedDivision(Signed(w, x), Signed(w, y))
    [] tag = "srem" -> IF y = 0 THEN x
                       ELSE Signed(w, x) - Signed(w, y)
                              * SignedDivision(Signed(w, x), Signed(w, y))
    [] tag = "smod" -> CASE y = 0             -> x
                         [] Signed(w, y) > 0  -> Signed(w, x) % Signed(w, y)
                         [] OTHER -> -((-Signed(w, x)) % (-Signed(w, y)))
    [] tag = "sll"  -> IF y >= w THEN 0 ELSE x * 2^y
    [] tag = "srl"  -> IF y >= w THEN 0 ELSE x \div 2^y
    [] tag = "sra"  -> IF y >= w THEN (IF Signed(w, x) < 0 THEN -1 ELSE 0)
                       ELSE Signed(w, x) \div 2^y

BitwiseOn(tag, w, x, y) ==
  BitByBit(w, LAMBDA i :
    LET p == Digit(x, i) q == Digit(y, i)
        and == p * q  xor == (p + q) % 2  or == p + q - p * q
    IN CASE tag = "and" -> and [] tag = "nand" -> 1 - and
         [] tag = "or"  -> or  [] tag = "nor"  -> 1 - or
         [] tag = "xor" -> xor [] tag = "xnor" -> 1 - xor)

Comparison(tag, w, x, y) ==
  CASE tag = "ult"  -> x < y  [] tag = "ulte" -> x <= y
    [] tag = "ugt"  -> x > y  [] tag = "ugte" -> x >= y
    [] tag = "slt"  -> Signed(w, x) < Signed(w, y)
    [] tag = "slte" -> Signed(w, x) <= Signed(w, y)
    [] tag = "sgt"  -> Signed(w, x) > Signed(w, y)
    [] tag = "sgte" -> Signed(w, x) >= Signed(w, y)

BitwiseTags == {"and", "nand", "or", "nor", "xor", "xnor"}
ComparisonTags == {"ult", "ulte", "ugt", "ugte", "slt", "slte", "sgt", "sgte"}

\* bvopmap: the term of a line whose arguments are all bit-vectors.
Suit(tag, a) ==
  /\ \A i \in DOMAIN a : a[i].kind = "BV"
  /\ tag \in {"not", "neg", "concat"} \/ SameSort(a[1], a[2])

BvOp(tag, a) ==
  LET w == a[1].width  x == a[1].value  y == a[Len(a)].value
  IN IF ~Suit(tag, a) THEN NoTerm
     ELSE CASE tag = "not"             -> BV(w, -1 - x)
            [] tag = "neg"             -> BV(w, -x)
            [] tag = "concat"          -> BV(w + a[2].width, x * 2^a[2].width + y)
            [] tag = "iff"             -> BV(1, IF x = y THEN 1 ELSE 0)
            [] tag \in BitwiseTags     -> BV(w, BitwiseOn(tag, w, x, y))
            [] tag \in ComparisonTags  -> Truth(Comparison(tag, w, x, y))
            [] OTHER                   -> BV(w, Arithmetic(tag, w, x, y))

\* boolopmap: the term of a line whose arguments are all Boolean.
BoolOpTags == {"and", "or", "xor", "not", "iff"}

BoolOp(tag, a) ==
  LET p(i) == a[i].value = 1
  IN IF \E i \in DOMAIN a : ~IsBool(a[i]) THEN NoTerm
     ELSE Truth(CASE tag = "not" -> ~p(1)
                  [] tag = "and" -> p(1) /\ p(2)
                  [] tag = "or"  -> p(1) \/ p(2)
                  [] tag = "xor" -> p(1) # p(2)
                  [] tag = "iff" -> p(1) = p(2))

Equal(x, y) == IF SameSort(x, y) THEN Truth(x.value = y.value) ELSE NoTerm
Distinct(x, y) == IF SameSort(x, y) THEN Truth(x.value # y.value) ELSE NoTerm
BVComp(x, y) == BV(1, IF x.value = y.value THEN 1 ELSE 0)
And(p, q) == Truth(p.value = 1 /\ q.value = 1)

Extract(hi, lo, x) ==
  IF x.kind # "BV" \/ hi >= x.width \/ hi < lo THEN NoTerm
  ELSE BV(hi - lo + 1, x.value \div 2^lo)
Bit(i, x) == Extract(i, i, x)
Top(x) == Bit(x.width - 1, x)

Zero_Extend(by, x) == BV(x.width + by, x.value)
Sign_Extend(by, x) == BV(x.width + by, Signed(x.width, x.value))

-----------------------------------------------------------------------------
(***************************************************************************)
(* The conversions between Booleans and one-bit vectors.                   *)
(***************************************************************************)
bool_to_bv(t) == IF IsBool(t) THEN BV(1, t.value) ELSE t

bv_to_bool(t) ==
  IF t.kind # "BV" THEN t ELSE IF t.width # 1 THEN NoTerm ELSE Equal(t, BV(1, 1))

Each(Convert(_), a) == [i \in DOMAIN a |-> Convert(a[i])]

\* wide_bvs is never given a value when no argument is wide: one result for
\* each value it may have.
WideBvs(a) ==
  IF \E i \in DOMAIN a : ~IsBool(a[i]) /\ ~IsBit(a[i]) THEN {TRUE} ELSE BOOLEAN

NumBools(a) == Cardinality({i \in DOMAIN a : IsBool(a[i])})

lazy_convert(a) ==
  IF \A i, j \in DOMAIN a : SameSort(a[i], a[j]) THEN {a}
  ELSE {IF NumBools(a) > Len(a) \div 2 /\ ~wide
          THEN Each(bv_to_bool, a) ELSE Each(bool_to_bv, a) : wide \in WideBvs(a)}

\* eq, neq and implies convert only when exactly one side is Boolean.
Castable(x, y) ==
  \/ x.kind = "BV" /\ IsBool(y)
  \/ IsBool(x) /\ y.kind = "BV"

Matched(x, y, converted) ==
  IF SameSort(x, y) THEN <<x, y>>
  ELSE IF Castable(x, y) THEN converted ELSE <<NoTerm, NoTerm>>

Defined(x, y) == SameSort(x, y) /\ x.kind # "none"

EqTerm(x, y) ==
  LET p == Matched(x, y, <<bool_to_bv(x), bool_to_bv(y)>>)
  IN IF ~Defined(p[1], p[2]) THEN NoTerm
     ELSE IF p[1].kind = "BV" THEN BVComp(p[1], p[2]) ELSE Equal(p[1], p[2])

NeqTerm(x, y) ==
  LET p == Matched(x, y, <<bool_to_bv(x), bool_to_bv(y)>>)
  IN IF ~Defined(p[1], p[2]) THEN NoTerm
     ELSE IF p[1].kind = "BV" THEN BvOp("not", <<BVComp(p[1], p[2])>>)
          ELSE Distinct(p[1], p[2])

ImpliesTerm(x, y) ==
  LET p == Matched(x, y, <<bv_to_bool(x), bv_to_bool(y)>>)
  IN IF ~Defined(p[1], p[2]) THEN NoTerm
     ELSE IF p[1].kind = "BV" THEN BvOp("or", <<BvOp("not", <<p[1]>>), p[2]>>)
          ELSE Truth(p[1].value = 1 => p[2].value = 1)

IteTerm(c, x, y) ==
  LET cond == bv_to_bool(c) t1 == bool_to_bv(x) t2 == bool_to_bv(y)
  IN IF cond = NoTerm \/ ~SameSort(t1, t2) THEN NoTerm
     ELSE IF cond.value = 1 THEN t1 ELSE t2

-----------------------------------------------------------------------------
(***************************************************************************)
(* Reductions and overflow flags, of bit-vectors.                          *)
(***************************************************************************)
RedandTerm(t) == BVComp(t, BV(t.width, -1))
RedorTerm(t) == Distinct(t, BV(t.width, 0))

RedxorTerm(t) ==
  FoldSet(LAMBDA i, acc : BvOp("xor", <<acc, Bit(i, t)>>), Top(t), 0 .. t.width - 2)

UaddoTerm(x, y) ==
  Bit(x.width, BvOp("add", <<Zero_Extend(1, x), Zero_Extend(1, y)>>))

SaddoTerm(x, y) ==
  LET sum == BvOp("add", <<x, y>>)
  IN Equal(Equal(Top(x), Top(y)), Distinct(Top(x), Top(sum)))

SdivoTerm(x, y) ==
  And(Equal(x, BV(x.width, 2^(x.width - 1))), Equal(y, BV(x.width, -1)))

DoubleProduct(x, y) ==
  BvOp("mul", <<Zero_Extend(x.width, x), Zero_Extend(y.width, y)>>)
High(w, prod) == Extract(2 * w - 1, w, prod)
Low(w, prod) == Extract(w - 1, 0, prod)

UmuloTerm(x, y) == Distinct(High(x.width, DoubleProduct(x, y)), BV(x.width, 0))

SmuloTerm(x, y) ==
  LET w == x.width  prod == DoubleProduct(x, y)
  IN Distinct(High(w, prod), BvOp("sra", <<Low(w, prod), BV(w, w - 1)>>))

UsuboTerm(x, y) ==
  LET w == x.width
      add1 == BvOp("add", <<Zero_Extend(1, y), BV(w + 1, 1)>>)
      add2 == BvOp("add", <<Zero_Extend(1, x), add1>>)
  IN BvOp("not", <<Bit(w, add2)>>)

SsuboTerm(x, y) ==
  LET diff == BvOp("sub", <<x, y>>)
  IN And(Distinct(Top(x), Top(y)), Equal(Top(y), Top(diff)))

FlagTags == {"uaddo", "saddo", "sdivo", "umulo", "smulo", "usubo", "ssubo"}

FlagTerm(tag, x, y) ==
  IF ~SameSort(x, y) THEN NoTerm
  ELSE CASE tag = "uaddo" -> UaddoTerm(x, y) [] tag = "saddo" -> SaddoTerm(x, y)
         [] tag = "sdivo" -> SdivoTerm(x, y) [] tag = "umulo" -> UmuloTerm(x, y)
         [] tag = "smulo" -> SmuloTerm(x, y) [] tag = "usubo" -> UsuboTerm(x, y)
         [] tag = "ssubo" -> SsuboTerm(x, y)

-----------------------------------------------------------------------------
(***************************************************************************)
(* The term of an operator line: its arguments a, its immediates imm.      *)
(***************************************************************************)
OneBitVectors == {"slice", "sext", "uext", "inc", "dec", "redand", "redor", "redxor"}

UnaryTerm(tag, imm, t) ==
  CASE tag = "slice"  -> Extract(imm[1], imm[2], t)
    [] tag = "sext"   -> Sign_Extend(imm[1], t)
    [] tag = "uext"   -> Zero_Extend(imm[1], t)
    [] tag = "inc"    -> BvOp("add", <<t, BV(t.width, 1)>>)
    [] tag = "dec"    -> BvOp("sub", <<t, BV(t.width, 1)>>)
    [] tag = "redand" -> RedandTerm(t)
    [] tag = "redor"  -> RedorTerm(t)
    [] tag = "redxor" -> RedxorTerm(t)

\* The tags of boolopmap are also those of bvopmap.
GeneralTerms(tag, a) ==
  IF tag \in BoolOpTags
    THEN {IF IsBool(c[1]) THEN BoolOp(tag, c) ELSE BvOp(tag, c) : c \in lazy_convert(a)}
    ELSE {BvOp(tag, Each(bool_to_bv, a))}

LineTerms(tag, imm, a) ==
  CASE tag = "eq"             -> {EqTerm(a[1], a[2])}
    [] tag = "neq"            -> {NeqTerm(a[1], a[2])}
    [] tag = "implies"        -> {ImpliesTerm(a[1], a[2])}
    [] tag = "ite"            -> {IteTerm(a[1], a[2], a[3])}
    [] tag \in OneBitVectors  -> {UnaryTerm(tag, imm, bool_to_bv(a[1]))}
    [] tag \in FlagTags       -> {FlagTerm(tag, bool_to_bv(a[1]), bool_to_bv(a[2]))}
    [] OTHER                  -> GeneralTerms(tag, a)
=============================================================================

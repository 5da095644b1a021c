--------------------------- MODULE MCBtor2Encoder ---------------------------
(***************************************************************************)
(* Small BTOR2 files: one operator on inputs of two and three bits, two    *)
(* operators of which the second mixes a predicate with a bit, and files   *)
(* that name, rename and drop states and outputs.                          *)
(***************************************************************************)
EXTENDS Btor2Encoder

L(tag, width, args, imm, symbol) ==
  [tag |-> tag, width |-> width, args |-> args, imm |-> imm, symbol |-> symbol,
   value |-> 1]

Input(w) == L("input", w, <<>>, <<>>, "")
Op(tag, w, args) == L(tag, w, args, <<>>, "")
Predicates == ComparisonTags \cup {"eq", "neq"}

\* An operator on two inputs of width w, either of them negated.
Signs(a, b) == {<<a, b>>, <<-a, b>>, <<a, -b>>}
WidthOfOp(tag, w) ==
  IF tag \in Predicates \cup FlagTags THEN 1 ELSE IF tag = "concat" THEN 2 * w ELSE w

BinaryTags ==
  {"add", "sub", "mul", "udiv", "urem", "sdiv", "srem", "smod", "sll", "srl", "sra",
   "concat"} \cup BitwiseTags \cup Predicates

OneOperator(tags, w) ==
  {<<Input(w), Input(w), Op(tag, WidthOfOp(tag, w), args)>> :
     tag \in tags, args \in Signs(1, 2)}

UnaryFiles(w) ==
  {<<Input(w), Op(tag, w, <<1>>)>> : tag \in {"not", "neg", "inc", "dec"}}
  \cup {<<Input(w), Op(tag, 1, <<1>>)>> : tag \in {"redand", "redor", "redxor"}}
  \cup {<<Input(w), L("slice", 1, <<1>>, <<w - 1, w - 1>>, "")>>,
        <<Input(w), L("sext", w + 1, <<-1>>, <<1>>, "")>>,
        <<Input(w), L("uext", w + 2, <<1>>, <<2>>, "")>>}

\* A predicate and a bit as arguments of a second operator.
Firsts == {"ult", "eq", "uaddo", "ssubo", "sdivo"}
BitTags == {"and", "or", "xor", "nand", "iff", "implies", "eq", "neq", "add", "ugte",
            "uaddo", "umulo"}
Mixed ==
  {<<Input(2), Input(1), Op(first, 1, <<1, -1>>), Op(tag, 1, args)>> :
     first \in Firsts, tag \in BitTags,
     args \in {<<3, 2>>, <<2, 3>>, <<-3, 2>>, <<3, -2>>, <<3, 3>>}}
  \cup {<<Input(2), Input(1), Op(first, 1, <<1, -1>>), Op("ite", w, args)>> :
          first \in Firsts, w \in {1}, args \in {<<3, 2, 3>>, <<-2, 3, 2>>}}
  \cup {<<Input(2), Input(1), Op(first, 1, <<1, -1>>),
          L(tag, w, <<3>>, imm, ""), Op("not", w, <<4>>)>> :
          first \in Firsts, tag \in {"uext", "sext"}, w \in {2}, imm \in {<<1>>}}
  \cup {<<Input(2), Input(1), Op(first, 1, <<1, -1>>),
          Op("concat", 2, <<3, 2>>), Op("redxor", 1, <<4>>)>> : first \in Firsts}

\* Designs of two states, of which the first may be nameless, have no next
\* line, or have a predicate for its next value; up to two outputs may show it.
NextLines == {<<>>, <<Op("next", 1, <<2, 4>>)>>, <<Op("next", 1, <<2, -3>>)>>}
Outputs == {<<>>} \cup
  {<<L("output", 0, <<a>>, <<>>, n)>> : a \in {2, -2, 4}, n \in {"q", "r", ""}}

Designs ==
  {<<L("input", 1, <<>>, <<>>, "in"), L("state", 1, <<>>, <<>>, s),
     L("state", 1, <<>>, <<>>, t), L("ult", 1, <<1, 3>>, <<>>, u)>>
   \o o1 \o n \o o2 \o <<Op("next", 1, <<3, 1>>), Op(k, 0, <<4>>)>> :
     s \in {"", "p"}, t \in {"r", ""}, u \in {"", "q"}, o1 \in Outputs, n \in NextLines,
     o2 \in Outputs, k \in {"bad", "constraint", "justice"}}

Started ==
  {<<L("state", 2, <<>>, <<>>, "x"), Op(c, 2, <<>>), Op("init", 2, <<1, 2>>),
     Op("inc", 2, <<1>>), Op("next", 2, <<1, 4>>), L("output", 0, <<-1>>, <<>>, ""),
     Op("fair", 0, <<1>>)>> : c \in ConstTags}
  \cup {<<L("state", 1, <<>>, <<>>, "x"), Op("one", 1, <<>>), Op("ult", 1, <<1, 2>>),
          Op("init", 1, <<1, i>>), Op("next", 1, <<1, 2>>)>> : i \in {2, 3, -2}}

MCOperators ==
  UNION {OneOperator(BinaryTags \cup {"uaddo", "sdivo", "umulo", "ssubo"}, w) : w \in 2 .. 3}
  \cup UNION {UnaryFiles(w) : w \in 1 .. 3}
  \cup OneOperator({"and", "uaddo", "sdivo", "umulo", "ssubo", "implies"}, 1) \cup Mixed
MCFiles == MCOperators \cup Designs \cup Started

\* The overflow flags of 1 and -1.
MCFlags ==
  {<<Op("one", w, <<>>), Op("ones", w, <<>>), Op("saddo", 1, <<1, 2>>),
     Op("smulo", 1, <<1, 2>>), Op("usubo", 1, <<1, 2>>)>> : w \in 2 .. 4}
=============================================================================

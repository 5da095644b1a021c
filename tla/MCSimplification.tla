-------------------------- MODULE MCSimplification --------------------------
EXTENDS Simplification

Leaves == {Sym(s) : s \in Symbols} \cup {T}
Node(op, args) == [op |-> op, name |-> "", args |-> args]

Flat == {Node(op, <<l, m>>) : op \in {"and", "eq", "ult"}, l, m \in Leaves}
          \cup {Node("not", <<l>>) : l \in Leaves}
Muxes == {Node("ite", <<c, l, m>>) : c \in Flat, l, m \in {Sym(s) : s \in Symbols}}

\* The same condition twice, and parts of parts.
Nested == {Node("ite", <<c, Node("ite", <<d, l, m>>), l>>) :
             c, d \in {Sym(s) : s \in Symbols},
             l \in {Sym(s) : s \in Symbols}, m \in Flat}

\* What the path constraints may be: nothing, an X that is fixed, an X that
\* implies an input; two X that are equal, an X that equals an input.
SomeX == CHOOSE x \in Xs : TRUE
SomeInput == CHOOSE s \in Others : TRUE

Free == {Valuations, {v \in Valuations : v[SomeX]},
         {v \in Valuations : v[SomeX] => v[SomeInput]}}
Equal == {{v \in Valuations : \A x, y \in Xs : v[x] = v[y]}}
Copied == {{v \in Valuations : v[SomeX] = v[SomeInput]}}

MCStates(terms, constraints) ==
  {[value |-> [s \in Vars |-> IF s = "p" THEN t ELSE u], allowed |-> c] :
      t \in terms, u \in {Sym(SomeInput), Node("ult", <<Sym(SomeX), Sym(SomeInput)>>)},
      c \in constraints}

MCFree == MCStates(Leaves \cup Flat \cup Muxes \cup Nested, Free)
MCEqual == MCStates(Leaves \cup Flat, Equal)
MCCopied == MCStates(Leaves \cup Flat, Copied)
MCAll == MCFree \cup MCEqual \cup MCCopied
=============================================================================

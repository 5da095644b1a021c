------------------------- MODULE MCTransitionSystem -------------------------
EXTENDS TransitionSystem

MCNextName == [n \in Base |-> n \o ".next"]

\* A program that builds a system of up to two state variables, and reduces it;
\* one that does not promote inputs.
Builder ==
  [states |-> {"a", "b"}, inputs |-> {"a", "b"}, terms |-> {{"a"}, {"b"}, {"a", "b"}},
   labels |-> {"n"}, operations |-> {"name", "rebuild", "promote"}, constraints |-> 2]
Reducer ==
  [Builder EXCEPT !.inputs = {"b"}, !.states = {"a"}, !.operations = {"rebuild"}]

\* A program that makes every call, with a single state variable; one that uses
\* the next name of the variable for an input, and does not replace terms; one
\* that drops updates of a system with two kinds of variables.
Tinkerer ==
  [states |-> {"a"}, inputs |-> {"a", "b"}, terms |-> {{"a"}}, labels |-> {},
   operations |-> {"rebuild", "promote", "add", "drop", "replace"}, constraints |-> 1]
Adder ==
  [Tinkerer EXCEPT !.inputs = {"a", "b", "a.next"},
                   !.operations = {"rebuild", "promote", "add", "drop"}]
Dropper ==
  [Tinkerer EXCEPT !.inputs = {"b"}, !.terms = {{"a"}, {"a", "b"}},
                   !.operations = {"rebuild", "promote", "drop"}]

\* A program that constrains init_ over inputs, as the encoder does, and one that
\* reduces such a system as well, where only what is said of all programs holds.
Encoder ==
  [Builder EXCEPT !.inputs = {"b"}, !.states = {"a"}, !.operations = {"name", "unchecked"}]
Careless == [Encoder EXCEPT !.operations = {"name", "rebuild", "unchecked"}, !.constraints = 1]

\* A program whose promotions may fail.
Promoter ==
  [Tinkerer EXCEPT !.inputs = {"a", "b", "a.next"}, !.terms = {{"a"}, {"a", "b"}},
                   !.operations = {"rebuild", "promote", "drop"}, !.constraints = 2]

MCCallers == {Builder, Reducer, Tinkerer, Adder, Dropper, Encoder, Careless, Promoter}
=============================================================================

---------------------------- MODULE ChoiceSearch ----------------------------
(***************************************************************************)
(* The loop over the choices of one state, as traverse and                 *)
(* traverse_one_step drive it (symtraverse.cpp:99-142, 216-277).  What the *)
(* solver answers about the state that a choice leads to is left open:     *)
(* every answer is possible at every choice.                               *)
(***************************************************************************)
EXTENDS PerStateStack

VARIABLES
  choices,   \* the PerStateStack
  settled,   \* prefixes of values that were simulated and need no more values
  outcome    \* "running", "finished", or "thrown" when the choices ran out

csvars == <<choices, settled, outcome>>

CInit ==
  /\ choices = NewPerStateStack
  /\ settled = {}
  /\ outcome = "running"

\* The next state is unreachable, or is concrete and was recorded or was known
\* already: nothing is left to do with these values.
Settle ==
  /\ outcome = "running"
  /\ settled' = settled \cup {Prefix(choices)}
  /\ choices' = next_choice(choices)
  /\ outcome' = IF has_valid_choice(choices') THEN "running" ELSE "finished"

\* The next state still depends on an unassigned input.
Deepen ==
  /\ outcome = "running"
  /\ CanDeepen(choices)
  /\ choices' = deeper_choice(choices)
  /\ UNCHANGED <<settled, outcome>>

\* It does, and every branching point has a value already.
RunOut ==
  /\ outcome = "running"
  /\ ~ CanDeepen(choices)
  /\ outcome' = "thrown"
  /\ UNCHANGED <<choices, settled>>

CNext == Settle \/ Deepen \/ RunOut

CSpec == CInit /\ [][CNext]_csvars

\* The loop body is straight-line code and solver calls: a program that is in
\* the loop takes the next iteration.
CFairSpec == CSpec /\ WF_csvars(CNext)

-----------------------------------------------------------------------------
Levels == 1 .. Len(BranchingPoint)

ValuesAt(i) == Values(BranchingPoint[i].v_width)

\* Every variable holds a value of its type.
CTypeOK ==
  /\ choices \in [stack : Seq(Node), ptr : Nat, no_next_choice : BOOLEAN]
  /\ settled \subseteq Seq(Nat)
  /\ outcome \in {"running", "finished", "thrown"}

\* The pointer into the branching points is the height of the stack, and the
\* node at each height is a copy of the branching point of that height with a
\* value of its width; the stack is only given up when it is empty.
StackFollowsPoints ==
  /\ CTypeOK
  /\ choices.ptr = Len(choices.stack)
  /\ Len(choices.stack) <= Len(BranchingPoint)
  /\ \A i \in 1 .. Len(choices.stack) :
       /\ choices.stack[i].point = BranchingPoint[i]
       /\ choices.stack[i].value \in ValuesAt(i)
  /\ choices.no_next_choice => choices.stack = <<>>
  /\ outcome = "finished" <=> choices.no_next_choice

\* A value for every branching point.
Cells == {c \in [Levels -> UNION {ValuesAt(i) : i \in Levels}] :
            \A i \in Levels : c[i] \in ValuesAt(i)}

\* c comes before every cell that extends the prefix p.
Before(c, p) ==
  \E i \in 1 .. Len(p) : c[i] < p[i] /\ \A j \in 1 .. i - 1 : c[j] = p[j]

Covers(p, c) == \A i \in 1 .. Len(p) : p[i] = c[i]

\* Cells already passed: all of them in the end, otherwise those before the
\* current prefix.
Passed(c) == choices.no_next_choice \/ Before(c, Prefix(choices))

\* The search splits the value space: each combination of values the search has
\* passed was settled, under exactly one prefix, and no other was.  Nothing is
\* skipped when exhausted nodes are popped, and nothing is simulated twice.
EachCellSettledOnce ==
  \A c \in Cells :
    /\ Passed(c) <=> \E p \in settled : Covers(p, c)
    /\ \A p, q \in settled : Covers(p, c) /\ Covers(q, c) => p = q

\* The loop ends, whatever the solver answers.
Termination == <>(outcome # "running")
=============================================================================

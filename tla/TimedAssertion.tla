--------------------------- MODULE TimedAssertion ---------------------------
(***************************************************************************)
(* TimedAssertionChecker: simulates a design as far as an assertion looks, *)
(* records a term for each variable@cycle of the assertion, asserts the    *)
(* negation of the assertion over these terms and asks the solver.  The    *)
(* simulator and the solver are the caller's and outlive the checker.      *)
(*                                                                         *)
(* The design has one register r and Boolean inputs.  A term is a function *)
(* from valuations of the symbols to values, an assertion the set of the   *)
(* values of its variables under which it is true.                         *)
(***************************************************************************)
EXTENDS Integers, Sequences, FiniteSets, FiniteSetsExt, TLC

CONSTANTS
  FreeInputs,  \* inputs the checker leaves to the solver
  Reset,       \* {} or the name of the reset input, held constant
  set_rst_to_0, \* whether the reset is held at 0 or at 1
  Clock,       \* {} or the name of the clock, which the checker leaves out
  Designs,     \* init, update and constraint of the register
  Assertions,  \* [vars : set of <<name, cycle>>, holds : set of functions]
  MaxChecks,   \* bound: checkers constructed one after the other
  MaxFrames    \* bound: frames of the simulator

VARIABLES
  design,    \* the transition system
  syms,      \* the names the solver has
  now,       \* the number of steps the simulator has made
  frame,     \* the simulator's term for the register
  given,     \* set_input was called on the current frame
  assertion, \* get_var_vec and the formula of the checker
  base,      \* now, when the checker was constructed
  cycle,     \* sim_cycle
  termmap,   \* ass_termmap
  negated,   \* the valuations that satisfy what was asserted
  verdict,   \* what check_sat printed
  checks,    \* checkers constructed
  pc         \* where the caller and the checker are

tavars == <<design, syms, now, frame, given, assertion, base, cycle, termmap,
            negated, verdict, checks, pc>>

sim == <<design, syms, now, frame, given>>

Values == {0, 1}
ResetValue == IF set_rst_to_0 THEN 0 ELSE 1
Inputs == FreeInputs \cup Reset \cup Clock
NameOf(v, c) == v \o ToString(c)

\* The symbols that may appear in terms: the register's first value, and one
\* for each input and cycle.
Symbols == {"r"} \cup {NameOf(v, c) : v \in FreeInputs, c \in 0 .. MaxFrames}
Valuations == [Symbols -> Values]

\* The inputs set_input is given.
Assigned == FreeInputs \cup Reset
InputsAt == [Assigned -> Values]

\* The same ending gives different inputs different names.
ASSUME InputsAreDistinct ==
  /\ FreeInputs \cap (Reset \cup Clock) = {} /\ Reset \cap Clock = {}
  /\ Cardinality(Reset) <= 1 /\ Cardinality(Clock) <= 1
  /\ "r" \notin FreeInputs \cup Reset \cup Clock
  /\ \A v, w \in FreeInputs, c \in 0 .. MaxFrames : NameOf(v, c) = NameOf(w, c) => v = w

ASSUME DesignsAndAssertions ==
  /\ \A d \in Designs : /\ d.init \subseteq Values
                         /\ d.next \in [Values \X InputsAt -> Values]
                         /\ d.constraint \subseteq Values \X InputsAt
  /\ \A a \in Assertions : /\ IsFiniteSet(a.vars)
                            /\ \A x \in a.vars : x[1] \in {"r"} \cup Inputs /\ x[2] \in Nat
  /\ MaxChecks \in Nat /\ MaxFrames \in Nat

-----------------------------------------------------------------------------
\* The constructor: parse_verilog, parse_ast and parse_max_cycle.
\* Slip: the last cycle is left out.
StopsEarly == Max({0} \cup {v[2] - 1 : v \in assertion.vars})

max_cycle == Max({0} \cup {v[2] : v \in assertion.vars})

Construct(a) ==
  /\ pc \in {"idle", "answered"}
  /\ checks < MaxChecks
  /\ assertion' = a
  /\ base' = now /\ cycle' = 0 /\ termmap' = <<>> /\ verdict' = "none"
  /\ checks' = checks + 1
  /\ pc' = "simulating"
  /\ UNCHANGED <<design, syms, now, frame, given, negated>>

\* The map for set_input: a symbol named after the input and the cycle for each
\* input, a constant for the reset.
InputTerm(v, c) ==
  [val \in Valuations |-> IF v \in Reset THEN ResetValue ELSE val[NameOf(v, c)]]

NextFrame(c) ==
  [val \in Valuations |->
     design.next[<<frame[val], [v \in Assigned |-> InputTerm(v, c)[val]]>>]]

\* One sim_one_step, except at cycle 0.
SteppedFrame == IF cycle = 0 THEN frame ELSE NextFrame(cycle - 1)

\* The names that convert makes in the solver; the reset is a number.
NamesAt(c) == {NameOf(v, c) : v \in FreeInputs}

\* Slip: an input is recorded with the previous cycle's symbol.
RecordsLate(c, f) ==
  [x \in {y \in assertion.vars : y[2] = c} |->
     IF x[1] = "r" THEN f ELSE InputTerm(x[1], IF c = 0 THEN 0 ELSE c - 1)]

Recorded(c, f) ==
  [x \in {y \in assertion.vars : y[2] = c} |->
     IF x[1] = "r" THEN f ELSE InputTerm(x[1], c)]

Inserted(new, old) ==
  [x \in DOMAIN new \cup DOMAIN old |-> IF x \in DOMAIN new THEN new[x] ELSE old[x]]

ReadsClock(c) == \E x \in assertion.vars : x[2] = c /\ x[1] \in Clock

\* An iteration of the loop in sim_max_step.
SimCycle ==
  /\ pc = "simulating" /\ cycle <= max_cycle
  /\ (cycle = 0 => ~ given) /\ NamesAt(cycle) \cap syms = {}
  /\ ~ ReadsClock(cycle)
  /\ frame' = SteppedFrame
  /\ now' = IF cycle = 0 THEN now ELSE now + 1
  /\ now' <= MaxFrames
  /\ given' = TRUE
  /\ syms' = syms \cup NamesAt(cycle)
  /\ termmap' = Inserted(Recorded(cycle, SteppedFrame), termmap)
  /\ cycle' = cycle + 1
  /\ UNCHANGED <<design, assertion, base, negated, verdict, checks, pc>>

\* convert, set_input or interpret_state_expr_on_curr_frame refuse: the solver
\* has the symbol, the frame already has an input, the clock was left out.
SimFails ==
  /\ pc = "simulating" /\ cycle <= max_cycle
  /\ \/ cycle = 0 /\ given
     \/ NamesAt(cycle) \cap syms # {}
     \/ ReadsClock(cycle)
  /\ pc' = "thrown"
  /\ UNCHANGED <<sim, assertion, base, cycle, termmap, negated, verdict, checks>>

SimDone ==
  /\ pc = "simulating" /\ cycle > max_cycle
  /\ pc' = "simulated"
  /\ UNCHANGED <<sim, assertion, base, cycle, termmap, negated, verdict, checks>>

\* make_assertion_term: the symbols x@k of the assertion are replaced by the
\* recorded terms.
Substituted == {val \in Valuations : [x \in assertion.vars |-> termmap[x][val]]
                                       \in assertion.holds}

NowNegated == negated \ Substituted

\* assert_formula: on the solver's outermost level.
assert_formula ==
  /\ pc = "simulated"
  /\ negated' = NowNegated
  /\ pc' = "asserted"
  /\ UNCHANGED <<sim, assertion, base, cycle, termmap, verdict, checks>>

check_sat ==
  /\ pc = "asserted"
  /\ verdict' = IF negated = {} THEN "correct" ELSE "counterexample"
  /\ pc' = "answered"
  /\ UNCHANGED <<sim, assertion, base, cycle, termmap, negated, checks>>

\* The caller steps on to check the next assertion from there.
CallerSteps ==
  /\ pc = "answered" /\ given /\ now < MaxFrames /\ checks < MaxChecks
  /\ frame' = NextFrame(cycle - 1)
  /\ now' = now + 1
  /\ given' = FALSE
  /\ pc' = "idle"
  /\ UNCHANGED <<design, syms, assertion, base, cycle, termmap, negated,
                 verdict, checks>>

Init ==
  /\ design \in Designs
  /\ syms = {"r"} \cup Inputs
  /\ now = 0 /\ frame = [val \in Valuations |-> val["r"]] /\ given = FALSE
  /\ assertion = [vars |-> {}, holds |-> {}]
  /\ base = 0 /\ cycle = 0 /\ termmap = <<>>
  /\ negated = Valuations
  /\ verdict = "none" /\ checks = 0 /\ pc = "idle"

Next ==
  \/ \E a \in Assertions : Construct(a)
  \/ SimCycle \/ SimFails \/ SimDone
  \/ assert_formula \/ check_sat \/ CallerSteps

Spec == Init /\ [][Next]_tavars

-----------------------------------------------------------------------------
(***************************************************************************)
(* The runs of the design, defined without the simulator: a register value *)
(* and an input for every frame.                                           *)
(***************************************************************************)
Runs ==
  {run \in [r : [0 .. now -> Values], in : [0 .. now -> InputsAt]] :
     /\ run.r[0] \in design.init
     /\ \A k \in 0 .. now : /\ <<run.r[k], run.in[k]>> \in design.constraint
                            /\ \A v \in Reset : run.in[k][v] = ResetValue
     /\ \A k \in 0 .. now - 1 : run.r[k + 1] = design.next[<<run.r[k], run.in[k]>>]}

True(run) ==
  [x \in assertion.vars |-> IF x[1] = "r" THEN run.r[base + x[2]]
                                          ELSE run.in[base + x[2]][x[1]]]
    \in assertion.holds

AlwaysCorrect == \A run \in Runs : True(run)

\* Everything is of its type.
TATypeOK ==
  /\ now \in 0 .. MaxFrames /\ cycle \in Nat /\ base \in 0 .. now
  /\ frame \in [Valuations -> Values]
  /\ DOMAIN termmap \subseteq assertion.vars
  /\ negated \subseteq Valuations
  /\ verdict \in {"none", "correct", "counterexample"}

\* The loop stops late enough: every variable of the assertion has a term when
\* the term of the assertion is made.
EveryVariableRecorded ==
  pc = "simulated" => DOMAIN termmap = assertion.vars

\* What the first check calls correct holds on all runs, each variable read at
\* its own cycle, however the design is constrained; and where nothing is
\* constrained, what holds on all runs is called correct.
FirstVerdictRight ==
  /\ TATypeOK
  /\ verdict # "none" /\ checks = 1 =>
    /\ verdict = "correct" => AlwaysCorrect
    /\ design.init = Values /\ design.constraint = Values \X InputsAt
         => (AlwaysCorrect => verdict = "correct")
=============================================================================

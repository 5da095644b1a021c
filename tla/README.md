# A TLA+ model of wasim-cpp

wasim-cpp simulates hardware symbolically: a transition system is read from a
BTOR2 file, a simulator substitutes input terms into its update functions step
by step, and a traversal explores all states by branching on a few inputs or
signals and asking an SMT solver about each state it reaches.  This directory
models the parts of that program whose correctness is a matter of *control*:
the simulator's parallel stacks, the search over branching values, the
traversals built on both, the simplification of the states they record and the
child process it runs, the tables of the transition system, the two passes of
the BTOR2 encoder, and the checker of timed assertions.

## 1. The system

| component | code | state | operations |
|---|---|---|---|
| Transition system | `framework/ts.{h,cpp}` | sets of state and input variables, maps between current and next, update functions, init and trans formulas, constraints, named terms | registration (`make_statevar`, `assign_next`, `add_constraint`, ...), `promote_inputvar`, `replace_terms`, `drop_state_updates`, `rebuild_trans_based_on_coi` |
| Symbolic simulator | `framework/symsim.{h,cpp}`, `free_make_symbol` in `term_manip.cpp` | `trace`, `history_choice_`, `history_assumptions_`, `history_assumptions_interp_`, `name_cnt_`, `Xvar_` | `init`, `set_input`, `undo_set_input`, `sim_one_step`, `backtrack`, `get_curr_state`, `set_current_state`, `set_var`; the queries `var`, `cur`, `interpret_state_expr_on_curr_frame` |
| Branching choices | `TraverseBranchingNode`, `PerStateStack` in `framework/symtraverse.{h,cpp}` | stack of valued branching points, `ptr_`, `no_next_choice_` | `next_choice`, `deeper_choice`, `has_valid_choice`, `get_iv_asmpt` |
| Symbolic traversal | `SymbolicTraverse` in `framework/symtraverse.cpp` | `stack_per_state`, `curr_branch`, `all_branches`, `branch_end_flag` | `traverse`, `traverse_one_step` |
| Trace manager | `framework/tracemgr.{h,cpp}` | `abs_state_`, `abs_state_one_step_` | `record_state`, `record_state_nonexisted_in_vec`, `check_reachable`, `check_concrete_enough`, `abs_eq` |
| Independence check | `framework/independence_check.{h,cpp}` | a local solver | `e_is_independent_of_v` |
| State simplification | `framework/state_simplify.cpp` | none | `state_simplify_xvar`: X variables and conditions that the path constraints fix |
| SyGuS simplification | `framework/sygus_simplify.cpp` | files, a child process, a deadline timer | `sygus_simplify`, `run_sygus`, `Process::run` |
| BTOR2 front end | `frontend/btor2_encoder.cpp` | tables from line numbers to terms, names | `preprocess`, `parse` |
| State files, term parsing | `frontend/state_read_write.cpp`, `smt_in.cpp` | files | `StateWrite`, `StateRead`, `return_defs` |
| Timed assertion checker | `timed-assertion-checker/` | a record of a term for each variable@cycle; uses the caller's simulator and solver | `sim_max_step`, `make_assertion_term`, `assert_formula`, `check_sat` |
| Python bindings, logger, example programs | `python/`, `utils/`, `apps/` | wrappers | |

`traverse_manip.*` and `ext/inv_group.*` are in the repository and not in the
build; they use an older interface of the simulator.  `contrib/` and `fmt/` are
vendored, `design/`, `log/` and `output/` are data.

How they interact: everything is a synchronous call on one thread, except for
the cvc5 child process of the SyGuS simplification with its deadline timer.  The
encoder fills a transition system.  The traversal calls the simulator
(`set_input`, `sim_one_step`, `get_curr_state`, `backtrack`, `undo_set_input`),
hands the `StateAsmpt` it gets to the trace manager, moves its own stacks
according to the answer, and in the end simplifies what it recorded, for which
cvc5 is started.  Simulator, trace manager, assertion checker and caller share one
solver, in which all of them make symbols: a name that one of them took is refused
to the others.

What is hard here is not concurrency, with one exception, but *backtracking
without copies*: four stacks of the simulator and four of the traversal are pushed
and popped at different places, an undo relies on a length recorded earlier, a
copy is made by pushing on the live stacks and popping again, and the search
depends on recognising a state that it simulates a second time.  In the other
components it is *tables that must agree*: of the transition system after it was
reduced or rewritten, of the encoder's first pass with its second, of the sorts
that the encoder or the assertion checker computes with those the solver demands.
The exception is `Process::run`, where a deadline races the end of the child.  The
long list of such places, with their lines, is `hazards` in `PROJECT.json`.

What makes each part correct:

* simulator: after any order of calls the stacks belong together, an undo gives
  back exactly what there was, a copied state carries all constraints it depends
  on, and no two unassigned inputs share a symbol; the terms of a frame, and
  what is answered about it, are over values and not over variables of the design;
* branching choices: the search splits the value space of the branching points,
  without gaps or overlap, and ends;
* traversal: it ends, records the states that are reachable under the assumptions
  of the caller and none that is not reachable at all, gives up only when the
  branching points do not determine the next state, and leaves the simulator as it
  found it;
* trace manager: a state that is recorded stands for one value of the base
  variables, and one that is refused is already there;
* simplification: it keeps what the values mean under the path constraints and
  leaves no X; the answer to another problem, or a part of one, is never taken for an
  answer, no child outlives its run, and every run ends;
* transition system: every table agrees with the others after each operation, and
  a reduction removes what it should and no more;
* BTOR2: every line means what the format says, every variable is found under the
  name it has in the source, and no sensible file is refused;
* assertion checker: every variable of the assertion is recorded at its cycle, the
  term means what the assertion says, and the verdict is right.

## 2. The modules

```
SymSim ---> SymSimRefinement --(INSTANCE)--> UndoStack
  |            |    framework/symsim.cpp implements an undo stack
  |            +--> SymSim_proofs
  |
  |  TraceManager   PerStateStack ---> ChoiceSearch
  |         \          /                   |
  +------> Exploration                     |
           /          \                    |
      Traverse    TraverseOneStep          |
           \          |                    |
            +---------+--------------------+--> Traversal_proofs --> Completeness_proofs

FrameQueries --------------------+            queries on the frames of symsim.cpp
                                 +--> Updates_proofs
Btor2Terms --> Btor2Encoder -----+            btor2_encoder.cpp
Simplification                                state_simplify, sygus_simplify
SygusProcess --> SygusProcess_proofs          run_sygus
TransitionSystem --> TransitionSystem_proofs  ts.cpp
AssertionTerm                                 an assertion becomes a term
TimedAssertion --> TimedAssertion_proofs      timed_assertion_checker.cpp

SequenceFacts: lemmas for the proofs

 MC...: instances for TLC
```

**SymSim** is `class SymbolicSimulator`.  Simulation is substitution, so a frame
(a map from state variables to terms) is determined by the assignments that were
substituted so far; a frame is modelled as the sequence of these assignments, and
a path constraint as the formula it comes from together with such a sequence.
Nothing else about terms matters to the stacks.  The four stacks, the counters of
`free_make_symbol`, the X set and the symbols of the shared solver are the
variables, and each public operation that changes them is an action with the
name of the function.  Its guards are the asserts of the code, which are active
in the default build.  `backtrack` is modelled with the one assertion it has
(there is a choice); the *client* in `Next` only calls it when no input is
pending, as symsim.h:128 documents, and `Traverse` is checked to be such a client.
`MakeSymbol` is anybody else who makes a symbol in the solver.  A failed
assertion is a disabled action.

**UndoStack** is the promise: an undo stack that saves full copies.
**SymSimRefinement** computes from the simulator's stacks what would have been
saved, and states that the simulator implements the promise.

**FrameQueries** is what SymSim abstracts from: the terms of the frames, as the
sets of the symbols in them, so that a state variable without an update and the
queries that look into a term can be modelled.  `cur` substitutes into a second
variable of the same name, which is not initialised (symsim.cpp:48): the program
may end there, and otherwise the term is returned as it is.

**PerStateStack** holds the operators of `TraverseBranchingNode` and
`PerStateStack`; **ChoiceSearch** drives them with the loop of the traversals,
under arbitrary answers of the solver.

**TraceManager** gives the queries their meaning.  A *design* maps each node
(value of the state variables) and each cell (value of the inputs) to whether
the constraints allow it, the next node, and the formulas about signals that hold
there; a model assigns a value to each symbol, and the queries quantify over the
models of the path constraints, as the solver does.  `e_is_independent_of_v`
compares two models that differ in one symbol only, as the query with the renamed
copy of one variable does.

**Exploration** has what `traverse` and `traverse_one_step` share
(`get_iv_asmpt`), and the graph of the design that results are compared with: all
of it for what may be recorded, and the part that the assumptions of the caller
admit (`Admitted`, `AdmittedFrom`) for what must be, since each step is simulated
under them.  It also says which designs tie no inputs (`UntiedDesigns`), the condition
of some properties: cells that have the same branching values may be mixed input by
input, and the nodes they lead to have a next cell in common.
**Traverse** and **TraverseOneStep** compose simulator, trace manager and
choices: their loops are cut at the calls of the simulator, and each piece is an
action that performs the action of `SymSim` it calls (the actions of TraverseOneStep
that have a counterpart in Traverse carry its name with an O).  An exception or a failed
`WASIM_CHECK` ends in location `thrown`, with the simulator left where it is.

**Simplification** is the pass over a recorded state: `state_simplify_xvar`, then
`sygus_simplify`, one state variable after the other.  A term is a Boolean syntax
tree and the path constraints are the set of valuations that satisfy them, so that
the solver's queries, the folding of constants by `make_term` and the
function that cvc5 is asked for all have a meaning to compare with.

**SygusProcess** is `run_sygus` with `Process::run`: the files of a timestamp (of
which some are appended to, and one is never removed), the shell and cvc5 in a
child, the deadline timer and the queue of handlers that are ready.  cvc5 answers,
refuses, hangs or is killed at any moment, also when it has written a part of its
answer.  `overlap` lets a second program work
in the same directory.

**TransitionSystem** has one action per call that changes the tables.  A term is a
conjunction of Boolean symbols, written as the set of them: enough to tell which
symbols a formula mentions and whether two formulas are the same.  Since what holds
depends on the calls that are made, a *caller* says which it makes, and properties
name the habits they need (`Never({"replace"})`, for instance).  The guards are those of
the code, which checks less than its comments ask: `set_init` and `constrain_init` take
any term (the check is commented out, ts.cpp:217-236), `constrain_inputs` and `name_term` too,
and `add_statevar(x, x)` registers a variable as its own next state (:402).  A caller
with `"unchecked"` among its operations passes terms that are not meant for them, as the
encoder does (btor2_encoder.cpp:410); `Meant` keeps the others from it.

**Btor2Terms** gives the term each line of a BTOR2 file becomes, with the
conversions between Booleans and bit-vectors and the helper functions of the
overflow flags; a term is its sort and its value under one valuation, or `NoTerm`
where the solver throws.  **Btor2Encoder** is `preprocess` and `parse`, one action
per kind of line.  Its last part says what a file means, independently of
the encoder.

**AssertionTerm** is the way of an assertion from the parser's tree to a term:
`set_node_width` (bottom-up), `update_target_width` (top-down) and `ast2term`.
**TimedAssertion** is the rest of the checker: construction, `sim_max_step`,
substitution, query and verdict, with a simulator and a solver that keep what
earlier checks left in them.

The `_proofs` modules and **SequenceFacts** are the proofs (section 5).
**MCDesigns** is a collection of families of designs.

Operators and actions whose comment starts with "Slip" are not part of the
model.  Each one is a definition with a plausible mistake (a forgotten pop, a
length recorded too late, a value skipped); `mutants` in `PROJECT.json` pairs each
property with one, and substituting it violates the property.

## 3. The runs

| run | question | bounds |
|---|---|---|
| `symsim` | Do the stacks, path constraints, names and symbols stay right under every order of calls, and does the simulator implement an undo stack with full copies? | one state variable and one input, one term and one formula of the caller; frames of at most 3 assignments, 3 symbols per variable, states of at most 3 constraints are installed again |
| `queries` | Are the terms of frames, and what is interpreted on them, over values? | four state variables, one of which has no update and two depend on it; up to 4 frames; every subset of the variables as an expression |
| `choice_search` | Does the loop over choices split the value space, and end? | three branching points of widths 1, 2, 1; every answer of the solver |
| `traverse` | Does `traverse` end, find exactly the reachable nodes and restore the simulator? | four families of designs: two nodes with every constraint, three nodes with every transition function, a second input that is not a branching point, an internal signal as branching point |
| `one_step` | Does `traverse_one_step` find all successors that the caller admits, and each once where no input is tied? | steps from one node to three, two inputs, a signal, dead ends, next inputs that are tied to the last ones, an assumption of the caller that holds of all cells or of half of them |
| `simplify` | Does the simplification of a recorded state keep its meaning and remove the X? | two state variables, two X symbols, one other; some 11800 pairs of values and constraints, with nested conditions; cvc5 answering or not |
| `sygus` | Does every run of cvc5 end, with its child, and with the answer to its own problem? | two runs, two timestamps, in turn or overlapping; answers that are cut off |
| `ts_build` | Do the tables of the transition system agree, whatever is called in whatever order? | eight programs, of up to two state variables and two inputs |
| `btor2` | Does a file become what it says, under the names it says? | every operator at widths 2 and 3 (unary ones and some others at 1) with every value and negation; predicates mixed with bits; some 7000 small designs that name, rename and drop states and outputs |
| `btor2_flags` | expected violation, see section 4 | the constants 1 and -1 at widths 2 to 4 |
| `assertion_term` | Does an assertion become a term that the solver accepts and that means the same? | assertions of depth three over variables of 1, 2 and 3 bits |
| `timed_assertion` | Is every variable recorded at its cycle, and the first verdict right? | one register, a free input, a reset and a clock, cycles 0 to 2, two checks on one simulator |

Several properties are conjunctions of named parts.  A module's type invariant is
a conjunct of the first property that would make no sense without it, so that
each run says in one place what it checks: `FindsReachableNodes`, for instance,
includes `SimulatorRestored`, and `SignalsAreFound` includes
`VariablesAreCalledAsInTheSource`.

*Why the bounds are enough.*  In `symsim` the mistakes to be found are wrong pops
and lengths.  With three assignments in a frame there are two steps that can be
undone one after the other, and a third `set_input` on top of them; a lower frame
with constraints of its own, a frame with none, a pending input and an installed
state all occur together.  Three symbols per variable let a symbol be minted,
withdrawn and minted again past one that somebody else has taken.  `MaxBase`
limits only which copies are installed again, since each copy can double the
constraints of the last.  In `queries` the variable without an update is two
dependencies away from one of the others, and `MaxFrames` leaves three steps for
it to get there.  In `choice_search` the middle point has more than two
values and has a point above and below it, so popping one node, several nodes
and all of them occur.  In the traversals the bound `MaxCnt` is never reached (the
check for deadlock would report it, since the simulator could not go on), nor is
`MaxPath = 4`: a branch has at most three frames and one that is being tried.
Two nodes suffice for self loops, cycles and dead ends, three for a node that is
reached on two branches of different lengths.  In `one_step` the caller's assumption
excludes successors that would otherwise be found, and cells that would leave a
branching point undecided.

In `sygus` two runs suffice, as the files of a timestamp are shared by pairs of
runs, and two timestamps let them differ.  In `ts_build` each program is small
enough to be explored without a bound on its calls, except on the length of
`constraints_`, which `drop_state_updates` can double without end; the programs
differ in their habits because the properties do.  `Builder` and `Reducer` make and
reduce systems, with and without promotions; `Tinkerer`, `Adder` and `Dropper` replace,
add variables of their own and drop updates; `Encoder` constrains init_ over inputs and
`Careless` reduces such a system; the promotions of `Promoter` fail.  In `btor2` a second operator is
needed only to hand a Boolean to an operator that wants a vector; widths 2 and 3
have the extreme numbers, zero and ordinary ones.  In `assertion_term` two levels of
operators below a comparison let a width travel up and down again.  In
`timed_assertion` the second check meets what the first one left in solver and
simulator.

*Deadlock* is checked in both traversal runs: a failed assertion of the simulator
(`set_input` on a pending input, `backtrack` without a choice) would be one.  In
the others it is not: a client may stop calling and the bounds stop it, and a
loop, a file or a child process ends.

*Fairness.*  `ChoiceSearch` assumes weak fairness of its next-state relation: the
loop is straight-line code between solver calls, and a solver call is taken to
return.  `SygusProcess` assumes weak fairness of what the program and its event
loop do and of the deadline, since both run as long as the operating system does,
and nothing of the child: the shell may never start, cvc5 may never answer.
`EveryRunEnds` therefore rests on the deadline.  The traversals assume none.  That
`traverse` ends where no input is tied is stated as a safety property instead, `WorkIsBounded`: the
number of symbols minted, and so of iterations, is bounded by the size of the
design, and there is no deadlock.

## 4. What the runs found

`btor2_flags` violates `OverflowFlagsMeanWhatTheySay`: three of the seven overflow
flags are not what the comments over them say.

* `saddo` (btor2_encoder.cpp:620) is set when "the operands have the same sign"
  and "the sum has another one" are *equal*; the comment (:615) and the format
  mean both.
* `smulo` (:668) multiplies zero-extended operands, so 1 * -1 overflows; its comment
  (:662) is about the signed product.
* `usubo` (:692) is the negated carry of t0 + t1 + 1: the complement of t1 is
  missing from Boolector's expression that its comment (:684) cites.

`btor2` shows that the other operators, the other flags among them, have the values the
format gives them.

Where the code differs from its comments in other ways, the properties are stated
so that they are true of the code, and the condition they need is part of them:

* *Traversal.*  `traverse` returns `abs_state_.size()`, "the total number of
  states" (symtraverse.h:130).  A state is compared with the states of one branch
  only, so a node on two branches is recorded and counted twice.
  `FindsReachableNodes` is about the set.  In `traverse_one_step` a state is
  compared with all, and where no input is tied each is recorded once
  (`RecordsNodesOnce`).
* *Concreteness.*  `check_concrete_enough` is to "check if all base_var in s_in are
  free from Xs" (tracemgr.h:62) and asks for each X alone.  When a constraint ties
  two inputs (a = b), neither can change on its own, both queries succeed, and a
  state that stands for two nodes is recorded.  The same happens with constraints on
  single inputs if those on the next input exclude each other in the two nodes: a copy
  includes that input and its constraints (symsim.cpp:337), so it tells the nodes
  apart and ties the inputs of this step to it.  No node is lost
  by it and no unreachable one recorded, as the theorems show; but entries are no
  longer nodes, a state need not be recognised on its own branch, and `traverse` may go
  on for ever.  TLC shows two ways when the designs of the run `traverse` tie inputs: a
  branch that returns to a node grows with each new input, since the new state is not
  equivalent to the old one for every value of the symbols; and a state that was left is
  new again when its parent repeats the choice, since the choice then has fresh symbols, so
  that it is entered and left again.  `RecordsNodesOnce`, `BranchesAreSimplePaths`,
  `ResimulatedStateIsKnown` and `WorkIsBounded` therefore have the condition `Untied`.
  The run `one_step` has designs with ties; those of `traverse` have none, as it would not
  end.  The simplification has the same
  limit (sygus_simplify.cpp:165): with an X that is tied to
  another symbol it may throw, and `RecordedStatesSimplify` names the condition.
* *Recording.*  `record_state` is to "return true if it is not abstractly
  equivalent to any state" (tracemgr.h:46), but `abs_eq` throws when the path
  constraints of the two states exclude each other.  From a concrete initial state
  that does not happen: the last conjuncts of `FindsReachableNodes` and
  `FindsSuccessors`, which are proved for all designs, say that only exhausted
  branching points end those searches.
* *Queries.*  `cur` substitutes into an uninitialised variable that shadows the term it
  returns (symsim.cpp:48): it fails, or returns its argument, and not "the expression on
  the current frame" (symsim.h:104).  Nothing is claimed of it.
  `interpret_state_expr_on_curr_frame`, for expressions "only over state variables"
  (symsim.h:132), looks at the first free symbol only, so that of mixed expressions some
  are accepted.  `AnswersAreOverValues` is about what it returns: no state variable with an
  update is left, and inputs only of a mixed expression.
* *Transition system.*  `replace_terms` rewrites neither the sets of variables nor
  `constraints_` (ts.cpp:805); `drop_state_updates` repeats constraints (:715); a
  promotion that fails has removed the input (:722), which formulas may still mention
  (`FailedPromotions` in `SymbolsKnown`), and after a successful one a
  reduction primes constraints that were of inputs; a reduction makes a state variable
  without a next state of any other symbol in init_ (:583), which may be an input since
  `set_init` and `constrain_init` check nothing (`KeepsKinds`); `lookup` (ts.h:255) is misled by
  labels that are variable names; `add_statevar` may take for a next state an input
  that an update mentions (:408), and a reduction then puts back an equation over the next
  state of a variable it dropped (the proof of `ReductionIsExact` showed this).  The
  properties name these habits of a caller.
* *Assertion checker.*  `%` is translated to the signed remainder (:537) and a shift
  uses the low bits of its amount (:552).  The negated assertion stays in the solver
  and the path constraints of the simulator are not part of the query (:1097).
  `FirstVerdictRight` is about the first check: what it calls correct is correct, and
  what is correct it calls so where nothing is constrained.
* *SyGuS.*  Files are named after milliseconds and opened to append
  (sygus_simplify.cpp:153): two programs in a directory can take each other's
  answers, which `AnswersAreOwn` excludes.  Where cvc5 ends, or is killed, in the middle of its
  answer, the parser fails an assertion: `AnswersAreOwn` says that it fails on
  nothing else.  A deadline whose handler is queued behind
  `on_exit` terminates a group that is gone (:74), and the exception ends the
  traversal.
* *Encoder.*  An init line for a state without a next line (btor2_encoder.cpp:410)
  constrains what has become an input, which `SymbolicSimulator::init` then takes
  for part of the first path constraint (symsim.cpp:134).  `ts_build` has such a program.
* *State files.*  `StateRead` leaves the end of the first line in the stream
  (state_read_write.cpp:97), so that the first line it parses is empty and
  `return_defs` throws: no file is ever read.

## 5. What is proved

For all constants that satisfy the assumptions of the modules:

| theorem | says | module |
|---|---|---|
| `Invariance` | `Spec => []IInv` | `SymSim_proofs` |
| `TypeCorrect` | `Spec => []TypeOK` | |
| `StacksStayAligned` | `Spec => []StacksAligned` | |
| `ChoicesAlwaysReplay` | `Spec => []ChoicesReplay` | |
| `XSymbolsStayDistinct` | `Spec => []XSymbolsDistinct` | |
| `PathStaysConstrained` | `Spec => []PathIsConstrained` | |
| `SimulatorIsUndoStack` | `Spec => ImplementsUndoStack` | |
| `StackAlwaysFollows` | `CSpec => []StackFollowsPoints` | `Traversal_proofs` |
| `CellsAreSettledOnce` | `CSpec => []EachCellSettledOnce` | |
| `TraversalUsesSimulatorAsDocumented` | `TSpec => UsesSimulatorAsDocumented` (that is, `TSpec => Spec`) | |
| `TraversalKeepsSimulator` | `TSpec => []` of `StacksAligned`, `ChoicesReplay`, `PathIsConstrained`, `XSymbolsDistinct` | |
| `StacksOfSearchStayAligned` | `TSpec => []SearchAligned` | |
| `TraversalRestoresSimulator` | `TSpec => [](loc \in {"skipped", "done"} => SimulatorRestored)` | |
| `OneStepUsesSimulatorAsDocumented` | `OSpec => Spec` | |
| `OneStepRestoresSimulator` | `OSpec => [](loc \in {"skipped", "done"} => SimulatorRestored)` | |
| `OrderlyInvariance` | `Spec => [](IInv /\ Orderly)` | |
| `OnlyReachableNodesAreRecorded` | `TSpec => []RecordsOnlyReachable` | |
| `OnlySuccessorsAreRecorded` | `OSpec => []RecordsOnlySuccessors` | |
| `AllSuccessorsAreRecorded` | `RootsGiven`, `PointsDecide` imply `OSpec => []FindsSuccessors` | `Completeness_proofs` |
| `ReachableNodesAreFound` | `RootsGiven`, `PointsDecide` imply `TSpec => []FindsReachableNodes` | |
| `ChildrenEnd` | `Spec => []NoChildOutlivesRun` | `SygusProcess_proofs` |
| `AnswersStayOwn` | `Spec => []AnswersAreOwn` | |
| `RegistrationHolds` | `Spec => []VariablesAreRegistered` | `TransitionSystem_proofs` |
| `NamesAlwaysAgree` | `Spec => []NamesAgree` | |
| `SymbolsStayKnown` | `Spec => []SymbolsKnown` | |
| `TransStaysRebuildable` | `Spec => []TransIsRebuildable` | |
| `ReductionStaysExact` | `Spec => ReductionIsExact` | |
| `StatesHaveUpdates` | `Spec => []StateVariablesHaveUpdates` | `Updates_proofs` |
| `SignalsAreAlwaysFound` | `Spec => []SignalsAreFound` | |
| `FramesHoldValues` | `QSpec => []TermsOfFramesAreValues` | |
| `AnswersStayOverValues` | `QSpec => []AnswersAreOverValues` | |
| `EveryVariableIsRecorded` | `Spec => []EveryVariableRecorded` | `TimedAssertion_proofs` |
| `FirstVerdictIsRight` | `Spec => []FirstVerdictRight` | |

**Simulator.**  The inductive invariant `IInv` is the conjunction of the type
invariant, the alignment of the stacks, the replay of frames and assumptions, the
parallel names and `RetNamed` (the copied state has a name for each constraint).
None of its parts is inductive alone: that `undo_set_input` leaves a list of the
right type needs the recorded length to be within the list, which is part of the
replay of assumptions; that this survives `backtrack` needs every lower frame to be
as its choice left it; that names stay parallel after `set_current_state` needs
them parallel in the copy, which needs flattening to preserve it.  There is one
lemma per action of the client, and under it one step per part of the invariant.
Assumed is `SymSimAssumption`: bounds are natural numbers, no variable is both
state and input, "init" and "ts" are not formulas of a caller, the terms of a
caller are not symbols the simulator makes, and foreign symbols are among those it
might make.

That symbols are distinct is proved from `IInv` and `SymbolsApart`: the solver has
the symbols of every assignment in force, *and of those in the state copied last*,
which may come into force again by `set_current_state`.  `backtrack` needs no such
provision for the steps it undoes: what it leaves, the replay says, was in force
before.

`PathIsConstrained` is about the frame on top, and `backtrack` brings up a lower
one, so it has to be said of all frames.  It suffices to say it of the first frame
(`AllConstrained`), and of that with what no step back can drop (`Bottom`): every
other frame adds one assignment to the frame below it, and the constraints over
that assignment are, by the replay of assumptions, what the choice between the two
has pushed; so the rest follows by induction over the frames.  A copied state has
to be constrained by its own list, since `set_current_state` makes it a first frame.

That the simulator implements `UndoStack` is shown action by action.  The copies
that the undo stack has saved are computed from the frames up to a choice and the
length that the choice recorded, so an action that leaves those alone leaves the
copies alone (`SavedKeeps`); what remains is that the copy an action saves, or takes
back, is the current state, for which the lists must be what the replay says they
are.  `NoStateAssumption` says that what stands for "no state" is not a state.

**Choices.**  With the values on the stack read as a prefix of a combination,
`next_choice` passes exactly the combinations that the prefix covers: what comes
before the new prefix came before the old one or is covered by it, since the nodes
that are popped are at their last value, and the same holds of the end of the
search, when all are popped.  `BranchingPointAssumption` (widths from 1 to 30) is
what the counter of `next()` needs not to overflow.

**Traversals.**  The specification of `SymSim` lets a client call what it likes, as long
as it follows the documentation; that `traverse` and `traverse_one_step` are such
clients is a refinement, `TSpec => Spec`, and with it every theorem about the
simulator holds while they drive it.  There is a lemma per call (`StepCall`,
`BacktrackCall`, `UndoCall`, ...) that says under which conditions it is a step of
`Next`: an input pending, or none; a choice to take back; inputs and assumptions of
the right type.  The invariants `TInv` and `OInv` are what makes these conditions
true at the place of each call.  `Follows` says of each stack of choices that it
is a prefix of the branching points with values of their widths, whence the terms
and formulas made of it are a caller's (`InputsAreGiven`, `FormulasAreGiven`); the
depth of the simulator is that of the search, and one more while a choice is tried
(`FramesAligned`, `Trying`), so that there is a frame to go back from exactly when
the search goes back; and a stack is asked for another choice only while it has
one.  `OnlyInit`, that the first frame has nothing but the initial constraint below
its first choice, is not an invariant of the simulator, since a client may
install a copied state; the traversals never do, and it is what makes the simulator that they
return the one they were given.  Nothing is assumed of the designs, so all this
holds whatever the solver answers.  `ExplorationAssumption` says that roots, terms
and formulas of branching points are those of a caller, and that the formulas of
all branching signals, with the assumptions, are no more than one call of the model takes
(`MaxPre`).

What they record is sound for every design: `OnlyReachableNodesAreRecorded` and
`OnlySuccessorsAreRecorded`.  The argument has three parts.  A frame is a *path*
(`Formed`): an assignment of the state variables followed by assignments of the
inputs, each with values or with symbols of its own variables.  A state that
`get_curr_state` returned has the constraints over each of its inputs, by
`AllConstrained`, and over one more, the pending input or the one that
`get_curr_state` pushes for the purpose (`Reached`, `CopyGoesOn`); both are invariant
under any use of the simulator (`OrderlyInvariance`).  Under a model of its path
constraints, the nodes that a path goes through are then a walk in the graph of the
design, each step of which is an allowed cell, and from each node of which some
cell is allowed (`PathsAreWalks`); the node that the state stands for is the last of
them.  `NodeOf` is a recursive function with a model as a parameter, which is taken apart by
`FollowExists`.  Last, the frames a traversal copies all begin with the
assignment it was started with (`Recorded`), and in `traverse_one_step` they
have at most one input (`ORecorded`).  Here designs do matter: `IsDesign` (the
transition relation is a function, and allows every cell if the system has no
constraints), that inputs have a value (`TraceManagerAssumption`), and that a caller
starts from nodes or from symbols (`ExplorationAssumption`).  Roots that are left to a
symbol are included: what can be reached is then what can be reached from any
node (`InitialNodes`).  The runs have concrete roots only, as the completeness of
the traversals is about those.

That they find every node is the converse, `AllSuccessorsAreRecorded` and
`ReachableNodesAreFound`, in `Completeness_proofs`.  Two things are supposed of the
caller, which TLC evaluates for the designs of the runs (`Supposed` in MCDesigns): the
simulator starts from values (`RootsGiven`), and each branching point has, under
each cell that is allowed, exactly one of the values of its width (`PointsDecide`),
which is so of any variable of the design that is given with its own width.  Nothing is
supposed of the solver's answers beyond their meaning, and designs with inputs that
are tied by constraints are included.  The argument goes in five steps.

1. *What a state stands for.*  A copied state is described (`Described`) by its path, one
   more input, and the formulas that were asked of each input: its list of path
   constraints has each of them, over the right part of the path, and no others.
   If no two inputs of the path share a symbol, its models are then the *ways* of the design
   (`Way`): a cell for each input that fits it and in which the formulas hold, and the
   nodes that these lead to (`WayIsModel`, `ModelIsWay`).  That symbols are not
   shared is `SymbolsApart` of the simulator.
2. *What a verdict means.*  A state has the models of its path and of one more input,
   which the query for reachability needs.  If no X can change the state on its own
   (`Steady`, which is what `check_concrete_enough` asks: `ConcreteIsSteady`), then two ways that differ in one
   input end alike.  If it is not and no branching point is left, two cells with
   the same values lead to different nodes: the design is `Undetermined`.
3. *One state.*  What the choices so far have passed is `Explored`: each admitted
   cell whose combination of branching values comes before the current prefix
   leads to a node that is dead or in the set that was found.  A choice stands for the
   cells its prefix covers, and those that `next_choice` passes are, by the theorem about
   choices, the ones that were settled; a refined choice passes nothing.  When
   the choices are exhausted, the state is `Closed`: every admitted cell was passed.
4. *Comparison.*  A state that `abs_eq` calls known stands for nodes that the earlier
   state stands for, since each model of the one is part of a common model of both:
   they share the symbols of the inputs that are in force on one branch, and have no
   others in common (`Known`, `Comparable`).  So `abs_eq` never throws.
5. *The branch.*  For `traverse` this is said of each state on the stack
   (`Progress`): what a state's choices have passed leads to recorded nodes, and each
   recorded state that is no longer on the branch is closed.  When a state is left its
   parent simulates the same choice again, with other symbols: the copy has the form of
   the one that was left (`Left`), stands for the same nodes, and is
   recognised, whence the choice is passed.  In the end every recorded state is
   closed, and the recorded nodes contain the root and the admitted successors
   of each node in them, which is all that `AdmittedFrom` asks.

**SyGuS process.**  `NoChildOutlivesRun` is inductive once it speaks of every
location but the event loop (`Childless`): the loop returns only when the child was
reaped, and the one exception that leaves it is thrown because it was.
`AnswersAreOwn` needs to know what is in the files of a timestamp: nothing but
the template while no run uses it (`Clean`), what its own run has written while
that run is alone with it (`Private`), and that the runs of one program do not
overlap (`OneAtATime`).  Assumed is that no run is taken for the absence of a file,
for an empty one or for a part of an answer (`FilesAreDistinct`), and that there is a timestamp
(`ClockAssumption`).

**Transition system.**  `IInv` has four parts: `Registered` (types of the registry,
disjoint kinds, next states that lead back), `Written` (types of the formulas;
`init_` is over symbols of the solver and, for a caller that replaces no terms and passes what is
meant, over state variables: a reduction keeps as state variables those of
`init_` whatever they are), `Named` (representatives are names; no other term has
the name of a variable) and `LookupFindsVariables`.  The last two need each other:
a variable is found because no label took its name first.  The kinds of variables are
claimed for callers that do not both reduce the system and pass what is not meant
(`KeepsKinds`); the types and the representatives of names for all.  `KInv` says of each table what its
formulas are over: registered variables, or inputs whose promotion failed, which
stay those they are (`FailuresStay`), as nothing gives a next state to a variable whose
next name is taken.  Where nobody uses the name of a next state but the registration of
its variable, no promotion fails, which the theorem about trans_ needs.  Assumed is
`NamesAssumption`: next names are symbols other than their variable's and differ
between variables, and programs name symbols.

`TransIsRebuildable` is about a set of formulas that a reduction clears and builds
again, so the invariant says what `trans_` is made of (`MadeOf`): an equation for each
update and each recorded constraint, no less, and for callers that never drop an update
constraints that were primed, no more (`Rebuildable`); for callers that change no kinds,
exactly the constraints that are over state variables are primed (`MadeExactly`);
that current and next names translate back and forth (`NextByName`); and that formulas
of the program are over current symbols (`FormulasApart`), so that an equation is
never taken for a constraint.  `ReductionIsExact` is an action property and follows
from the same invariant: what the cone of influence leaves out is mentioned by no
update that it keeps, and by no constraint, since constraints are in the cone.

**Encoder.**  The invariant (`BInv`) says what the two passes know.  `Scanned(n)`:
the tables of `preprocess` after n lines are what these lines say, the state's name
being that of the *first* output that shows it; at the end of the pass this is what
the whole file says.  `Parsed(n)`: with those tables, the variables and updates that
`parse` has made of n lines are the ones the whole file calls for, and each is named.
Names survive because a name is only ever given to a term when no other has it
(`NamingKeeps`).  Terms stay opaque, so that this holds of files with any operators.
`FilesAssumption` is what the library's parser checks: arguments are earlier
lines, and a next line is about a state.

**Queries.**  A frame is either the first one or made by a step, which inserts the
inputs and the frame below into the updates.  The invariant (`QInv`) says of every
frame that a term has no variable of the design in it unless its variable depends
on one without an update; a step keeps that, since a variable depends on all that the
variables its update mentions depend on.  A term that is interpreted on
such a frame has every state variable replaced that the frame has a term for, and
each frame has one for those with an update (`InterpretedIs`).  `QueriesAssumption` says that states,
inputs and values are apart and that updates mention variables.

**Assertion checker.**  `FirstVerdictIsRight` compares two things that grow with the
frames: the valuations of the symbols, which the solver chooses from, and the
runs of the design.  The invariant (`FInv`) says that each valuation is a run as
far as the simulator went (`ValuationsAreRuns`), that each run is one
(`RunsAreValuations`), and, so that this survives the next cycle, that no term
depends on a symbol of a cycle to come (`TermsOverSymbols`): the inputs of
the next cycle are free to take any value without changing a term that is recorded.
What the first check calls correct holds of all runs; the converse is stated for designs
without init and constraints, as the query contains neither.
That every variable of the assertion has a term (`RecordedSoFar`) needs the
cycle of the loop to be in step with the simulator (`Clocked`).  Assumed is that the
inputs of one cycle have different names, at most one of them being a reset and one a clock
(`InputsAreDistinct`), and that designs are designs over the values
(`DesignsAndAssertions`).

`SequenceFacts` has the facts about sequences.  `FlattenSeq` is a recursive
function, and facts about it need induction; it is done by least counterexample
on sets of numbers (`SetInduction`), which needs no operator parameter.

Only model-checked: `RecordsNodesOnce`, `BranchesAreSimplePaths` and
`ResimulatedStateIsKnown`, which need that under `Untied` a concrete state stands for one
node; `WorkIsBounded`, which rests on them and counts with powers; the simplification and the term of an assertion.
The last two quantify over the meaning of terms that are recursive data, on which the
proof system cannot do induction.  Of the encoder, `MeansWhatItSays`, which is arithmetic with powers of two, and
`DistinctNamesAreAccepted`, which needs the sorts that all operators give.
Operators that take an operator as a parameter, such as `SelectSeq`, are out of
reach of the provers; `ChoiceAssumptions` is therefore written with `FlattenSeq`.
Liveness (`Termination`, `EveryRunEnds`) stays with TLC: the proof system does not
reason about ENABLED.

## 6. What is not modelled

* *Simulator:* `convert` (a renaming, which appears in the assertion checker's
  names), `print` and `tracelen`.
* *Traversal:* state variables that are not base variables, and `remove_base_var`;
  names of the copies made by the independence check.  The pass over recorded states
  is modelled, but not composed with the loops: it works on terms, they on their
  meaning.  Widths above 30 bits, for which the counter of `next()` overflows, are
  excluded by `BranchingPointAssumption`.  `traverse` is entered with no recorded
  state, as symtraverse.h:124 asks: a second call on the same object fails an
  assertion.
* *Simplification:* values of more than one bit.
* *Transition system:* the copy constructor, assignment and `swap` (which exchanges
  all members but `init_constants_` and the property vector, ts.cpp:98; nothing in
  the library assigns a system that has them), sorts, init constants, arrays.
* *BTOR2 front end:* arrays, sort lines, rotations and hexadecimal constants.  The
  BTOR2 parser is a library.
* *Assertion checker:* part selects with variable bounds.  The parser of Verilog
  expressions is a library.  Names of inputs that clash when the cycle is appended
  (cycle 10 of `a`, cycle 0 of `a1`) are excluded by `InputsAreDistinct`.  The run holds
  the reset at 0, as test-tac.cpp does; the theorems are about either value
  (`set_rst_to_0`).
* *State files:* see section 4; there is no behaviour after a file was read.
* *Never:* the SMT solver; the logger and the example programs, which decide
  nothing; the Python bindings, which choose an operation of the solver by the sort of
  the left operand and otherwise forward; code that is not in the build.

The map of the modules covers a tenth of the repository's lines of C++.  Two thirds
of these are vendored (`contrib/`, `fmt/`), and of the rest a half is bindings,
example programs, headers and code that is not built; of the files that hold
the program's logic, the map covers most lines of all but `ts.{h,cpp}`, of which it
covers about half, and the state files.

## 7. Plan

1. (done) SymSim, its abstract specification, choices, traversals, the core
   proofs.
2. (done) TransitionSystem, the encoder, the simplifications with their child
   process, the assertion checker, queries on frames; proofs about symbols,
   choices, the process and the transition system.
3. (done) Proofs of `PathIsConstrained`, of the refinement of `UndoStack`, of
   `SymbolsKnown`, `TransIsRebuildable` and `ReductionIsExact`, of the names and updates
   the encoder makes, of the queries, and of the first verdict; that both
   traversals are clients of the simulator as documented, restore it, and record
   reachable nodes only.
4. (done) Proofs that the traversals find every node that the assumptions admit.
   What remains of them is that a concrete state of a design in `UntiedDesigns` stands for
   one node; then branches are simple paths, and `WorkIsBounded` could be proved along
   `ResimulatedStateIsKnown`.
5. Composition of `Simplification` with the traversals, which needs designs with
   terms for their transitions; base variables as a proper subset of the state
   variables.
6. Assignment and `swap` of transition systems, arrays in the encoder.

-------------------------- MODULE TransitionSystem --------------------------
(***************************************************************************)
(* TransitionSystem: the tables that describe a design, and the calls that *)
(* fill, reduce and rewrite them.                                          *)
(*                                                                         *)
(* A symbol is its name in the solver.  A term is a conjunction of Boolean *)
(* symbols, written as the set of them; init_ and trans_ are the sets of   *)
(* their conjuncts, a conjunct of trans_ being a term or an equality of a  *)
(* next state variable with a term.  A call that throws before it changes  *)
(* anything is a stuttering step; the others keep what they had changed.   *)
(* functional_ is never set, so deterministic_ is always false.            *)
(***************************************************************************)
EXTENDS Naturals, Sequences

CONSTANTS
  Symbol,         \* the names symbols may have
  Base,           \* those a state variable may be made from
  NextName,       \* name + ".next"
  Callers         \* programs: [states, inputs, terms, labels : what they name and
                  \* build, operations : the groups of calls they make,
                  \* constraints : bound on the length of constraints_]
                  \* "unchecked" among the operations: it makes the calls that
                  \* check nothing with other terms than they are meant for

ASSUME NamesAssumption ==
  /\ Base \subseteq Symbol
  /\ NextName \in [Base -> Symbol]
  /\ \A n \in Base : NextName[n] # n
  /\ \A m, n \in Base : NextName[m] = NextName[n] => m = n
  /\ \A c \in Callers : /\ c.states \subseteq Base /\ c.inputs \subseteq Symbol
                         /\ c.terms \subseteq SUBSET Symbol /\ c.constraints \in Nat

VARIABLES
  caller,          \* the program that uses the transition system
  symbols,         \* the symbols of solver_
  statevars_, next_statevars_, inputvars_,
  next_map_, curr_map_,
  state_updates_,
  init_, trans_,
  constraints_,    \* sequence of [term, everywhere]
  named_terms_, term_to_name_

registry == <<symbols, statevars_, next_statevars_, inputvars_>>
maps == <<next_map_, curr_map_>>
names == <<named_terms_, term_to_name_>>
logic == <<state_updates_, init_, trans_, constraints_>>
tsvars == <<caller, registry, maps, names, logic>>

Put(f, k, v) == [x \in DOMAIN f \cup {k} |-> IF x = k THEN v ELSE f[x]]
Keep(f, S) == [x \in DOMAIN f \cap S |-> f[x]]
Apply(m, x) == IF x \in DOMAIN m THEN m[x] ELSE x
Substitute(t, m) == {Apply(m, x) : x \in t}

Equal(n, t) == [lhs |-> {n}, rhs |-> t]
Holds(t) == [lhs |-> {}, rhs |-> t]
Mentions(c) == c.lhs \cup c.rhs

only_curr(t) == t \subseteq statevars_
no_next(t) == t \subseteq statevars_ \cup inputvars_
known_symbols(t) == t \subseteq statevars_ \cup inputvars_ \cup next_statevars_
-----------------------------------------------------------------------------
\* name_term: a name is never given to a second term.
CanName(n, t) == n \in DOMAIN named_terms_ => named_terms_[n] = t

name_term(n, t) ==
  /\ CanName(n, t)
  /\ named_terms_' = Put(named_terms_, n, t)
  /\ term_to_name_' = Put(term_to_name_, t, n)

\* The names add_statevar has given when it returns or throws.
Namable(vs, first) == IF CanName(first, {first})
                        THEN {v \in vs : CanName(v, {v})} ELSE {}

NameVariables(vs) ==
  /\ named_terms_' = [x \in DOMAIN named_terms_ \cup vs |->
                        IF x \in vs THEN {x} ELSE named_terms_[x]]
  /\ term_to_name_' = [t \in DOMAIN term_to_name_ \cup {{x} : x \in vs} |->
                         IF \E x \in vs : t = {x} THEN CHOOSE x \in vs : t = {x}
                                                  ELSE term_to_name_[t]]

\* add_inputvar, after make_symbol or for a symbol of the solver.
add_inputvar(v) ==
  /\ v \notin statevars_ \cup next_statevars_ \cup inputvars_
  /\ inputvars_' = inputvars_ \cup {v}
  /\ NameVariables(Namable({v}, v))
  /\ UNCHANGED <<statevars_, next_statevars_, maps, logic>>

make_inputvar(n) ==
  /\ n \notin symbols
  /\ symbols' = symbols \cup {n}
  /\ add_inputvar(n)

Redeclared(cv, nv) ==
  \/ cv \in statevars_ \cup next_statevars_
  \/ nv \in statevars_ \cup next_statevars_

\* Slip: an input that becomes a state variable stays an input.
RegisterWithoutErasing(cv, nv, inputs) ==
  /\ inputvars_' = inputvars_
  /\ statevars_' = statevars_ \cup {cv}
  /\ next_statevars_' = next_statevars_ \cup {nv}
  /\ next_map_' = Put(next_map_, cv, nv)
  /\ curr_map_' = Put(curr_map_, nv, cv)
  /\ NameVariables(Namable({cv, nv}, cv))

\* The tail of add_statevar; inputs is what inputvars_ was when it is called.
Register(cv, nv, inputs) ==
  /\ inputvars_' = inputs \ {cv, nv}
  /\ statevars_' = statevars_ \cup {cv}
  /\ next_statevars_' = next_statevars_ \cup {nv}
  /\ next_map_' = Put(next_map_, cv, nv)
  /\ curr_map_' = Put(curr_map_, nv, cv)
  /\ NameVariables(Namable({cv, nv}, cv))

\* Nothing keeps a program from registering a variable as its own next state.
add_statevar(cv, nv) ==
  /\ ~Redeclared(cv, nv)
  /\ Register(cv, nv, inputvars_)
  /\ UNCHANGED <<symbols, logic>>

\* make_statevar: the symbol stays in the solver when that of the next state
\* cannot be made.
make_statevar(n) ==
  /\ n \notin symbols
  /\ \/ /\ NextName[n] \in symbols
        /\ symbols' = symbols \cup {n}
        /\ UNCHANGED <<statevars_, next_statevars_, inputvars_, maps, names>>
     \/ /\ NextName[n] \notin symbols
        /\ ~Redeclared(n, NextName[n])
        /\ symbols' = symbols \cup {n, NextName[n]}
        /\ Register(n, NextName[n], inputvars_)
  /\ UNCHANGED logic

\* promote_inputvar: the input is erased first, whatever follows.
promote_inputvar(iv) ==
  /\ iv \in inputvars_
  /\ LET nv == NextName[iv] IN
     IF nv \in symbols \/ Redeclared(iv, nv)
       THEN /\ symbols' = symbols \cup {nv}
            /\ inputvars_' = inputvars_ \ {iv}
            /\ UNCHANGED <<statevars_, next_statevars_, maps, names>>
       ELSE /\ symbols' = symbols \cup {nv}
            /\ Register(iv, nv, inputvars_ \ {iv})
  /\ UNCHANGED logic
-----------------------------------------------------------------------------
\* The check of only_curr is commented out in both: any term is taken.
set_init(t) ==
  /\ init_' = {t}
  /\ UNCHANGED <<registry, maps, names, state_updates_, trans_, constraints_>>

constrain_init(t) ==
  /\ init_' = init_ \cup {t}
  /\ UNCHANGED <<registry, maps, names, state_updates_, trans_, constraints_>>

\* assign_next: state_updates_ is written before next_map_.at may throw.
assign_next(s, t) ==
  /\ s \in statevars_ \ DOMAIN state_updates_
  /\ no_next(t)
  /\ state_updates_' = Put(state_updates_, s, t)
  /\ trans_' = trans_ \cup {Equal(next_map_[x], t) : x \in {s} \cap DOMAIN next_map_}
  /\ UNCHANGED <<registry, maps, names, init_, constraints_>>

Constraint(t, b) == [term |-> t, everywhere |-> b]

\* What add_constraint adds to init_ and to trans_.
ToInit(c) == IF only_curr(c.term) /\ c.everywhere THEN {c.term} ELSE {}

ToTrans(c) ==
  {Holds(c.term)} \cup {Holds(Substitute(t, next_map_)) : t \in ToInit(c)}

\* Slip: the constraint is not recorded.
AddsUnrecorded(t, b) ==
  /\ no_next(t)
  /\ init_' = init_ \cup ToInit(Constraint(t, b))
  /\ trans_' = trans_ \cup ToTrans(Constraint(t, b))
  /\ UNCHANGED <<registry, maps, names, state_updates_, constraints_>>

add_constraint(t, b) ==
  /\ no_next(t)
  /\ init_' = init_ \cup ToInit(Constraint(t, b))
  /\ trans_' = trans_ \cup ToTrans(Constraint(t, b))
  /\ constraints_' = Append(constraints_, Constraint(t, b))
  /\ UNCHANGED <<registry, maps, names, state_updates_>>

add_invar(t) == only_curr(t) /\ add_constraint(t, TRUE)

constrain_inputs(t) ==
  /\ no_next(t)
  /\ trans_' = trans_ \cup {Holds(t)}
  /\ constraints_' = Append(constraints_, Constraint(t, TRUE))
  /\ UNCHANGED <<registry, maps, names, state_updates_, init_>>
-----------------------------------------------------------------------------
EquationsOf(upd) ==
  {Equal(next_map_[s], upd[s]) : s \in DOMAIN upd \cap DOMAIN next_map_}

\* Re-adding the first k constraints, the next one being refused.
Readds(k) ==
  /\ \A i \in 1 .. k : no_next(constraints_[i].term)
  /\ k < Len(constraints_) => ~no_next(constraints_[k + 1].term)

Readded(k) == {constraints_[i] : i \in 1 .. k}

\* The sets that the caller of rebuild_trans_based_on_coi computes: closed under
\* the updates, and with the variables of all constraints.
InCone(S, I) ==
  /\ S \subseteq statevars_ /\ I \subseteq inputvars_
  /\ \A s \in S \cap DOMAIN state_updates_ :
       state_updates_[s] \cap (statevars_ \cup inputvars_) \subseteq S \cup I
  /\ \A i \in DOMAIN constraints_ :
       constraints_[i].term \cap (statevars_ \cup inputvars_) \subseteq S \cup I

\* Slip: the variables of init are not added back.
KeptWithoutInit(S, ini) == S

\* statevars_ after the reduction.
Kept(S, ini) == S \cup UNION ini

\* Slip: the name of a next state variable is looked up as it is.
NamesOfCurrent(vars) ==
  {n \in DOMAIN named_terms_ : named_terms_[n] \subseteq vars}

NamesOver(vars) ==
  {n \in DOMAIN named_terms_ :
     \A v \in named_terms_[n] : Apply(curr_map_, v) \in vars}

\* Slip: the constraints are put back unprimed.
TransUnprimed(S, cs) ==
  EquationsOf(Keep(state_updates_, S)) \cup {Holds(c.term) : c \in cs}

TransOf(S, cs) ==
  EquationsOf(Keep(state_updates_, S)) \cup UNION {ToTrans(c) : c \in cs}

\* next_map_.at throws while trans_ is rebuilt.
TransCutShort(S) ==
  /\ ~(S \cap DOMAIN state_updates_ \subseteq DOMAIN next_map_)
  /\ trans_' \in SUBSET EquationsOf(Keep(state_updates_, S))
  /\ UNCHANGED <<init_, constraints_>>

ReaddedFirst(k) ==
  /\ Readds(k)
  /\ init_' = init_ \cup UNION {ToInit(c) : c \in Readded(k)}

\* add_constraint throws and leaves the constraints that follow forgotten.
ReaddedPart ==
  \E k \in 0 .. Len(constraints_) - 1 :
     ReaddedFirst(k) /\ constraints_' = SubSeq(constraints_, 1, k)

ReaddedAll == ReaddedFirst(Len(constraints_))

rebuild_trans_based_on_coi(S, I) ==
  /\ InCone(S, I)
  /\ UNCHANGED <<symbols, next_statevars_, maps>>
  /\ \/ /\ TransCutShort(S)
        /\ UNCHANGED <<statevars_, inputvars_, state_updates_, names>>
     \/ /\ S \cap DOMAIN state_updates_ \subseteq DOMAIN next_map_
        /\ ReaddedPart
        /\ trans_' = TransOf(S, Readded(Len(constraints_')))
        /\ UNCHANGED <<statevars_, inputvars_, state_updates_, names>>
     \/ /\ S \cap DOMAIN state_updates_ \subseteq DOMAIN next_map_
        /\ ReaddedAll
        /\ trans_' = TransOf(S, Readded(Len(constraints_)))
        /\ statevars_' = Kept(S, init_')
        /\ inputvars_' = I
        /\ state_updates_' = Keep(state_updates_, S)
        /\ named_terms_' = Keep(named_terms_, NamesOver(statevars_' \cup I))
        /\ term_to_name_' =
             Keep(term_to_name_, {named_terms_[n] : n \in DOMAIN named_terms_'})
        /\ UNCHANGED constraints_

\* drop_state_updates: throws when the list goes on with something else than a
\* state variable.  The last loop appends to the vector it runs over; where this
\* does not crash the program, the constraints it came to are there twice: all
\* of them, or those before the first that add_constraint refuses.
drop_state_updates(D) ==
  LET rest == DOMAIN state_updates_ \ D IN
  /\ D \subseteq statevars_
  /\ state_updates_' = Keep(state_updates_, rest)
  /\ \/ UNCHANGED <<init_, trans_, constraints_>>
     \/ TransCutShort(rest)
     \/ /\ rest \subseteq DOMAIN next_map_
        /\ \E k \in 0 .. Len(constraints_) :
             /\ ReaddedFirst(k)
             /\ trans_' = TransOf(rest, Readded(k))
             /\ constraints_' = constraints_ \o SubSeq(constraints_, 1, k)
  /\ UNCHANGED <<registry, maps, names>>

\* replace_terms for one symbol and a fresh input, its recommended usage: init_
\* is rewritten before it is checked, constraints_ are copied as they are.
replace_terms(x, y) ==
  LET m == [z \in {x} |-> y] IN
  /\ known_symbols({x}) /\ x # y
  /\ y \in inputvars_
  /\ y \notin DOMAIN next_map_ \cup DOMAIN curr_map_ \cup DOMAIN state_updates_
  /\ init_' = {Substitute(t, m) : t \in init_}
  /\ IF ~(UNION init_' \subseteq statevars_)
       THEN UNCHANGED <<maps, names, state_updates_, trans_>>
       ELSE /\ trans_' = {[lhs |-> Substitute(c.lhs, m),
                           rhs |-> Substitute(c.rhs, m)] : c \in trans_}
            /\ named_terms_' = [n \in DOMAIN named_terms_ |-> Substitute(named_terms_[n], m)]
            /\ term_to_name_' \in
                 [{Substitute(named_terms_[n], m) : n \in DOMAIN named_terms_} ->
                  {term_to_name_[named_terms_[n]] : n \in DOMAIN named_terms_}]
            /\ \A t \in DOMAIN term_to_name_' :
                 \E n \in DOMAIN named_terms_ :
                    /\ t = Substitute(named_terms_[n], m)
                    /\ term_to_name_'[t] = term_to_name_[named_terms_[n]]
            /\ state_updates_' =
                 [z \in Substitute(DOMAIN state_updates_, m) |->
                    Substitute(state_updates_[IF z = y THEN x ELSE z], m)]
            /\ next_map_' =
                 [z \in Substitute(DOMAIN next_map_, m) |->
                    Apply(m, next_map_[IF z = y THEN x ELSE z])]
            /\ curr_map_' =
                 [z \in Substitute(DOMAIN curr_map_, m) |->
                    Apply(m, curr_map_[IF z = y THEN x ELSE z])]
  /\ UNCHANGED <<registry, constraints_>>
-----------------------------------------------------------------------------
Init ==
  /\ caller \in Callers
  /\ symbols = {} /\ statevars_ = {} /\ next_statevars_ = {} /\ inputvars_ = {}
  /\ next_map_ = <<>> /\ curr_map_ = <<>> /\ state_updates_ = <<>>
  /\ init_ = {} /\ trans_ = {} /\ constraints_ = <<>>
  /\ named_terms_ = <<>> /\ term_to_name_ = <<>>

\* The calls that check nothing take what they are meant for, unless the program
\* is careless: init_ over current states, constraints over inputs, names of
\* terms without next states.
Meant(fits, t) == t \subseteq symbols /\ (fits \/ "unchecked" \in caller.operations)

AddConstraints ==
  /\ Len(constraints_) < caller.constraints
  /\ \E t \in caller.terms :
       \/ \E b \in BOOLEAN : add_constraint(t, b)
       \/ add_invar(t)
       \/ Meant(~only_curr(t), t) /\ constrain_inputs(t)

NameTerm ==
  \E n \in caller.labels, t \in caller.terms :
     /\ Meant(no_next(t), t) /\ name_term(n, t)
     /\ UNCHANGED <<registry, maps, logic>>

InitTerm ==
  \E t \in caller.terms :
     Meant(only_curr(t), t) /\ (set_init(t) \/ constrain_init(t))

Rebuild == \E S \in SUBSET statevars_, I \in SUBSET inputvars_ :
             rebuild_trans_based_on_coi(S, I)

Step ==
  \/ \E n \in caller.inputs : make_inputvar(n)
  \/ \E n \in caller.states : make_statevar(n)
  \/ InitTerm
  \/ \E s \in statevars_, t \in caller.terms : assign_next(s, t)
  \/ AddConstraints
  \/ "name" \in caller.operations /\ NameTerm
  \/ "rebuild" \in caller.operations /\ Rebuild
  \/ /\ "add" \in caller.operations
     /\ \/ \E v \in symbols : add_inputvar(v) /\ UNCHANGED symbols
        \/ \E cv, nv \in symbols : add_statevar(cv, nv)
  \/ "promote" \in caller.operations /\ \E iv \in inputvars_ \cap caller.states : promote_inputvar(iv)
  \/ /\ "drop" \in caller.operations
     /\ Len(constraints_) <= caller.constraints
     /\ \E D \in SUBSET statevars_ : drop_state_updates(D)
  \/ "replace" \in caller.operations /\ \E x, y \in Symbol : replace_terms(x, y)

Next == Step /\ UNCHANGED caller

Spec == Init /\ [][Next]_tsvars
-----------------------------------------------------------------------------
\* The tables hold what their types say, and registered variables are symbols of
\* the solver.
Conjuncts == [lhs : SUBSET Symbol, rhs : SUBSET Symbol]

PartialMap(f, S, T) == DOMAIN f \subseteq S /\ \A x \in DOMAIN f : f[x] \in T

TSTypeOK ==
  /\ symbols \subseteq Symbol
  /\ statevars_ \cup next_statevars_ \cup inputvars_ \subseteq symbols
  /\ PartialMap(next_map_, Symbol, Symbol) /\ PartialMap(curr_map_, Symbol, Symbol)
  /\ PartialMap(state_updates_, Symbol, SUBSET Symbol)
  /\ init_ \subseteq SUBSET Symbol /\ trans_ \subseteq Conjuncts
  /\ constraints_ \in Seq([term : SUBSET Symbol, everywhere : BOOLEAN])
  /\ PartialMap(named_terms_, Symbol \cup caller.labels, SUBSET Symbol)
  /\ PartialMap(term_to_name_, SUBSET Symbol, Symbol \cup caller.labels)

\* What holds depends on the calls the program makes: replace_terms rewrites the
\* maps and formulas but neither the sets of variables nor constraints_;
\* add_statevar may take an input that formulas mention for a next state;
\* drop_state_updates repeats constraints.
Never(calls) == caller.operations \cap calls = {}

\* What init_ mentions becomes a state variable in a reduction, whatever it was
\* before: an input stays one (the encoder constrains init_ over inputs), and has
\* no next state.  Kinds are kept by programs that do not do both.
KeepsKinds == Never({"replace"}) /\ (Never({"unchecked"}) \/ Never({"rebuild"}))

\* No variable has the name of a next state variable: no promotion fails.
NextNamesAreFree ==
  (caller.inputs \cup caller.states) \cap {NextName[n] : n \in Base} = {}

\* Each symbol has one role: it is the state, next state or input variable that
\* its registration made it (the refusals of add_statevar and add_inputvar, the
\* erasure of inputs that become state variables); only a program that registers
\* a variable as its own next state has one with two.
KindsAreDisjoint ==
  KeepsKinds =>
    /\ inputvars_ \cap (statevars_ \cup next_statevars_) = {}
    /\ \A s \in statevars_ \cap next_statevars_ :
         "add" \in caller.operations /\ s \in DOMAIN next_map_ /\ next_map_[s] = s

\* Each state variable has a next state variable, and curr_map_ leads back: what
\* next_map_.at in assign_next and in both rebuilds relies on, and the assertion
\* of replace_terms.
StatesHaveNext ==
  KeepsKinds =>
   \A s \in statevars_ :
     /\ s \in DOMAIN next_map_
     /\ next_map_[s] \in next_statevars_
     /\ next_map_[s] \in DOMAIN curr_map_ /\ curr_map_[next_map_[s]] = s

\* Registration gives every variable one role and every state a next state, for
\* programs that do not replace terms, nor reduce a system with init_ over other
\* symbols than current states.
VariablesAreRegistered == TSTypeOK /\ KindsAreDisjoint /\ StatesHaveNext

\* The inputs whose promotion failed because their next name was taken: erased
\* before the name is tried, they are neither input nor state.
FailedPromotions ==
  IF "promote" \in caller.operations
    THEN {x \in (Base \cap symbols) \ DOMAIN next_map_ : NextName[x] \in symbols}
    ELSE {}

\* No formula of the system mentions a symbol that is not registered ("TS is
\* ill-formed (e.g. init will contain unknown symbols)", the comment of the
\* reduction), except the inputs whose promotion failed; init_ and the names are
\* over registered variables where the program passes what is meant for them.
\* Said of programs that call neither replace_terms nor add_statevar.
SymbolsKnown ==
  KeepsKinds /\ Never({"add"}) =>
    LET Known(t) == known_symbols(t \ FailedPromotions)
        NoNext(t) == no_next(t \ FailedPromotions)
    IN /\ \A c \in trans_ : Known(Mentions(c))
       /\ \A s \in DOMAIN state_updates_ : s \in statevars_ /\ NoNext(state_updates_[s])
       /\ \A i \in DOMAIN constraints_ : NoNext(constraints_[i].term)
       /\ Never({"unchecked"}) =>
            /\ UNION init_ \subseteq statevars_
            /\ \A n \in DOMAIN named_terms_ : Known(named_terms_[n])

\* trans_ contains every update and every constraint, and where no updates are
\* dropped nothing else but constraints primed: "you could now rebuild trans by
\* AND-ing together all the equalities from state_updates_ and these
\* constraints".  (drop_state_updates may throw before it rebuilds trans_; a
\* reduction that throws forgets updates, which a failed promotion can cause.)
TransIsRebuildable ==
  KeepsKinds /\ Never({"add"}) /\ NextNamesAreFree =>
  LET eqs == {Equal(next_map_[s], state_updates_[s]) :
                s \in DOMAIN state_updates_ \cap DOMAIN next_map_}
      cs == {constraints_[i] : i \in DOMAIN constraints_}
      now == {Holds(c.term) : c \in cs}
      primed == {Holds(Substitute(c.term, next_map_)) : c \in {d \in cs : d.everywhere}}
  IN /\ eqs \cup now \subseteq trans_
     /\ Never({"drop"}) => trans_ \subseteq eqs \cup now \cup primed

\* term_to_name_.at in the reduction and in replace_terms never throws, and the
\* representative of a term is one of its names.
RepresentativesAreNames ==
  /\ \A n \in DOMAIN named_terms_ : named_terms_[n] \in DOMAIN term_to_name_
  /\ \A t \in DOMAIN term_to_name_ :
       term_to_name_[t] \in DOMAIN named_terms_ /\ named_terms_[term_to_name_[t]] = t

\* lookup finds every variable under its own name ("searches current and next
\* state variables, inputs, and named terms"), where labels are not names of
\* variables.
LookupFindsVariables ==
  KeepsKinds /\ caller.labels \cap Symbol = {} =>
  \A v \in statevars_ \cup {next_map_[s] : s \in statevars_ \cap DOMAIN next_map_}
             \cup inputvars_ :
     v \in DOMAIN named_terms_ /\ named_terms_[v] = {v}

\* Names and variables find each other, in both directions.
NamesAgree == RepresentativesAreNames /\ LookupFindsVariables

\* A state variable that the reduction keeps for init_ alone, and which loses its
\* update, is not in trans_ any more ("variables in init that are not in the COI
\* only appear in init").  (add_statevar may take for its next state an input that
\* an update mentions, and the reduction puts that update back.)
KeptForInitOnly ==
  [][KeepsKinds /\ Never({"add"}) =>
     \A s \in statevars_' \cap DOMAIN state_updates_ :
       Rebuild /\ s \notin DOMAIN state_updates_'
         => \A c \in trans_' : s \notin Mentions(c) /\ next_map_[s] \notin Mentions(c)]_tsvars

\* A reduction that keeps every variable leaves trans_ as it is: updates and
\* constraints are put back as they were added.  Said of programs that pass to
\* set_init, constrain_init and constrain_inputs what is meant for them, and do
\* not promote: an input that has become a state variable, through a promotion or
\* because init_ mentions it, makes the reduction prime constraints that were of
\* inputs when they were added.
FullConeKeepsTrans ==
  [][Never({"replace", "add", "drop", "promote", "unchecked"}) =>
       (rebuild_trans_based_on_coi(statevars_, inputvars_) => UNCHANGED trans_)]_tsvars

\* The reduction removes what it is asked to remove and no more.
ReductionIsExact == KeptForInitOnly /\ FullConeKeepsTrans
=============================================================================

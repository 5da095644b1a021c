---------------------- MODULE TransitionSystem_proofs ----------------------
(***************************************************************************)
(* What the tables of TransitionSystem promise to every program that calls *)
(* it: that each variable has one role, that every state variable has a    *)
(* next state variable, that representatives of names are names, that      *)
(* variables are found under their names, that formulas mention registered *)
(* variables only, and that trans_ is made of the updates and constraints. *)
(***************************************************************************)
EXTENDS TransitionSystem, TLAPS, SequenceTheorems

\* A reduction keeps the variables of init_, which are state variables.
InitOverStates ==
  Never({"replace", "unchecked"}) => UNION init_ \subseteq statevars_

CurrentOfNext == KeepsKinds => DOMAIN curr_map_ \subseteq next_statevars_

\* No other term takes the name of a variable.
SymbolsNameThemselves ==
  Never({"replace"}) /\ caller.labels \cap Symbol = {} =>
     \A n \in DOMAIN named_terms_ \cap Symbol : named_terms_[n] = {n}

RegistryTyped ==
  /\ symbols \subseteq Symbol
  /\ statevars_ \cup next_statevars_ \cup inputvars_ \subseteq symbols
  /\ PartialMap(next_map_, Symbol, Symbol) /\ PartialMap(curr_map_, Symbol, Symbol)

LogicTyped ==
  /\ PartialMap(state_updates_, Symbol, SUBSET Symbol)
  /\ init_ \subseteq SUBSET Symbol /\ trans_ \subseteq Conjuncts
  /\ constraints_ \in Seq([term : SUBSET Symbol, everywhere : BOOLEAN])

NamesTyped ==
  /\ PartialMap(named_terms_, Symbol \cup caller.labels, SUBSET Symbol)
  /\ PartialMap(term_to_name_, SUBSET Symbol, Symbol \cup caller.labels)

\* The parts of the invariant, by the tables they are about.
Registered == RegistryTyped /\ KindsAreDisjoint /\ StatesHaveNext /\ CurrentOfNext
Written == LogicTyped /\ UNION init_ \subseteq symbols /\ InitOverStates
Named == NamesTyped /\ RepresentativesAreNames /\ SymbolsNameThemselves

IInv == caller \in Callers /\ Registered /\ Written /\ Named /\ LookupFindsVariables

\* A program that reduces, and keeps kinds, constrains init_ over states only.
LEMMA ReducersCheck ==
  ASSUME KeepsKinds, "rebuild" \in caller.operations
  PROVE  Never({"replace", "unchecked"})
BY DEF KeepsKinds, Never

LEMMA Parts == IInv => TSTypeOK
BY DEF IInv, Registered, RegistryTyped, Written, LogicTyped, Named, NamesTyped, TSTypeOK
-----------------------------------------------------------------------------
(***************************************************************************)
(* Terms                                                                   *)
(***************************************************************************)
LEMMA PutTypes ==
  ASSUME NEW f, NEW S, NEW T, PartialMap(f, S, T), NEW k \in S, NEW v \in T
  PROVE  PartialMap(Put(f, k, v), S, T)
BY DEF PartialMap, Put

LEMMA KeepTypes ==
  ASSUME NEW f, NEW S, NEW T, PartialMap(f, S, T), NEW K
  PROVE  PartialMap(Keep(f, K), S, T)
BY DEF PartialMap, Keep

LEMMA SubstituteTypes ==
  ASSUME NEW m, PartialMap(m, Symbol, Symbol), NEW t \in SUBSET Symbol
  PROVE  Substitute(t, m) \in SUBSET Symbol
BY DEF PartialMap, Substitute, Apply

LEMMA HoldsTypes ==
  ASSUME NEW t \in SUBSET Symbol
  PROVE  Holds(t) \in Conjuncts
BY DEF Holds, Conjuncts

LEMMA EquationsTypes ==
  ASSUME PartialMap(next_map_, Symbol, Symbol),
         NEW upd, PartialMap(upd, Symbol, SUBSET Symbol)
  PROVE  EquationsOf(upd) \subseteq Conjuncts
<1>1. ASSUME NEW s \in DOMAIN upd \cap DOMAIN next_map_
      PROVE  Equal(next_map_[s], upd[s]) \in Conjuncts
  BY DEF PartialMap, Equal, Conjuncts
<1> QED BY <1>1 DEF EquationsOf

LEMMA ToTransTypes ==
  ASSUME PartialMap(next_map_, Symbol, Symbol),
         NEW c, c.term \in SUBSET Symbol
  PROVE  ToTrans(c) \subseteq Conjuncts
<1>1. Holds(c.term) \in Conjuncts
  BY HoldsTypes
<1>2. \A t \in ToInit(c) : Holds(Substitute(t, next_map_)) \in Conjuncts
  BY SubstituteTypes, HoldsTypes DEF ToInit
<1> QED BY <1>1, <1>2 DEF ToTrans

LEMMA TransOfTypes ==
  ASSUME PartialMap(next_map_, Symbol, Symbol),
         PartialMap(state_updates_, Symbol, SUBSET Symbol),
         NEW S, NEW cs, \A c \in cs : c.term \in SUBSET Symbol
  PROVE  TransOf(S, cs) \subseteq Conjuncts
<1>1. EquationsOf(Keep(state_updates_, S)) \subseteq Conjuncts
  BY KeepTypes, EquationsTypes
<1>2. UNION {ToTrans(c) : c \in cs} \subseteq Conjuncts
  BY ToTransTypes
<1> QED BY <1>1, <1>2 DEF TransOf

\* What a constraint adds to init_ is over state variables.
LEMMA ToInitOverStates ==
  ASSUME NEW c, NEW t \in ToInit(c)
  PROVE  t \subseteq statevars_ /\ t = c.term
BY DEF ToInit, only_curr
-----------------------------------------------------------------------------
(***************************************************************************)
(* Names                                                                   *)
(***************************************************************************)

\* Naming variables renames nothing, and keeps the representatives.
LEMMA NamableKeeps ==
  ASSUME NEW vs \in SUBSET Symbol, NEW first \in vs,
         NameVariables(Namable(vs, first)), Named, UNCHANGED caller
  PROVE  /\ Named'
         /\ \A n \in DOMAIN named_terms_ :
              n \in DOMAIN named_terms_' /\ named_terms_'[n] = named_terms_[n]
         /\ Never({"replace"}) /\ caller.labels \cap Symbol = {} =>
              \A v \in vs : v \in DOMAIN named_terms_' /\ named_terms_'[v] = {v}
<1> DEFINE ns == Namable(vs, first)
<1>1. ns \subseteq vs /\ \A v \in ns : CanName(v, {v})
  BY DEF Namable
<1>2. /\ named_terms_' = [x \in DOMAIN named_terms_ \cup ns |->
                            IF x \in ns THEN {x} ELSE named_terms_[x]]
      /\ term_to_name_' = [t \in DOMAIN term_to_name_ \cup {{x} : x \in ns} |->
                             IF \E x \in ns : t = {x} THEN CHOOSE x \in ns : t = {x}
                                                      ELSE term_to_name_[t]]
  BY DEF NameVariables
<1>3. Never({"replace"}) /\ caller.labels \cap Symbol = {} => ns = vs
  BY DEF Named, SymbolsNameThemselves, Namable, CanName
<1> HIDE DEF ns
<1>4. \A n \in DOMAIN named_terms_ :
        n \in DOMAIN named_terms_' /\ named_terms_'[n] = named_terms_[n]
  BY <1>1, <1>2 DEF CanName
<1>5. \A v \in ns : v \in DOMAIN named_terms_' /\ named_terms_'[v] = {v}
  BY <1>2
<1>6. \A n \in DOMAIN named_terms_' : n \in DOMAIN named_terms_ \/ n \in ns
  BY <1>2
<1>7. ASSUME NEW t \in DOMAIN term_to_name_'
      PROVE  \/ \E x \in ns : t = {x} /\ term_to_name_'[t] = x
             \/ t \in DOMAIN term_to_name_ /\ term_to_name_'[t] = term_to_name_[t]
  BY <1>2, <1>7
<1>8. /\ DOMAIN term_to_name_ \subseteq DOMAIN term_to_name_'
      /\ \A x \in ns : {x} \in DOMAIN term_to_name_'
  BY <1>2
<1>9. NamesTyped'
  BY <1>1, <1>4, <1>5, <1>6, <1>7 DEF Named, NamesTyped, PartialMap
<1>10. RepresentativesAreNames'
  <2>1. ASSUME NEW n \in DOMAIN named_terms_'
        PROVE  named_terms_'[n] \in DOMAIN term_to_name_'
    <3>1. CASE n \in ns
      BY <1>5, <1>8, <3>1
    <3>2. CASE n \in DOMAIN named_terms_
      BY <1>4, <1>8, <3>2 DEF Named, RepresentativesAreNames
    <3> QED BY <1>6, <2>1, <3>1, <3>2
  <2>2. ASSUME NEW t \in DOMAIN term_to_name_'
        PROVE  /\ term_to_name_'[t] \in DOMAIN named_terms_'
               /\ named_terms_'[term_to_name_'[t]] = t
    <3>1. CASE \E x \in ns : t = {x} /\ term_to_name_'[t] = x
      BY <1>5, <3>1
    <3>2. CASE t \in DOMAIN term_to_name_ /\ term_to_name_'[t] = term_to_name_[t]
      <4>1. /\ term_to_name_[t] \in DOMAIN named_terms_
            /\ named_terms_[term_to_name_[t]] = t
        BY <3>2 DEF Named, RepresentativesAreNames
      <4> QED BY <1>4, <3>2, <4>1
    <3> QED BY <1>7, <2>2, <3>1, <3>2
  <2> QED BY <2>1, <2>2 DEF RepresentativesAreNames
<1>11. SymbolsNameThemselves'
  BY <1>4, <1>5, <1>6 DEF Named, SymbolsNameThemselves, Never, KeepsKinds
<1> QED BY <1>3, <1>4, <1>5, <1>9, <1>10, <1>11 DEF Named

\* Dropping names together with their terms keeps the representatives.
LEMMA DroppingKeeps ==
  ASSUME NEW vars, Named, UNCHANGED caller,
         named_terms_' = Keep(named_terms_, NamesOver(vars)),
         term_to_name_' = Keep(term_to_name_, {named_terms_[n] : n \in DOMAIN named_terms_'})
  PROVE  Named'
<1>1. DOMAIN named_terms_' = NamesOver(vars)
  BY DEF Keep, NamesOver
<1>2. \A n \in NamesOver(vars) : n \in DOMAIN named_terms_ /\ named_terms_'[n] = named_terms_[n]
  BY DEF Keep, NamesOver
<1>3. \A t : t \in DOMAIN term_to_name_' <=>
               t \in DOMAIN term_to_name_ /\ \E n \in NamesOver(vars) : t = named_terms_[n]
  BY <1>1 DEF Keep
<1>4. \A t \in DOMAIN term_to_name_' : term_to_name_'[t] = term_to_name_[t]
  BY DEF Keep
<1>5. \A n \in NamesOver(vars), k \in DOMAIN named_terms_ :
        named_terms_[k] = named_terms_[n] => k \in NamesOver(vars)
  BY DEF NamesOver
<1>6. NamesTyped'
  BY KeepTypes DEF Named, NamesTyped
<1>7. RepresentativesAreNames'
  <2>1. ASSUME NEW n \in DOMAIN named_terms_'
        PROVE  named_terms_'[n] \in DOMAIN term_to_name_'
    BY <1>1, <1>2, <1>3, <2>1 DEF Named, RepresentativesAreNames
  <2>2. ASSUME NEW u \in DOMAIN term_to_name_'
        PROVE  /\ term_to_name_'[u] \in DOMAIN named_terms_'
               /\ named_terms_'[term_to_name_'[u]] = u
    <3>1. PICK n \in NamesOver(vars) : u = named_terms_[n]
      BY <1>3, <2>2
    <3> DEFINE k == term_to_name_[u]
    <3>2. k \in DOMAIN named_terms_ /\ named_terms_[k] = u
      BY <1>3, <2>2 DEF Named, RepresentativesAreNames
    <3>3. k \in NamesOver(vars)
      BY <1>5, <3>1, <3>2
    <3> QED BY <1>1, <1>2, <1>4, <2>2, <3>2, <3>3
  <2> QED BY <2>1, <2>2 DEF RepresentativesAreNames
<1>8. SymbolsNameThemselves'
  BY <1>1, <1>2 DEF Named, SymbolsNameThemselves, Never, KeepsKinds
<1> QED BY <1>6, <1>7, <1>8 DEF Named

LEMMA NameTermKeeps ==
  ASSUME Named, NEW n \in caller.labels, NEW t \in SUBSET Symbol, name_term(n, t),
         UNCHANGED caller
  PROVE  /\ Named'
         /\ \A k \in DOMAIN named_terms_ :
              k \in DOMAIN named_terms_' /\ named_terms_'[k] = named_terms_[k]
<1>1. /\ DOMAIN named_terms_' = DOMAIN named_terms_ \cup {n} /\ named_terms_'[n] = t
      /\ \A k \in DOMAIN named_terms_ : named_terms_'[k] = named_terms_[k]
  BY DEF name_term, Put, CanName
<1>2. /\ DOMAIN term_to_name_' = DOMAIN term_to_name_ \cup {t} /\ term_to_name_'[t] = n
      /\ \A u \in DOMAIN term_to_name_ \ {t} : term_to_name_'[u] = term_to_name_[u]
  BY DEF name_term, Put
<1>3. NamesTyped'
  BY <1>1, <1>2 DEF Named, NamesTyped, PartialMap
<1>4. RepresentativesAreNames'
  BY <1>1, <1>2 DEF Named, RepresentativesAreNames
<1>5. SymbolsNameThemselves'
  BY <1>1 DEF Named, SymbolsNameThemselves, Never, KeepsKinds
<1> QED BY <1>1, <1>3, <1>4, <1>5 DEF Named
-----------------------------------------------------------------------------
(***************************************************************************)
(* Calls that register variables                                           *)
(***************************************************************************)

\* The tail of add_statevar, for two symbols that are no state variables yet.
LEMMA RegisterKeeps ==
  ASSUME IInv, NEW cv, NEW nv, cv # nv \/ "add" \in caller.operations,
         ~Redeclared(cv, nv),
         NEW inputs, inputs \subseteq inputvars_, Register(cv, nv, inputs),
         symbols \subseteq symbols', symbols' \subseteq Symbol, {cv, nv} \subseteq symbols',
         UNCHANGED <<caller, logic>>
  PROVE  IInv'
<1>1. /\ inputvars_' = inputs \ {cv, nv}
      /\ statevars_' = statevars_ \cup {cv} /\ next_statevars_' = next_statevars_ \cup {nv}
      /\ next_map_' = Put(next_map_, cv, nv) /\ curr_map_' = Put(curr_map_, nv, cv)
  BY DEF Register
<1>2. {cv, nv} \in SUBSET Symbol /\ cv \in {cv, nv}
  OBVIOUS
<1>3. NameVariables(Namable({cv, nv}, cv)) /\ Named
  BY DEF Register, IInv
<1>4. /\ Named'
      /\ \A n \in DOMAIN named_terms_ :
           n \in DOMAIN named_terms_' /\ named_terms_'[n] = named_terms_[n]
      /\ Never({"replace"}) /\ caller.labels \cap Symbol = {} =>
           \A v \in {cv, nv} : v \in DOMAIN named_terms_' /\ named_terms_'[v] = {v}
  BY <1>2, <1>3, NamableKeeps
<1>5. RegistryTyped'
  <2>1. PartialMap(next_map_', Symbol, Symbol) /\ PartialMap(curr_map_', Symbol, Symbol)
    BY <1>1, <1>2, PutTypes DEF IInv, Registered, RegistryTyped
  <2> QED BY <1>1, <2>1 DEF IInv, Registered, RegistryTyped
<1>7. /\ \A s \in DOMAIN next_map_ \ {cv} :
           s \in DOMAIN next_map_' /\ next_map_'[s] = next_map_[s]
      /\ cv \in DOMAIN next_map_' /\ next_map_'[cv] = nv
      /\ \A s \in DOMAIN curr_map_ \ {nv} :
           s \in DOMAIN curr_map_' /\ curr_map_'[s] = curr_map_[s]
      /\ nv \in DOMAIN curr_map_' /\ curr_map_'[nv] = cv
      /\ DOMAIN curr_map_' = DOMAIN curr_map_ \cup {nv}
  BY <1>1 DEF Put
<1>6. KindsAreDisjoint'
  <2> SUFFICES ASSUME KeepsKinds
               PROVE  /\ inputvars_' \cap (statevars_' \cup next_statevars_') = {}
                      /\ \A s \in statevars_' \cap next_statevars_' :
                           /\ "add" \in caller.operations
                           /\ s \in DOMAIN next_map_' /\ next_map_'[s] = s
    BY DEF KindsAreDisjoint, KeepsKinds, Never
  <2> QED BY <1>1, <1>7 DEF IInv, Registered, KindsAreDisjoint, Redeclared
<1>8. StatesHaveNext' /\ CurrentOfNext'
  BY <1>1, <1>7 DEF IInv, Registered, StatesHaveNext, CurrentOfNext, Redeclared, Never, KeepsKinds
<1>9. Written'
  BY <1>1 DEF logic, IInv, Written, LogicTyped, InitOverStates, Never, KeepsKinds
<1>10. LookupFindsVariables'
  <2> SUFFICES ASSUME KeepsKinds, caller.labels \cap Symbol = {},
                      NEW v \in statevars_' \cup inputvars_'
                                 \cup {next_map_'[s] : s \in statevars_' \cap DOMAIN next_map_'}
               PROVE  v \in DOMAIN named_terms_' /\ named_terms_'[v] = {v}
    BY DEF LookupFindsVariables, Never, KeepsKinds
  <2>1. CASE v \in {cv, nv}
    BY <1>4, <2>1 DEF KeepsKinds
  <2>2. CASE v \notin {cv, nv}
    <3>1. v \in statevars_ \cup inputvars_
                  \cup {next_map_[s] : s \in statevars_ \cap DOMAIN next_map_}
      <4>1. CASE v \in statevars_' \cup inputvars_'
        BY <1>1, <2>2, <4>1
      <4>2. CASE v \notin statevars_' \cup inputvars_'
        <5>1. PICK s \in statevars_' \cap DOMAIN next_map_' : v = next_map_'[s]
          BY <4>2
        <5>2. s # cv
          BY <1>7, <2>2, <5>1
        <5>3. s \in statevars_ /\ s \in DOMAIN next_map_
          BY <1>1, <5>1, <5>2 DEF Put
        <5> QED BY <1>7, <5>1, <5>2, <5>3
      <4> QED BY <4>1, <4>2
    <3>2. v \in DOMAIN named_terms_ /\ named_terms_[v] = {v}
      BY <3>1 DEF IInv, LookupFindsVariables
    <3> QED BY <1>4, <3>2
  <2> QED BY <2>1, <2>2
<1> QED BY <1>4, <1>5, <1>6, <1>8, <1>9, <1>10 DEF IInv, Registered

\* add_inputvar, for a symbol of the solver.
LEMMA AddInputKeeps ==
  ASSUME IInv, NEW v, add_inputvar(v),
         symbols \subseteq symbols', symbols' \subseteq Symbol, v \in symbols',
         UNCHANGED caller
  PROVE  IInv'
<1>1. /\ inputvars_' = inputvars_ \cup {v} /\ v \notin statevars_ \cup next_statevars_
      /\ UNCHANGED <<statevars_, next_statevars_, next_map_, curr_map_, logic>>
  BY DEF add_inputvar, maps
<1>2. {v} \in SUBSET Symbol /\ NameVariables(Namable({v}, v)) /\ Named
  BY DEF add_inputvar, IInv
<1>3. /\ Named'
      /\ \A n \in DOMAIN named_terms_ :
           n \in DOMAIN named_terms_' /\ named_terms_'[n] = named_terms_[n]
      /\ Never({"replace"}) /\ caller.labels \cap Symbol = {} =>
           \A w \in {v} : w \in DOMAIN named_terms_' /\ named_terms_'[w] = {w}
  BY <1>2, NamableKeeps
<1>4. Registered'
  BY <1>1 DEF IInv, Registered, RegistryTyped, KindsAreDisjoint, StatesHaveNext,
              CurrentOfNext, Never, KeepsKinds
<1>5. Written'
  BY <1>1 DEF logic, IInv, Written, LogicTyped, InitOverStates, Never, KeepsKinds
<1>6. LookupFindsVariables'
  <2> SUFFICES ASSUME KeepsKinds, caller.labels \cap Symbol = {},
                      NEW w \in statevars_' \cup inputvars_'
                                 \cup {next_map_'[s] : s \in statevars_' \cap DOMAIN next_map_'}
               PROVE  w \in DOMAIN named_terms_' /\ named_terms_'[w] = {w}
    BY DEF LookupFindsVariables, Never, KeepsKinds
  <2>1. w = v \/ w \in statevars_ \cup inputvars_
                         \cup {next_map_[s] : s \in statevars_ \cap DOMAIN next_map_}
    BY <1>1
  <2>2. w # v => w \in DOMAIN named_terms_ /\ named_terms_[w] = {w}
    BY <2>1 DEF IInv, LookupFindsVariables
  <2> QED BY <1>3, <2>2 DEF KeepsKinds
<1> QED BY <1>3, <1>4, <1>5, <1>6 DEF IInv

\* A call that throws when it cannot make or register the next state variable
\* leaves symbols in the solver, and may have erased an input.
LEMMA FailureKeeps ==
  ASSUME IInv, symbols \subseteq symbols', symbols' \subseteq Symbol,
         inputvars_' \subseteq inputvars_,
         UNCHANGED <<caller, statevars_, next_statevars_, maps, names, logic>>
  PROVE  IInv'
<1>1. UNCHANGED <<caller, statevars_, next_statevars_, next_map_, curr_map_,
                  named_terms_, term_to_name_>>
  BY DEF maps, names
<1>2. Registered'
  BY <1>1 DEF IInv, Registered, RegistryTyped, KindsAreDisjoint, StatesHaveNext,
              CurrentOfNext, Never, KeepsKinds
<1>3. Written'
  BY <1>1 DEF logic, IInv, Written, LogicTyped, InitOverStates, Never, KeepsKinds
<1>4. Named'
  BY <1>1 DEF IInv, Named, NamesTyped, RepresentativesAreNames, SymbolsNameThemselves, Never, KeepsKinds
<1>5. LookupFindsVariables'
  BY <1>1 DEF IInv, LookupFindsVariables, Never, KeepsKinds
<1> QED BY <1>1, <1>2, <1>3, <1>4, <1>5 DEF IInv

LEMMA MakeInputKeeps ==
  ASSUME IInv, NEW n \in Symbol, make_inputvar(n), UNCHANGED caller
  PROVE  IInv'
<1>1. symbols' = symbols \cup {n} /\ add_inputvar(n) /\ symbols \subseteq Symbol
  BY DEF make_inputvar, IInv, Registered, RegistryTyped
<1> QED BY <1>1, AddInputKeeps

LEMMA MakeStateKeeps ==
  ASSUME IInv, NEW n \in Base, make_statevar(n), UNCHANGED caller
  PROVE  IInv'
<1>1. n \in Symbol /\ NextName[n] \in Symbol /\ NextName[n] # n /\ symbols \subseteq Symbol
  BY NamesAssumption DEF IInv, Registered, RegistryTyped
<1>2. CASE NextName[n] \in symbols
  BY <1>1, <1>2, FailureKeeps DEF make_statevar
<1>3. CASE NextName[n] \notin symbols
  BY <1>1, <1>3, RegisterKeeps DEF make_statevar
<1> QED BY <1>2, <1>3

LEMMA PromoteKeeps ==
  ASSUME IInv, NEW iv \in Base, promote_inputvar(iv), UNCHANGED caller
  PROVE  IInv'
<1> DEFINE nv == NextName[iv]
<1>1. /\ iv \in symbols /\ nv \in Symbol /\ nv # iv /\ symbols \subseteq Symbol
      /\ symbols' = symbols \cup {nv} /\ UNCHANGED logic
  BY NamesAssumption DEF promote_inputvar, IInv, Registered, RegistryTyped
<1>2. \/ /\ inputvars_' = inputvars_ \ {iv}
         /\ UNCHANGED <<statevars_, next_statevars_, maps, names>>
      \/ ~Redeclared(iv, nv) /\ Register(iv, nv, inputvars_ \ {iv})
  BY DEF promote_inputvar
<1> HIDE DEF nv
<1> QED BY <1>1, <1>2, FailureKeeps, RegisterKeeps

LEMMA AddStateKeeps ==
  ASSUME IInv, NEW cv \in symbols, NEW nv \in symbols, add_statevar(cv, nv),
         "add" \in caller.operations, UNCHANGED caller
  PROVE  IInv'
<1>1. /\ ~Redeclared(cv, nv) /\ Register(cv, nv, inputvars_)
      /\ UNCHANGED <<symbols, logic>> /\ symbols \subseteq Symbol
  BY DEF add_statevar, IInv, Registered, RegistryTyped
<1> QED BY <1>1, RegisterKeeps
-----------------------------------------------------------------------------
(***************************************************************************)
(* Calls that write formulas                                               *)
(***************************************************************************)
LEMMA WritingKeeps ==
  ASSUME IInv, Written', UNCHANGED <<caller, registry, maps, names>>
  PROVE  IInv'
<1>1. UNCHANGED <<caller, symbols, statevars_, next_statevars_, inputvars_, next_map_,
                  curr_map_, named_terms_, term_to_name_>>
  BY DEF registry, maps, names
<1>2. Registered'
  BY <1>1 DEF IInv, Registered, RegistryTyped, KindsAreDisjoint, StatesHaveNext,
              CurrentOfNext, Never, KeepsKinds
<1>3. Named'
  BY <1>1 DEF IInv, Named, NamesTyped, RepresentativesAreNames, SymbolsNameThemselves, Never, KeepsKinds
<1>4. LookupFindsVariables'
  BY <1>1 DEF IInv, LookupFindsVariables, Never, KeepsKinds
<1> QED BY <1>1, <1>2, <1>3, <1>4 DEF IInv

LEMMA InitKeeps ==
  ASSUME IInv, InitTerm, UNCHANGED caller
  PROVE  IInv'
<1>0. PICK t \in caller.terms : Meant(only_curr(t), t) /\ (set_init(t) \/ constrain_init(t))
  BY DEF InitTerm
<1>1. UNCHANGED <<registry, maps, names>>
  BY <1>0 DEF set_init, constrain_init
<1>2. /\ init_' \subseteq init_ \cup {t}
      /\ UNCHANGED <<statevars_, state_updates_, trans_, constraints_>>
  BY <1>0 DEF set_init, constrain_init, registry
<1>3. /\ t \subseteq symbols /\ t \in SUBSET Symbol /\ UNCHANGED symbols
      /\ only_curr(t) \/ ~Never({"replace", "unchecked"})
  BY <1>0, <1>1 DEF Meant, Never, KeepsKinds, registry, IInv, Registered, RegistryTyped
<1>4. Written'
  BY <1>2, <1>3 DEF IInv, Written, LogicTyped, InitOverStates, only_curr, Never, KeepsKinds
<1> QED BY <1>1, <1>4, WritingKeeps

LEMMA AssignKeeps ==
  ASSUME IInv, NEW s, NEW t \in SUBSET Symbol, assign_next(s, t), UNCHANGED caller
  PROVE  IInv'
<1>1. /\ s \in Symbol /\ state_updates_' = Put(state_updates_, s, t)
      /\ trans_' = trans_ \cup {Equal(next_map_[x], t) : x \in {s} \cap DOMAIN next_map_}
      /\ UNCHANGED <<registry, maps, names, init_, constraints_>>
  BY DEF assign_next, IInv, Registered, RegistryTyped
<1>2. PartialMap(state_updates_', Symbol, SUBSET Symbol)
  BY <1>1, PutTypes DEF IInv, Written, LogicTyped
<1>3. \A x \in {s} \cap DOMAIN next_map_ : Equal(next_map_[x], t) \in Conjuncts
  BY DEF IInv, Registered, RegistryTyped, PartialMap, Equal, Conjuncts
<1>4. Written'
  BY <1>1, <1>2, <1>3 DEF registry, IInv, Written, LogicTyped, InitOverStates, Never, KeepsKinds
<1> QED BY <1>1, <1>4, WritingKeeps

LEMMA ConstrainInputsKeeps ==
  ASSUME IInv, NEW t \in SUBSET Symbol, constrain_inputs(t), UNCHANGED caller
  PROVE  IInv'
<1>1. /\ trans_' = trans_ \cup {Holds(t)}
      /\ constraints_' = Append(constraints_, Constraint(t, TRUE))
      /\ UNCHANGED <<registry, maps, names, state_updates_, init_>>
  BY DEF constrain_inputs
<1>2. Holds(t) \in Conjuncts
  BY HoldsTypes
<1>3. Constraint(t, TRUE) \in [term : SUBSET Symbol, everywhere : BOOLEAN]
  BY DEF Constraint
<1>4. Written'
  BY <1>1, <1>2, <1>3, AppendProperties
     DEF registry, IInv, Written, LogicTyped, InitOverStates, Never, KeepsKinds
<1> QED BY <1>1, <1>4, WritingKeeps

LEMMA AddConstraintKeeps ==
  ASSUME IInv, NEW t \in SUBSET Symbol, NEW b \in BOOLEAN, add_constraint(t, b),
         UNCHANGED caller
  PROVE  IInv'
<1> DEFINE c == Constraint(t, b)
<1>1. /\ init_' = init_ \cup ToInit(c) /\ trans_' = trans_ \cup ToTrans(c)
      /\ constraints_' = Append(constraints_, c)
      /\ UNCHANGED <<registry, maps, names, state_updates_>>
  BY DEF add_constraint
<1>2. c \in [term : SUBSET Symbol, everywhere : BOOLEAN] /\ c.term = t
  BY DEF Constraint
<1> HIDE DEF c
<1>3. ToTrans(c) \subseteq Conjuncts
  BY <1>2, ToTransTypes DEF IInv, Registered, RegistryTyped
<1>4. \A u \in ToInit(c) : u \subseteq statevars_ \cap symbols /\ u \in SUBSET Symbol
  BY <1>2, ToInitOverStates DEF IInv, Registered, RegistryTyped
<1>5. constraints_' \in Seq([term : SUBSET Symbol, everywhere : BOOLEAN])
  BY <1>1, <1>2, AppendProperties DEF IInv, Written, LogicTyped
<1>6. Written'
  BY <1>1, <1>3, <1>4, <1>5 DEF registry, IInv, Written, LogicTyped, InitOverStates, Never, KeepsKinds
<1> QED BY <1>1, <1>6, WritingKeeps

LEMMA ConstraintsKeep ==
  ASSUME IInv, AddConstraints, UNCHANGED caller
  PROVE  IInv'
<1>1. PICK t \in caller.terms :
        \/ \E b \in BOOLEAN : add_constraint(t, b)
        \/ add_invar(t)
        \/ constrain_inputs(t)
  BY DEF AddConstraints
<1>2. t \in SUBSET Symbol
  BY NamesAssumption DEF IInv
<1> QED BY <1>1, <1>2, AddConstraintKeeps, ConstrainInputsKeeps DEF add_invar
-----------------------------------------------------------------------------
(***************************************************************************)
(* Calls that rebuild trans_                                               *)
(***************************************************************************)

\* A sequence followed by a part of it.
LEMMA OnceMore ==
  ASSUME NEW C, NEW s \in Seq(C), NEW k \in Nat, k <= Len(s),
         NEW t, t = s \o SubSeq(s, 1, k)
  PROVE  \A i \in DOMAIN t : \E j \in DOMAIN s : t[i] = s[j]
<1> DEFINE first == SubSeq(s, 1, k)
<1>1. /\ first \in Seq(C) /\ Len(first) = k
      /\ \A i \in 1 .. k : first[i] = s[i] /\ i \in DOMAIN s
  BY SubSeqProperties
<1> HIDE DEF first
<1>2. /\ DOMAIN (s \o first) = 1 .. Len(s) + k
      /\ \A i \in 1 .. Len(s) + k :
           (s \o first)[i] = IF i <= Len(s) THEN s[i] ELSE first[i - Len(s)]
  <2>1. s \o first \in Seq(C) /\ Len(s \o first) = Len(s) + k
    BY <1>1, ConcatProperties
  <2> QED BY <1>1, <2>1, ConcatProperties
<1>3. ASSUME NEW i \in 1 .. Len(s) + k
      PROVE  \E j \in DOMAIN s : (s \o first)[i] = s[j]
  <2>1. CASE i <= Len(s)
    <3>1. i \in DOMAIN s
      BY <2>1
    <3> QED BY <1>2, <2>1, <3>1
  <2>2. CASE ~(i <= Len(s))
    <3>1. i - Len(s) \in 1 .. k
      BY <2>2
    <3> QED BY <1>1, <1>2, <2>2, <3>1
  <2> QED BY <2>1, <2>2
<1> QED BY <1>2, <1>3 DEF first

LEMMA RepeatedOnce ==
  ASSUME NEW C, constraints_ \in Seq(C), NEW k \in 0 .. Len(constraints_),
         constraints_' = constraints_ \o SubSeq(constraints_, 1, k)
  PROVE  \A i \in DOMAIN constraints_' :
           \E j \in DOMAIN constraints_ : constraints_'[i] = constraints_[j]
<1>1. k \in Nat
  OBVIOUS
<1>2. k <= Len(constraints_)
  OBVIOUS
<1>3. constraints_ \in Seq(C)
  OBVIOUS
<1> QED BY <1>1, <1>2, <1>3, OnceMore, Z3T(60)

LEMMA RepeatedConstraints ==
  ASSUME IInv, NEW k \in 0 .. Len(constraints_),
         constraints_' = constraints_ \o SubSeq(constraints_, 1, k)
  PROVE  \A i \in DOMAIN constraints_' :
           \E j \in DOMAIN constraints_ : constraints_'[i] = constraints_[j]
<1>1. constraints_ \in Seq([term : SUBSET Symbol, everywhere : BOOLEAN])
  BY DEF IInv, Written, LogicTyped
<1> QED BY <1>1, RepeatedOnce, Zenon

LEMMA ConstraintTypes ==
  ASSUME IInv
  PROVE  /\ Len(constraints_) \in Nat
         /\ \A i \in 1 .. Len(constraints_) :
              constraints_[i] \in [term : SUBSET Symbol, everywhere : BOOLEAN]
<1> DEFINE C == [term : SUBSET Symbol, everywhere : BOOLEAN]
<1>1. constraints_ \in Seq(C)
  BY DEF IInv, Written, LogicTyped
<1> HIDE DEF C
<1>2. \A i \in 1 .. Len(constraints_) : constraints_[i] \in C
  BY <1>1
<1> QED BY <1>1, <1>2 DEF C

\* The constraints that are put back, and what they add.
LEMMA ReaddedTypes ==
  ASSUME IInv, NEW k \in 0 .. Len(constraints_)
  PROVE  /\ TransOf(statevars_, Readded(k)) \subseteq Conjuncts
         /\ \A S : TransOf(S, Readded(k)) \subseteq Conjuncts
         /\ \A c \in Readded(k) : ToInit(c) \subseteq SUBSET (Symbol \cap symbols \cap statevars_)
<1>1. \A c \in Readded(k) : c.term \in SUBSET Symbol
  <2>1. \A i \in 1 .. k : i \in 1 .. Len(constraints_)
    BY ConstraintTypes
  <2> QED BY <2>1, ConstraintTypes DEF Readded
<1>2. \A S : TransOf(S, Readded(k)) \subseteq Conjuncts
  BY <1>1, TransOfTypes DEF IInv, Registered, RegistryTyped, Written, LogicTyped
<1>3. \A c \in Readded(k) : ToInit(c) \subseteq SUBSET (Symbol \cap symbols \cap statevars_)
  BY <1>1, ToInitOverStates DEF IInv, Registered, RegistryTyped
<1> QED BY <1>2, <1>3

LEMMA CutShortTypes ==
  ASSUME IInv, NEW S, TransCutShort(S)
  PROVE  trans_' \subseteq Conjuncts /\ UNCHANGED <<init_, constraints_>>
<1>1. EquationsOf(Keep(state_updates_, S)) \subseteq Conjuncts
  BY KeepTypes, EquationsTypes DEF IInv, Registered, RegistryTyped, Written, LogicTyped
<1> QED BY <1>1 DEF TransCutShort

LEMMA ReaddedFirstTypes ==
  ASSUME IInv, NEW k \in 0 .. Len(constraints_), ReaddedFirst(k)
  PROVE  /\ init_' \subseteq SUBSET Symbol /\ UNION init_' \subseteq symbols
         /\ Never({"replace", "unchecked"}) => UNION init_' \subseteq statevars_
         /\ SubSeq(constraints_, 1, k) \in Seq([term : SUBSET Symbol, everywhere : BOOLEAN])
         /\ Len(SubSeq(constraints_, 1, k)) = k
         /\ \A c \in Readded(k) : c.term \in SUBSET Symbol
<1>1. Len(constraints_) \in Nat /\ k \in Int
  BY DEF IInv, Written, LogicTyped
<1>2. \A c \in Readded(k) : ToInit(c) \subseteq SUBSET (Symbol \cap symbols \cap statevars_)
  BY ReaddedTypes
<1>3. init_' = init_ \cup UNION {ToInit(c) : c \in Readded(k)}
  BY DEF ReaddedFirst
<1>4. \A i \in 1 .. k : constraints_[i] \in [term : SUBSET Symbol, everywhere : BOOLEAN]
  BY <1>1, ConstraintTypes
<1>5. /\ SubSeq(constraints_, 1, k) \in Seq([term : SUBSET Symbol, everywhere : BOOLEAN])
      /\ Len(SubSeq(constraints_, 1, k)) = k
  BY <1>1, <1>4, SubSeqProperties
<1>6. \A c \in Readded(k) : c.term \in SUBSET Symbol
  BY <1>4 DEF Readded
<1> QED BY <1>2, <1>3, <1>5, <1>6 DEF IInv, Written, LogicTyped, InitOverStates

LEMMA ReaddedAllTypes ==
  ASSUME IInv, ReaddedAll
  PROVE  /\ init_' \subseteq SUBSET Symbol /\ UNION init_' \subseteq symbols
         /\ Never({"replace", "unchecked"}) => UNION init_' \subseteq statevars_
BY ConstraintTypes, ReaddedFirstTypes DEF ReaddedAll

LEMMA ReaddedPartTypes ==
  ASSUME IInv, ReaddedPart
  PROVE  /\ init_' \subseteq SUBSET Symbol /\ UNION init_' \subseteq symbols
         /\ Never({"replace", "unchecked"}) => UNION init_' \subseteq statevars_
         /\ constraints_' \in Seq([term : SUBSET Symbol, everywhere : BOOLEAN])
         /\ \A c \in Readded(Len(constraints_')) : c.term \in SUBSET Symbol
<1>1. PICK k \in 0 .. Len(constraints_) - 1 :
        ReaddedFirst(k) /\ constraints_' = SubSeq(constraints_, 1, k)
  BY DEF ReaddedPart
<1>2. k \in 0 .. Len(constraints_)
  BY ConstraintTypes
<1> QED BY <1>1, <1>2, ReaddedFirstTypes

\* The reduction: state variables become fewer, or stay as they are.
LEMMA RebuildKeeps ==
  ASSUME IInv, NEW S \in SUBSET statevars_, NEW I \in SUBSET inputvars_,
         rebuild_trans_based_on_coi(S, I), "rebuild" \in caller.operations, UNCHANGED caller
  PROVE  IInv'
<1>0. UNCHANGED <<symbols, next_statevars_, maps>>
  BY DEF rebuild_trans_based_on_coi
<1>1. CASE /\ TransCutShort(S)
           /\ UNCHANGED <<statevars_, inputvars_, state_updates_, names>>
  <2>1. Written'
    BY <1>0, <1>1, CutShortTypes DEF IInv, Written, LogicTyped, InitOverStates, Never, KeepsKinds
  <2> QED BY <1>0, <1>1, <2>1, WritingKeeps DEF registry
<1>2. CASE /\ ReaddedPart /\ trans_' = TransOf(S, Readded(Len(constraints_')))
           /\ UNCHANGED <<statevars_, inputvars_, state_updates_, names>>
  <2>1. trans_' \subseteq Conjuncts
    BY <1>2, ReaddedPartTypes, TransOfTypes
       DEF IInv, Registered, RegistryTyped, Written, LogicTyped
  <2>2. Written'
    BY <1>0, <1>2, <2>1, ReaddedPartTypes
       DEF IInv, Written, LogicTyped, InitOverStates, Never, KeepsKinds
  <2> QED BY <1>0, <1>2, <2>2, WritingKeeps DEF registry
<1>3. CASE /\ ReaddedAll
           /\ trans_' = TransOf(S, Readded(Len(constraints_)))
           /\ statevars_' = Kept(S, init_') /\ inputvars_' = I
           /\ state_updates_' = Keep(state_updates_, S)
           /\ named_terms_' = Keep(named_terms_, NamesOver(statevars_' \cup I))
           /\ term_to_name_' =
                Keep(term_to_name_, {named_terms_[n] : n \in DOMAIN named_terms_'})
           /\ UNCHANGED constraints_
  <2>1. /\ init_' \subseteq SUBSET Symbol /\ UNION init_' \subseteq symbols
        /\ Never({"replace", "unchecked"}) => UNION init_' \subseteq statevars_
    BY <1>3, ReaddedAllTypes
  <2>2. /\ statevars_' \subseteq symbols /\ UNION init_' \subseteq statevars_'
        /\ KeepsKinds => statevars_' \subseteq statevars_
    BY <1>3, <2>1, ReducersCheck DEF Kept, IInv, Registered, RegistryTyped
  <2>3. Registered'
    BY <1>0, <1>3, <2>2 DEF maps, IInv, Registered, RegistryTyped, KindsAreDisjoint,
                            StatesHaveNext, CurrentOfNext, Never, KeepsKinds
  <2>4. trans_' \subseteq Conjuncts
    BY <1>3, ReaddedTypes, ConstraintTypes
  <2>5. PartialMap(state_updates_', Symbol, SUBSET Symbol)
    BY <1>3, KeepTypes DEF IInv, Written, LogicTyped
  <2>6. Written'
    BY <1>0, <1>3, <2>1, <2>2, <2>4, <2>5
       DEF IInv, Written, LogicTyped, InitOverStates
  <2> DEFINE vars == statevars_' \cup I
  <2>7. Named' /\ named_terms_' = Keep(named_terms_, NamesOver(vars))
    BY <1>3, DroppingKeeps DEF IInv
  <2>8. LookupFindsVariables'
    <3> SUFFICES ASSUME KeepsKinds, caller.labels \cap Symbol = {},
                        NEW v \in statevars_' \cup inputvars_'
                                   \cup {next_map_[s] : s \in statevars_' \cap DOMAIN next_map_}
                 PROVE  v \in DOMAIN named_terms_' /\ named_terms_'[v] = {v}
      BY <1>0 DEF LookupFindsVariables, Never, KeepsKinds, maps
    <3>1. statevars_' \subseteq statevars_ /\ inputvars_' \subseteq inputvars_
      BY <1>3, <2>2
    <3>2. v \in DOMAIN named_terms_ /\ named_terms_[v] = {v}
      BY <3>1 DEF IInv, LookupFindsVariables
    <3>3. Apply(curr_map_, v) \in vars
      <4>1. CASE v \in statevars_' \cup inputvars_'
        <5>1. v \in DOMAIN curr_map_ => curr_map_[v] = v
          BY <3>1, <4>1 DEF IInv, Registered, KindsAreDisjoint, StatesHaveNext, CurrentOfNext
        <5> QED BY <1>3, <4>1, <5>1 DEF Apply
      <4>2. CASE v \notin statevars_' \cup inputvars_'
        <5>1. PICK s \in statevars_' : v = next_map_[s]
          BY <4>2
        <5>2. v \in DOMAIN curr_map_ /\ curr_map_[v] = s
          BY <3>1, <5>1 DEF IInv, Registered, StatesHaveNext
        <5> QED BY <5>1, <5>2 DEF Apply
      <4> QED BY <4>1, <4>2
    <3>4. v \in NamesOver(vars)
      <4> HIDE DEF vars
      <4> QED BY <3>2, <3>3 DEF NamesOver
    <3> HIDE DEF vars
    <3> QED BY <2>7, <3>2, <3>4 DEF Keep
  <2> QED BY <2>3, <2>6, <2>7, <2>8 DEF IInv
<1> QED BY <1>1, <1>2, <1>3 DEF rebuild_trans_based_on_coi

LEMMA DropKeeps ==
  ASSUME IInv, NEW D \in SUBSET statevars_, drop_state_updates(D), UNCHANGED caller
  PROVE  IInv'
<1> DEFINE S == DOMAIN state_updates_ \ D
<1>0. UNCHANGED <<registry, maps, names>> /\ UNCHANGED <<symbols, statevars_>>
  BY DEF drop_state_updates, registry
<1>1. PartialMap(state_updates_', Symbol, SUBSET Symbol)
  BY KeepTypes DEF drop_state_updates, IInv, Written, LogicTyped
<1>2. CASE UNCHANGED <<init_, trans_, constraints_>>
  BY <1>0, <1>1, <1>2, WritingKeeps DEF IInv, Written, LogicTyped, InitOverStates, Never, KeepsKinds
<1>3. CASE TransCutShort(S)
  <2>1. trans_' \subseteq Conjuncts /\ UNCHANGED <<init_, constraints_>>
    BY <1>3, CutShortTypes
  <2> QED BY <1>0, <1>1, <2>1, WritingKeeps DEF IInv, Written, LogicTyped, InitOverStates, Never, KeepsKinds
<1>4. ASSUME NEW k \in 0 .. Len(constraints_), ReaddedFirst(k),
             trans_' = TransOf(S, Readded(k)),
             constraints_' = constraints_ \o SubSeq(constraints_, 1, k)
      PROVE  IInv'
  <2>1. trans_' \subseteq Conjuncts
    BY <1>4, ReaddedTypes
  <2>2. constraints_' \in Seq([term : SUBSET Symbol, everywhere : BOOLEAN])
    BY <1>4, ReaddedFirstTypes, ConcatProperties DEF IInv, Written, LogicTyped
  <2>3. Written'
    BY <1>0, <1>1, <1>4, <2>1, <2>2, ReaddedFirstTypes
       DEF Written, LogicTyped, InitOverStates, Never, KeepsKinds
  <2> QED BY <1>0, <2>3, WritingKeeps
<1> QED BY <1>2, <1>3, <1>4 DEF drop_state_updates
-----------------------------------------------------------------------------
(***************************************************************************)
(* replace_terms                                                           *)
(***************************************************************************)

LEMMA ReplaceKeeps ==
  ASSUME IInv, NEW x, NEW y, replace_terms(x, y), ~Never({"replace"}), UNCHANGED caller
  PROVE  IInv'
<1> DEFINE m == [z \in {x} |-> y]
<1>1. /\ y \in symbols /\ y \in Symbol /\ x \in Symbol
      /\ y \notin DOMAIN next_map_ \cup DOMAIN curr_map_ \cup DOMAIN state_updates_
      /\ init_' = {Substitute(t, m) : t \in init_}
      /\ UNCHANGED <<registry, constraints_>>
  BY DEF replace_terms, known_symbols, IInv, Registered, RegistryTyped
<1>2. PartialMap(m, Symbol, Symbol)
  BY <1>1 DEF PartialMap
<1>3. \A w \in Symbol : Apply(m, w) \in Symbol
  BY <1>2 DEF PartialMap, Apply
<1>4. \A w \in symbols : Apply(m, w) \in symbols
  BY <1>1 DEF Apply
<1>5. \A t \in SUBSET Symbol : Substitute(t, m) \in SUBSET Symbol
  BY <1>2, SubstituteTypes
<1>6. init_' \subseteq SUBSET Symbol /\ UNION init_' \subseteq symbols
  <2> HIDE DEF m
  <2>1. \A t \in init_ : Substitute(t, m) \subseteq symbols
    BY <1>4 DEF Substitute, IInv, Written
  <2> QED BY <1>1, <1>5, <2>1 DEF IInv, Written, LogicTyped
<1>7. CASE UNCHANGED <<maps, names, state_updates_, trans_>>
  <2>1. UNCHANGED <<symbols, statevars_, next_statevars_, inputvars_, next_map_, curr_map_,
                    named_terms_, term_to_name_>>
    BY <1>1, <1>7 DEF registry, maps, names
  <2>2. Registered' /\ Written'
    BY <1>1, <1>6, <1>7, <2>1
       DEF IInv, Registered, RegistryTyped, KindsAreDisjoint, StatesHaveNext, CurrentOfNext,
           Written, LogicTyped, InitOverStates, Never, KeepsKinds
  <2>3. Named' /\ LookupFindsVariables'
    BY <2>1 DEF IInv, Named, NamesTyped, RepresentativesAreNames, SymbolsNameThemselves,
                LookupFindsVariables, Never, KeepsKinds
  <2> QED BY <2>2, <2>3 DEF IInv
<1>8. CASE ~UNCHANGED <<maps, names, state_updates_, trans_>>
  <2>1. /\ trans_' = {[lhs |-> Substitute(c.lhs, m), rhs |-> Substitute(c.rhs, m)] : c \in trans_}
        /\ named_terms_' = [n \in DOMAIN named_terms_ |-> Substitute(named_terms_[n], m)]
        /\ term_to_name_' \in
             [{Substitute(named_terms_[n], m) : n \in DOMAIN named_terms_} ->
              {term_to_name_[named_terms_[n]] : n \in DOMAIN named_terms_}]
        /\ \A t \in DOMAIN term_to_name_' :
             \E n \in DOMAIN named_terms_ :
                /\ t = Substitute(named_terms_[n], m)
                /\ term_to_name_'[t] = term_to_name_[named_terms_[n]]
        /\ state_updates_' =
             [z \in Substitute(DOMAIN state_updates_, m) |->
                Substitute(state_updates_[IF z = y THEN x ELSE z], m)]
        /\ next_map_' =
             [z \in Substitute(DOMAIN next_map_, m) |->
                Apply(m, next_map_[IF z = y THEN x ELSE z])]
        /\ curr_map_' =
             [z \in Substitute(DOMAIN curr_map_, m) |->
                Apply(m, curr_map_[IF z = y THEN x ELSE z])]
    BY <1>8 DEF replace_terms
  \* Rewriting the keys of a map where the replacement is no key.
  <2>2. ASSUME NEW f, NEW T, PartialMap(f, Symbol, T), y \notin DOMAIN f,
               NEW z \in Substitute(DOMAIN f, m)
        PROVE  z \in Symbol /\ (IF z = y THEN x ELSE z) \in DOMAIN f
    BY <1>1, <2>2 DEF PartialMap, Substitute, Apply
  <2> HIDE DEF m
  <2>3. PartialMap(next_map_', Symbol, Symbol) /\ PartialMap(curr_map_', Symbol, Symbol)
    BY <1>1, <1>3, <2>1, <2>2 DEF IInv, Registered, RegistryTyped, PartialMap
  <2>4. Registered'
    <3>1. UNCHANGED <<symbols, statevars_, next_statevars_, inputvars_>>
      BY <1>1 DEF registry
    <3> QED BY <2>3, <3>1 DEF IInv, Registered, RegistryTyped, KindsAreDisjoint,
                              StatesHaveNext, CurrentOfNext, Never, KeepsKinds
  <2>5. PartialMap(state_updates_', Symbol, SUBSET Symbol)
    <3>1. PartialMap(state_updates_, Symbol, SUBSET Symbol)
      BY DEF IInv, Written, LogicTyped
    <3>2. \A z \in Substitute(DOMAIN state_updates_, m) :
            z \in Symbol /\ (IF z = y THEN x ELSE z) \in DOMAIN state_updates_
      BY <1>1, <2>2, <3>1
    <3>3. \A k \in DOMAIN state_updates_ : Substitute(state_updates_[k], m) \in SUBSET Symbol
      BY <1>5, <3>1 DEF PartialMap
    <3> QED BY <2>1, <3>2, <3>3 DEF PartialMap
  <2>6. trans_' \subseteq Conjuncts
    BY <1>5, <2>1 DEF IInv, Written, LogicTyped, Conjuncts
  <2>7. Written'
    BY <1>1, <1>6, <2>5, <2>6 DEF registry, IInv, Written, LogicTyped, InitOverStates, Never, KeepsKinds
  <2>8. \A n \in DOMAIN named_terms_ :
          /\ n \in DOMAIN named_terms_' /\ named_terms_'[n] = Substitute(named_terms_[n], m)
          /\ term_to_name_[named_terms_[n]] \in DOMAIN named_terms_
          /\ named_terms_[term_to_name_[named_terms_[n]]] = named_terms_[n]
    BY <2>1 DEF IInv, Named, RepresentativesAreNames
  <2>9. RepresentativesAreNames'
    <3>1. \A n \in DOMAIN named_terms_' : named_terms_'[n] \in DOMAIN term_to_name_'
      BY <2>1
    <3>2. ASSUME NEW t \in DOMAIN term_to_name_'
          PROVE  /\ term_to_name_'[t] \in DOMAIN named_terms_'
                 /\ named_terms_'[term_to_name_'[t]] = t
      <4>1. PICK n \in DOMAIN named_terms_ :
              /\ t = Substitute(named_terms_[n], m)
              /\ term_to_name_'[t] = term_to_name_[named_terms_[n]]
        BY <2>1, <3>2
      <4> QED BY <2>8, <4>1
    <3> QED BY <3>1, <3>2 DEF RepresentativesAreNames
  <2>10. NamesTyped'
    <3>1. PartialMap(named_terms_, Symbol \cup caller.labels, SUBSET Symbol)
      BY DEF IInv, Named, NamesTyped
    <3>2. PartialMap(named_terms_', Symbol \cup caller.labels, SUBSET Symbol)
      BY <1>5, <2>1, <3>1 DEF PartialMap
    <3>3. \A t \in DOMAIN term_to_name_' :
            /\ t \in SUBSET Symbol
            /\ term_to_name_'[t] \in Symbol \cup caller.labels
      BY <1>5, <2>1, <2>8, <3>1 DEF PartialMap
    <3> QED BY <3>2, <3>3 DEF NamesTyped, PartialMap
  <2> QED BY <2>4, <2>7, <2>9, <2>10
          DEF IInv, Named, SymbolsNameThemselves, LookupFindsVariables, Never, KeepsKinds
<1> QED BY <1>7, <1>8
-----------------------------------------------------------------------------
LEMMA InitIInv == Init => IInv
<1> SUFFICES ASSUME Init PROVE IInv
  OBVIOUS
<1>1. /\ DOMAIN next_map_ = {} /\ DOMAIN curr_map_ = {} /\ DOMAIN state_updates_ = {}
      /\ DOMAIN named_terms_ = {} /\ DOMAIN term_to_name_ = {}
  BY DEF Init
<1>2. Registered
  BY <1>1 DEF Init, Registered, RegistryTyped, PartialMap, KindsAreDisjoint,
              StatesHaveNext, CurrentOfNext
<1>3. Written
  BY <1>1 DEF Init, Written, LogicTyped, PartialMap, InitOverStates
<1>4. Named
  BY <1>1 DEF Init, Named, NamesTyped, PartialMap, RepresentativesAreNames,
              SymbolsNameThemselves
<1>5. LookupFindsVariables
  BY <1>1 DEF Init, LookupFindsVariables
<1> QED BY <1>2, <1>3, <1>4, <1>5 DEF Init, IInv

LEMMA NamingKeeps ==
  ASSUME IInv, NameTerm, UNCHANGED caller
  PROVE  IInv'
<1>1. PICK n \in caller.labels, t \in caller.terms :
        name_term(n, t) /\ UNCHANGED <<registry, maps, logic>>
  BY DEF NameTerm
<1>2. t \in SUBSET Symbol
  BY NamesAssumption DEF IInv
<1>3. /\ Named'
      /\ \A k \in DOMAIN named_terms_ :
           k \in DOMAIN named_terms_' /\ named_terms_'[k] = named_terms_[k]
  BY <1>1, <1>2, NameTermKeeps DEF IInv
<1>4. UNCHANGED <<symbols, statevars_, next_statevars_, inputvars_, next_map_, curr_map_,
                  state_updates_, init_, trans_, constraints_>>
  BY <1>1 DEF registry, maps, logic
<1>5. Registered' /\ Written'
  BY <1>4 DEF IInv, Registered, RegistryTyped, KindsAreDisjoint, StatesHaveNext, CurrentOfNext,
              Written, LogicTyped, InitOverStates, Never, KeepsKinds
<1>6. LookupFindsVariables'
  BY <1>3, <1>4 DEF IInv, LookupFindsVariables, Never, KeepsKinds
<1> QED BY <1>3, <1>5, <1>6 DEF IInv

LEMMA NextKeeps == IInv /\ [Next]_tsvars => IInv'
<1> SUFFICES ASSUME IInv, [Next]_tsvars PROVE IInv'
  OBVIOUS
<1>1. CASE UNCHANGED tsvars
  BY <1>1, FailureKeeps DEF tsvars, registry, maps, names, IInv, Registered, RegistryTyped
<1>2. CASE Step /\ UNCHANGED caller
  <2>1. /\ caller.states \subseteq Base /\ caller.inputs \subseteq Symbol
        /\ caller.terms \subseteq SUBSET Symbol
    BY NamesAssumption DEF IInv
  <2>2. CASE \E n \in caller.inputs : make_inputvar(n)
    BY <1>2, <2>1, <2>2, MakeInputKeeps
  <2>3. CASE \E n \in caller.states : make_statevar(n)
    BY <1>2, <2>1, <2>3, MakeStateKeeps
  <2>4. CASE InitTerm
    BY <1>2, <2>4, InitKeeps
  <2>5. CASE \E s \in statevars_, t \in caller.terms : assign_next(s, t)
    BY <1>2, <2>1, <2>5, AssignKeeps
  <2>6. CASE AddConstraints
    BY <1>2, <2>6, ConstraintsKeep
  <2>7. CASE NameTerm
    BY <1>2, <2>7, NamingKeeps
  <2>8. CASE "rebuild" \in caller.operations /\ Rebuild
    BY <1>2, <2>8, RebuildKeeps DEF Rebuild
  <2>9. CASE \E v \in symbols : add_inputvar(v) /\ UNCHANGED symbols
    BY <1>2, <2>9, AddInputKeeps DEF IInv, Registered, RegistryTyped
  <2>10. CASE "add" \in caller.operations /\ \E cv, nv \in symbols : add_statevar(cv, nv)
    BY <1>2, <2>10, AddStateKeeps
  <2>11. CASE \E iv \in inputvars_ \cap caller.states : promote_inputvar(iv)
    BY <1>2, <2>1, <2>11, PromoteKeeps
  <2>12. CASE \E D \in SUBSET statevars_ : drop_state_updates(D)
    BY <1>2, <2>12, DropKeeps
  <2>13. CASE "replace" \in caller.operations /\ \E x, y \in Symbol : replace_terms(x, y)
    <3>1. ~Never({"replace"})
      BY <2>13 DEF Never, KeepsKinds
    <3> QED BY <1>2, <2>13, <3>1, ReplaceKeeps
  <2> QED BY <1>2, <2>2, <2>3, <2>4, <2>5, <2>6, <2>7, <2>8, <2>9, <2>10, <2>11, <2>12,
             <2>13 DEF Step
<1> QED BY <1>1, <1>2 DEF Next

LEMMA Invariance == Spec => []IInv
<1> QED BY InitIInv, NextKeeps, PTL DEF Spec

\* Each registered variable has one role, and each state variable a next state
\* variable that leads back to it, for programs that do not replace terms, nor
\* reduce a system with init_ over other symbols than current states.
THEOREM RegistrationHolds == Spec => []VariablesAreRegistered
<1>1. IInv => VariablesAreRegistered
  BY Parts DEF IInv, Registered, VariablesAreRegistered
<1> QED BY <1>1, Invariance, PTL

\* term_to_name_ gives each named term one of its names, whatever a program calls,
\* and lookup finds each variable under its own name, also after a reduction.
THEOREM NamesAlwaysAgree == Spec => []NamesAgree
<1>1. IInv => NamesAgree
  BY DEF IInv, Named, NamesAgree
<1> QED BY <1>1, Invariance, PTL
-----------------------------------------------------------------------------
(***************************************************************************)
(* No formula mentions a symbol that is not registered                     *)
(***************************************************************************)

\* Programs that do what the statements below need.
Habits == KeepsKinds /\ Never({"add"})

\* What formulas may be over, and with next states.
Readable == statevars_ \cup inputvars_ \cup FailedPromotions
Writable == Readable \cup next_statevars_

\* An input has no next state.
InputsHaveNoNext == DOMAIN next_map_ \subseteq symbols \ inputvars_

\* A next name is taken by registering its variable, and by nothing else: a
\* promotion finds it free.
NextNamesTaken == \A m \in Base : NextName[m] \in symbols => m \in DOMAIN next_map_

KnownInit == Never({"unchecked"}) => UNION init_ \subseteq statevars_
KnownTrans == \A c \in trans_ : Mentions(c) \subseteq Writable
KnownUpdates == \A s \in DOMAIN state_updates_ : s \in statevars_ /\ state_updates_[s] \subseteq Readable
KnownConstraints == \A i \in DOMAIN constraints_ : constraints_[i].term \subseteq Readable
KnownNames ==
  Never({"unchecked"}) => \A n \in DOMAIN named_terms_ : named_terms_[n] \subseteq Writable

Known == KnownInit /\ KnownTrans /\ KnownUpdates /\ KnownConstraints /\ KnownNames

KInv ==
  Habits => InputsHaveNoNext /\ Known /\ (NextNamesAreFree => NextNamesTaken)

LEMMA HabitsStay ==
  ASSUME UNCHANGED caller
  PROVE  /\ Habits' <=> Habits
         /\ KeepsKinds' <=> KeepsKinds
         /\ NextNamesAreFree' <=> NextNamesAreFree
         /\ \A calls : Never(calls)' <=> Never(calls)
BY DEF Habits, KeepsKinds, NextNamesAreFree, Never

LEMMA HabitsForbid ==
  ASSUME Habits
  PROVE  /\ KeepsKinds /\ Never({"replace"}) /\ Never({"add"})
         /\ "replace" \notin caller.operations /\ "add" \notin caller.operations
BY DEF Habits, KeepsKinds, Never

\* Kinds are strictly apart where no variable is its own next state.
LEMMA KindsApart ==
  ASSUME IInv, Habits
  PROVE  /\ statevars_ \cap inputvars_ = {} /\ statevars_ \cap next_statevars_ = {}
         /\ inputvars_ \cap next_statevars_ = {}
         /\ statevars_ \cup inputvars_ \cup next_statevars_ \subseteq symbols
BY HabitsForbid DEF IInv, Registered, RegistryTyped, KindsAreDisjoint

LEMMA StatesInMap ==
  ASSUME IInv, KeepsKinds
  PROVE  /\ statevars_ \subseteq DOMAIN next_map_
         /\ \A s \in statevars_ : next_map_[s] \in next_statevars_
         /\ \A x, y \in statevars_ : next_map_[x] = next_map_[y] => x = y
BY DEF IInv, Registered, StatesHaveNext

\* The symbol of a failed promotion is there for good.
LEMMA FailuresStay ==
  ASSUME UNCHANGED caller, symbols \subseteq symbols',
         \A n \in DOMAIN next_map_' \ DOMAIN next_map_ :
            n \notin symbols \/ NextName[n] \notin symbols
  PROVE  FailedPromotions \subseteq FailedPromotions'
BY DEF FailedPromotions

\* Where the registry stays, so does what formulas may be over.
LEMMA RegistryStays ==
  ASSUME UNCHANGED <<caller, registry, next_map_>>
  PROVE  /\ Readable' = Readable /\ Writable' = Writable
         /\ UNCHANGED <<symbols, statevars_, next_statevars_, inputvars_>>
         /\ InputsHaveNoNext => InputsHaveNoNext'
         /\ NextNamesTaken => NextNamesTaken'
BY DEF registry, Readable, Writable, FailedPromotions, InputsHaveNoNext, NextNamesTaken

\* Registering a variable leaves the others registered.
LEMMA RegisteringKnows ==
  ASSUME Known, UNCHANGED <<caller, logic>>,
         statevars_ \subseteq statevars_', next_statevars_ \subseteq next_statevars_',
         Readable \subseteq Readable',
         NEW vs, NameVariables(vs), vs \subseteq Writable'
  PROVE  Known'
<1>1. UNCHANGED <<state_updates_, init_, trans_, constraints_>>
  BY DEF logic
<1>2. Writable \subseteq Writable'
  BY DEF Writable
<1>3. KnownNames'
  <2> SUFFICES ASSUME Never({"unchecked"}), NEW n \in DOMAIN named_terms_'
               PROVE  named_terms_'[n] \subseteq Writable'
    BY HabitsStay DEF KnownNames
  <2>1. CASE n \in vs
    <3>1. named_terms_'[n] = {n}
      BY <2>1 DEF NameVariables
    <3> QED BY <2>1, <3>1
  <2>2. CASE n \notin vs
    <3>1. n \in DOMAIN named_terms_ /\ named_terms_'[n] = named_terms_[n]
      BY <2>2 DEF NameVariables
    <3> QED BY <1>2, <3>1 DEF Known, KnownNames
  <2> QED BY <2>1, <2>2
<1>4. KnownInit' /\ KnownUpdates' /\ KnownConstraints'
  BY <1>1, HabitsStay DEF Known, KnownInit, KnownUpdates, KnownConstraints
<1>5. KnownTrans'
  BY <1>1, <1>2 DEF Known, KnownTrans
<1> QED BY <1>3, <1>4, <1>5 DEF Known

LEMMA MakeInputKnows ==
  ASSUME IInv, Known, InputsHaveNoNext, NEW n, make_inputvar(n), UNCHANGED caller
  PROVE  Known' /\ InputsHaveNoNext'
<1>1. /\ n \notin symbols /\ symbols' = symbols \cup {n} /\ inputvars_' = inputvars_ \cup {n}
      /\ UNCHANGED <<statevars_, next_statevars_, next_map_, logic>>
      /\ NameVariables(Namable({n}, n))
  BY DEF make_inputvar, add_inputvar, maps
<1> DEFINE vs == Namable({n}, n)
<1>2. vs \subseteq {n}
  BY DEF Namable
<1> HIDE DEF vs
<1>3. Readable \subseteq Readable'
  BY <1>1, FailuresStay DEF Readable
<1>4. vs \subseteq Writable'
  BY <1>1, <1>2 DEF Readable, Writable
<1>5. NameVariables(vs)
  BY <1>1 DEF vs
<1>6. Known'
  BY <1>1, <1>3, <1>4, <1>5, RegisteringKnows
<1>7. InputsHaveNoNext'
  BY <1>1 DEF InputsHaveNoNext
<1> QED BY <1>6, <1>7

\* A new state variable, or an input that becomes one; the next name is free.
LEMMA RegisterKnows ==
  ASSUME IInv, Known, InputsHaveNoNext, NEW n \in Base, NextName[n] \notin symbols,
         Register(n, NextName[n], inputvars_ \ {n}),
         symbols' = symbols \cup {n, NextName[n]}, UNCHANGED <<caller, logic>>
  PROVE  Known' /\ InputsHaveNoNext'
<1> DEFINE nv == NextName[n]
<1>1. nv \notin inputvars_ \cup statevars_ \cup next_statevars_
  BY DEF IInv, Registered, RegistryTyped
<1>2. /\ inputvars_' = inputvars_ \ {n, nv} /\ statevars_' = statevars_ \cup {n}
      /\ next_statevars_' = next_statevars_ \cup {nv}
      /\ next_map_' = Put(next_map_, n, nv)
      /\ NameVariables(Namable({n, nv}, n))
  BY DEF Register
<1> DEFINE vs == Namable({n, nv}, n)
<1>3. vs \subseteq {n, nv}
  BY DEF Namable
<1> HIDE DEF vs
<1>4. FailedPromotions \subseteq FailedPromotions'
  BY <1>2, FailuresStay DEF Put
<1>5. Readable \subseteq Readable' /\ vs \subseteq Writable'
  BY <1>1, <1>2, <1>3, <1>4 DEF Readable, Writable
<1>6. NameVariables(vs)
  BY <1>2 DEF vs
<1>7. InputsHaveNoNext'
  BY <1>2 DEF InputsHaveNoNext, Put
<1> HIDE DEF nv
<1> QED BY <1>2, <1>5, <1>6, <1>7, RegisteringKnows

\* A call that throws when it cannot make the next state variable.
LEMMA FailureKnows ==
  ASSUME Known, InputsHaveNoNext, symbols \subseteq symbols', Readable \subseteq Readable',
         inputvars_' \subseteq inputvars_,
         UNCHANGED <<caller, statevars_, next_statevars_, maps, names, logic>>
  PROVE  Known' /\ InputsHaveNoNext'
<1>1. UNCHANGED <<next_map_, named_terms_, state_updates_, init_, trans_, constraints_>>
  BY DEF maps, names, logic
<1>2. Writable \subseteq Writable'
  BY DEF Writable
<1>3. KnownInit' /\ KnownUpdates' /\ KnownConstraints' /\ KnownNames'
  BY <1>1, <1>2, HabitsStay DEF Known, KnownInit, KnownUpdates, KnownConstraints, KnownNames
<1>4. KnownTrans'
  BY <1>1, <1>2 DEF Known, KnownTrans
<1>5. InputsHaveNoNext'
  BY <1>1 DEF InputsHaveNoNext
<1> QED BY <1>3, <1>4, <1>5 DEF Known

LEMMA MakeStateKnows ==
  ASSUME IInv, Known, InputsHaveNoNext, NEW n \in Base, make_statevar(n), UNCHANGED caller
  PROVE  Known' /\ InputsHaveNoNext'
<1>1. n \notin symbols /\ UNCHANGED logic
  BY DEF make_statevar
<1>2. CASE /\ symbols' = symbols \cup {n}
           /\ UNCHANGED <<statevars_, next_statevars_, inputvars_, maps, names>>
  <2>1. FailedPromotions \subseteq FailedPromotions'
    BY <1>2, FailuresStay DEF maps
  <2>2. Readable \subseteq Readable'
    BY <1>2, <2>1 DEF Readable
  <2> QED BY <1>1, <1>2, <2>2, FailureKnows
<1>3. CASE /\ NextName[n] \notin symbols /\ symbols' = symbols \cup {n, NextName[n]}
           /\ Register(n, NextName[n], inputvars_)
  <2>1. inputvars_ \ {n} = inputvars_
    BY <1>1 DEF IInv, Registered, RegistryTyped
  <2> QED BY <1>1, <1>3, <2>1, RegisterKnows
<1> QED BY <1>2, <1>3 DEF make_statevar

\* A promotion that fails leaves a symbol that FailedPromotions knows.
LEMMA PromoteKnows ==
  ASSUME IInv, Known, InputsHaveNoNext, "promote" \in caller.operations,
         NEW iv \in inputvars_, iv \in Base, promote_inputvar(iv), UNCHANGED caller
  PROVE  Known' /\ InputsHaveNoNext'
<1> DEFINE nv == NextName[iv]
<1>1. iv \in symbols /\ iv \notin DOMAIN next_map_
  BY DEF IInv, Registered, RegistryTyped, InputsHaveNoNext
<1>2. symbols' = symbols \cup {nv} /\ symbols \cup {nv} = symbols \cup {iv, nv} /\ UNCHANGED logic
  BY <1>1 DEF promote_inputvar
<1>3. CASE /\ inputvars_' = inputvars_ \ {iv}
           /\ UNCHANGED <<statevars_, next_statevars_, maps, names>>
  <2>1. FailedPromotions \subseteq FailedPromotions' /\ iv \in FailedPromotions'
    BY <1>1, <1>2, <1>3, FailuresStay DEF FailedPromotions, maps
  <2>2. Readable \subseteq Readable'
    BY <1>3, <2>1 DEF Readable
  <2> QED BY <1>2, <1>3, <2>2, FailureKnows
<1>4. CASE nv \notin symbols /\ Register(iv, nv, inputvars_ \ {iv})
  BY <1>2, <1>4, RegisterKnows
<1> QED BY <1>3, <1>4 DEF promote_inputvar
-----------------------------------------------------------------------------
\* Calls that keep the variables and the names, and write formulas.
LEMMA WritingKnows ==
  ASSUME Known, InputsHaveNoNext, UNCHANGED <<caller, registry, maps, names>>,
         KnownInit', KnownTrans', KnownUpdates', KnownConstraints'
  PROVE  Known' /\ InputsHaveNoNext'
<1>1. Writable' = Writable /\ UNCHANGED named_terms_ /\ InputsHaveNoNext'
  BY RegistryStays DEF maps, names
<1>2. KnownNames'
  BY <1>1, HabitsStay DEF Known, KnownNames
<1> QED BY <1>1, <1>2 DEF Known

\* What a constraint adds is over registered variables.
LEMMA ToTransKnown ==
  ASSUME IInv, KeepsKinds, NEW c, c.term \subseteq Readable
  PROVE  /\ \A d \in ToTrans(c) : Mentions(d) \subseteq Writable
         /\ \A t \in ToInit(c) : t \subseteq statevars_
<1>1. \A t \in ToInit(c) : t \subseteq statevars_
  BY ToInitOverStates
<1>2. Mentions(Holds(c.term)) \subseteq Writable
  BY DEF Writable, Mentions, Holds
<1>3. ASSUME NEW t \in ToInit(c)
      PROVE  Mentions(Holds(Substitute(t, next_map_))) \subseteq Writable
  <2>1. \A x \in t : x \in DOMAIN next_map_ /\ next_map_[x] \in next_statevars_
    BY <1>1, StatesInMap
  <2>2. Substitute(t, next_map_) \subseteq next_statevars_
    BY <2>1 DEF Substitute, Apply
  <2> QED BY <2>2 DEF Writable, Mentions, Holds
<1> QED BY <1>1, <1>2, <1>3 DEF ToTrans

LEMMA EquationsKnown ==
  ASSUME IInv, KeepsKinds, Known, NEW S
  PROVE  \A c \in EquationsOf(Keep(state_updates_, S)) : Mentions(c) \subseteq Writable
<1> DEFINE upd == Keep(state_updates_, S)
<1>1. \A s \in DOMAIN upd : s \in statevars_ /\ upd[s] \subseteq Readable
  BY DEF Keep, Known, KnownUpdates
<1>2. \A s \in DOMAIN upd : next_map_[s] \in next_statevars_
  BY <1>1, StatesInMap
<1> HIDE DEF upd
<1>3. ASSUME NEW s \in DOMAIN upd
      PROVE  Mentions(Equal(next_map_[s], upd[s])) \subseteq Writable
  BY <1>1, <1>2 DEF Writable, Mentions, Equal
<1>4. \A c \in EquationsOf(upd) : Mentions(c) \subseteq Writable
  BY <1>3 DEF EquationsOf
<1> QED BY <1>4 DEF upd

\* All constraints put back, or the first of them.
LEMMA ReaddedKnown ==
  ASSUME IInv, KeepsKinds, Known, NEW k \in 0 .. Len(constraints_), NEW S
  PROVE  /\ \A c \in TransOf(S, Readded(k)) : Mentions(c) \subseteq Writable
         /\ \A c \in Readded(k) : \A t \in ToInit(c) : t \subseteq statevars_
<1>1. \A c \in Readded(k) : c.term \subseteq Readable
  <2>1. \A i \in 1 .. k : i \in DOMAIN constraints_
    BY ConstraintTypes DEF IInv, Written, LogicTyped
  <2> QED BY <2>1 DEF Readded, Known, KnownConstraints
<1>2. \A c \in Readded(k) : /\ \A d \in ToTrans(c) : Mentions(d) \subseteq Writable
                            /\ \A t \in ToInit(c) : t \subseteq statevars_
  BY <1>1, ToTransKnown
<1>3. \A c \in EquationsOf(Keep(state_updates_, S)) : Mentions(c) \subseteq Writable
  BY EquationsKnown
<1> QED BY <1>2, <1>3 DEF TransOf

LEMMA InitKnows ==
  ASSUME Known, InputsHaveNoNext, InitTerm, UNCHANGED caller
  PROVE  Known' /\ InputsHaveNoNext'
<1>0. PICK t \in caller.terms : Meant(only_curr(t), t) /\ (set_init(t) \/ constrain_init(t))
  BY DEF InitTerm
<1>1. /\ init_' \subseteq init_ \cup {t}
      /\ Never({"unchecked"}) => only_curr(t)
      /\ UNCHANGED <<registry, maps, names, state_updates_, trans_, constraints_>>
  BY <1>0 DEF set_init, constrain_init, Meant, Never
<1>2. Readable' = Readable /\ Writable' = Writable /\ UNCHANGED statevars_
  BY <1>1, RegistryStays DEF maps
<1>3. KnownInit'
  <2> SUFFICES ASSUME Never({"unchecked"}) PROVE UNION init_' \subseteq statevars_
    BY <1>2, HabitsStay DEF KnownInit
  <2>1. t \subseteq statevars_ /\ UNION init_ \subseteq statevars_
    BY <1>1 DEF only_curr, Known, KnownInit
  <2> QED BY <1>1, <2>1
<1>4. KnownTrans' /\ KnownUpdates' /\ KnownConstraints'
  BY <1>1, <1>2 DEF Known, KnownTrans, KnownUpdates, KnownConstraints
<1> QED BY <1>1, <1>3, <1>4, WritingKnows

LEMMA AssignKnows ==
  ASSUME IInv, KeepsKinds, Known, InputsHaveNoNext, NEW s, NEW t, assign_next(s, t),
         UNCHANGED caller
  PROVE  Known' /\ InputsHaveNoNext'
<1>1. /\ s \in statevars_ /\ no_next(t) /\ state_updates_' = Put(state_updates_, s, t)
      /\ trans_' = trans_ \cup {Equal(next_map_[x], t) : x \in {s} \cap DOMAIN next_map_}
      /\ UNCHANGED <<registry, maps, names, init_, constraints_>>
  BY DEF assign_next
<1>2. Readable' = Readable /\ Writable' = Writable /\ UNCHANGED statevars_
  BY <1>1, RegistryStays DEF maps
<1>3. t \subseteq Readable
  BY <1>1 DEF no_next, Readable
<1>4. Mentions(Equal(next_map_[s], t)) \subseteq Writable
  BY <1>1, <1>3, StatesInMap DEF Writable, Mentions, Equal
<1>5. KnownTrans'
  BY <1>1, <1>2, <1>4 DEF Known, KnownTrans
<1>6. KnownUpdates'
  BY <1>1, <1>2, <1>3 DEF Known, KnownUpdates, Put
<1>7. KnownInit' /\ KnownConstraints'
  BY <1>1, <1>2, HabitsStay DEF Known, KnownInit, KnownConstraints
<1> QED BY <1>1, <1>5, <1>6, <1>7, WritingKnows

LEMMA ConstraintKnows ==
  ASSUME IInv, KeepsKinds, Known, InputsHaveNoNext,
         NEW c \in [term : SUBSET Symbol, everywhere : BOOLEAN], no_next(c.term),
         init_' \subseteq init_ \cup ToInit(c), trans_' \subseteq trans_ \cup ToTrans(c),
         constraints_' = Append(constraints_, c),
         UNCHANGED <<caller, registry, maps, names, state_updates_>>
  PROVE  Known' /\ InputsHaveNoNext'
<1>1. Readable' = Readable /\ Writable' = Writable /\ UNCHANGED statevars_
  BY RegistryStays DEF maps
<1>2. c.term \subseteq Readable
  BY DEF no_next, Readable
<1>3. KnownTrans'
  BY <1>1, <1>2, ToTransKnown DEF Known, KnownTrans
<1>4. KnownInit'
  BY <1>1, <1>2, ToTransKnown, HabitsStay DEF Known, KnownInit
<1>5. KnownUpdates'
  BY <1>1 DEF Known, KnownUpdates
<1>6. KnownConstraints'
  <2> DEFINE C == [term : SUBSET Symbol, everywhere : BOOLEAN]
  <2>1. constraints_ \in Seq(C) /\ c \in C
    BY DEF IInv, Written, LogicTyped
  <2> HIDE DEF C
  <2>2. \A i \in DOMAIN constraints_' :
          \/ i \in DOMAIN constraints_ /\ constraints_'[i] = constraints_[i]
          \/ constraints_'[i] = c
    BY <2>1
  <2>3. \A i \in DOMAIN constraints_' : constraints_'[i].term \subseteq Readable
    BY <1>2, <2>2 DEF Known, KnownConstraints
  <2> QED BY <1>1, <2>3 DEF KnownConstraints
<1> QED BY <1>3, <1>4, <1>5, <1>6, WritingKnows

LEMMA ConstraintsKnow ==
  ASSUME IInv, KeepsKinds, Known, InputsHaveNoNext, AddConstraints, UNCHANGED caller
  PROVE  Known' /\ InputsHaveNoNext'
<1>1. PICK t \in caller.terms :
        \/ \E b \in BOOLEAN : add_constraint(t, b)
        \/ add_invar(t)
        \/ constrain_inputs(t)
  BY DEF AddConstraints
<1>2. t \in SUBSET Symbol
  BY NamesAssumption DEF IInv
<1>3. ASSUME NEW b \in BOOLEAN, add_constraint(t, b)
      PROVE  Known' /\ InputsHaveNoNext'
  <2> DEFINE c == Constraint(t, b)
  <2>1. /\ no_next(t) /\ init_' = init_ \cup ToInit(c) /\ trans_' = trans_ \cup ToTrans(c)
        /\ constraints_' = Append(constraints_, c)
        /\ UNCHANGED <<registry, maps, names, state_updates_>>
    BY <1>3 DEF add_constraint
  <2>2. c \in [term : SUBSET Symbol, everywhere : BOOLEAN] /\ c.term = t
    BY <1>2 DEF Constraint
  <2> HIDE DEF c
  <2> QED BY <2>1, <2>2, ConstraintKnows
<1>4. ASSUME constrain_inputs(t)
      PROVE  Known' /\ InputsHaveNoNext'
  <2> DEFINE c == Constraint(t, TRUE)
  <2>1. /\ no_next(t) /\ init_' = init_ /\ trans_' = trans_ \cup {Holds(t)}
        /\ constraints_' = Append(constraints_, c)
        /\ UNCHANGED <<registry, maps, names, state_updates_>>
    BY <1>4 DEF constrain_inputs
  <2>2. c \in [term : SUBSET Symbol, everywhere : BOOLEAN] /\ c.term = t
    BY <1>2 DEF Constraint
  <2> HIDE DEF c
  <2>3. Holds(t) \in ToTrans(c)
    BY <2>2 DEF ToTrans
  <2> QED BY <2>1, <2>2, <2>3, ConstraintKnows
<1> QED BY <1>1, <1>3, <1>4 DEF add_invar

LEMMA NamingKnows ==
  ASSUME Known, InputsHaveNoNext, NameTerm, UNCHANGED caller
  PROVE  Known' /\ InputsHaveNoNext'
<1>1. PICK n, t : /\ Meant(no_next(t), t) /\ name_term(n, t)
                  /\ UNCHANGED <<registry, maps, logic>>
  BY DEF NameTerm
<1>2. /\ Readable' = Readable /\ Writable' = Writable /\ InputsHaveNoNext'
      /\ UNCHANGED <<statevars_, state_updates_, init_, trans_, constraints_>>
  BY <1>1, RegistryStays DEF maps, logic
<1>3. \A k \in DOMAIN named_terms_' :
        \/ k \in DOMAIN named_terms_ /\ named_terms_'[k] = named_terms_[k]
        \/ named_terms_'[k] = t
  BY <1>1 DEF name_term, Put
<1>4. Never({"unchecked"}) => t \subseteq Writable
  BY <1>1 DEF Meant, Never, no_next, Readable, Writable
<1>5. KnownNames'
  BY <1>2, <1>3, <1>4, HabitsStay DEF Known, KnownNames
<1>6. KnownInit' /\ KnownTrans' /\ KnownUpdates' /\ KnownConstraints'
  BY <1>2, HabitsStay DEF Known, KnownInit, KnownTrans, KnownUpdates, KnownConstraints
<1> QED BY <1>2, <1>5, <1>6 DEF Known

\* The ways of putting constraints back leave what they add registered.
LEMMA PuttingBackKnows ==
  ASSUME IInv, KeepsKinds, Known, NEW S,
         \/ TransCutShort(S)
         \/ \E k \in 0 .. Len(constraints_) :
              /\ ReaddedFirst(k) /\ trans_' = TransOf(S, Readded(k))
              /\ \/ constraints_' = SubSeq(constraints_, 1, k)
                 \/ constraints_' = constraints_ \o SubSeq(constraints_, 1, k)
  PROVE  /\ Never({"unchecked"}) => UNION init_' \subseteq statevars_
         /\ \A c \in trans_' : Mentions(c) \subseteq Writable
         /\ \A i \in DOMAIN constraints_' : constraints_'[i].term \subseteq Readable
<1>1. CASE TransCutShort(S)
  BY <1>1, EquationsKnown DEF TransCutShort, Known, KnownInit, KnownConstraints
<1>2. CASE \E k \in 0 .. Len(constraints_) :
             /\ ReaddedFirst(k) /\ trans_' = TransOf(S, Readded(k))
             /\ \/ constraints_' = SubSeq(constraints_, 1, k)
                \/ constraints_' = constraints_ \o SubSeq(constraints_, 1, k)
  <2>1. PICK k \in 0 .. Len(constraints_) :
          /\ ReaddedFirst(k) /\ trans_' = TransOf(S, Readded(k))
          /\ \/ constraints_' = SubSeq(constraints_, 1, k)
             \/ constraints_' = constraints_ \o SubSeq(constraints_, 1, k)
    BY <1>2
  <2> DEFINE C == [term : SUBSET Symbol, everywhere : BOOLEAN]
  <2>2. constraints_ \in Seq(C) /\ Len(constraints_) \in Nat
    BY ConstraintTypes DEF IInv, Written, LogicTyped
  <2> HIDE DEF C
  <2>3. k \in Nat /\ k <= Len(constraints_)
    BY <2>2
  <2>4. \A i \in DOMAIN constraints_' :
          \E j \in DOMAIN constraints_ : constraints_'[i] = constraints_[j]
    <3>1. /\ SubSeq(constraints_, 1, k) \in Seq(C) /\ Len(SubSeq(constraints_, 1, k)) = k
          /\ \A i \in 1 .. k : SubSeq(constraints_, 1, k)[i] = constraints_[i] /\ i \in DOMAIN constraints_
      BY <2>2, <2>3, SubSeqProperties
    <3>2. CASE constraints_' = SubSeq(constraints_, 1, k)
      BY <3>1, <3>2
    <3>3. CASE constraints_' = constraints_ \o SubSeq(constraints_, 1, k)
      BY <3>3, RepeatedConstraints
    <3> QED BY <2>1, <3>2, <3>3
  <2>5. /\ \A c \in TransOf(S, Readded(k)) : Mentions(c) \subseteq Writable
        /\ \A c \in Readded(k) : \A t \in ToInit(c) : t \subseteq statevars_
    BY ReaddedKnown
  <2>6. \A i \in DOMAIN constraints_' : constraints_'[i].term \subseteq Readable
    BY <2>4 DEF Known, KnownConstraints
  <2>7. Never({"unchecked"}) => UNION init_' \subseteq statevars_
    BY <2>1, <2>5 DEF ReaddedFirst, Known, KnownInit
  <2> QED BY <2>1, <2>5, <2>6, <2>7
<1> QED BY <1>1, <1>2

\* The reduction forgets variables that formulas do not mention any more.
LEMMA RebuildKnows ==
  ASSUME IInv, IInv', Habits, "rebuild" \in caller.operations, Known, InputsHaveNoNext,
         NEW S \in SUBSET statevars_, NEW I \in SUBSET inputvars_,
         rebuild_trans_based_on_coi(S, I), UNCHANGED caller
  PROVE  Known' /\ InputsHaveNoNext'
<1>0. /\ UNCHANGED <<symbols, next_statevars_, next_map_, curr_map_>> /\ InCone(S, I)
      /\ Never({"unchecked"}) /\ KeepsKinds
  BY HabitsForbid DEF rebuild_trans_based_on_coi, maps, KeepsKinds, Never
<1>1. FailedPromotions' = FailedPromotions
  BY <1>0 DEF FailedPromotions
<1>2. CASE /\ \/ TransCutShort(S)
              \/ ReaddedPart /\ trans_' = TransOf(S, Readded(Len(constraints_')))
           /\ UNCHANGED <<statevars_, inputvars_, state_updates_, names>>
  <2>1. \/ TransCutShort(S)
        \/ \E k \in 0 .. Len(constraints_) :
             /\ ReaddedFirst(k) /\ trans_' = TransOf(S, Readded(k))
             /\ constraints_' = SubSeq(constraints_, 1, k)
    <3>1. ASSUME NEW k \in 0 .. Len(constraints_) - 1,
                 ReaddedFirst(k), constraints_' = SubSeq(constraints_, 1, k)
          PROVE  k \in 0 .. Len(constraints_) /\ Len(constraints_') = k
      BY <3>1, ConstraintTypes, ReaddedFirstTypes
    <3> QED BY <1>2, <3>1 DEF ReaddedPart
  <2>2. /\ UNION init_' \subseteq statevars_
        /\ \A c \in trans_' : Mentions(c) \subseteq Writable
        /\ \A i \in DOMAIN constraints_' : constraints_'[i].term \subseteq Readable
    BY <1>0, <2>1, PuttingBackKnows
  <2>3. /\ UNCHANGED <<registry, maps, names, statevars_, inputvars_, state_updates_>>
        /\ Readable' = Readable /\ Writable' = Writable
    BY <1>0, <1>1, <1>2 DEF registry, maps, Readable, Writable
  <2>4. KnownInit' /\ KnownTrans' /\ KnownUpdates' /\ KnownConstraints'
    BY <2>2, <2>3 DEF KnownInit, KnownTrans, Known, KnownUpdates, KnownConstraints
  <2> QED BY <2>3, <2>4, WritingKnows
<1>3. CASE /\ ReaddedAll
           /\ trans_' = TransOf(S, Readded(Len(constraints_)))
           /\ statevars_' = Kept(S, init_') /\ inputvars_' = I
           /\ state_updates_' = Keep(state_updates_, S)
           /\ named_terms_' = Keep(named_terms_, NamesOver(statevars_' \cup I))
           /\ UNCHANGED constraints_
  <2>1. KnownInit' /\ S \subseteq statevars_'
    BY <1>3 DEF KnownInit, Kept
  <2> DEFINE F == S \cup I \cup FailedPromotions
  <2>2. F \subseteq Readable'
    BY <1>1, <1>3, <2>1 DEF Readable
  <2>3. \A i \in DOMAIN constraints_ : constraints_[i].term \subseteq F
    BY <1>0 DEF InCone, Known, KnownConstraints, Readable
  <2>4. KnownConstraints'
    BY <1>3, <2>2, <2>3 DEF KnownConstraints
  <2> DEFINE upd == Keep(state_updates_, S)
  <2>5. \A s \in DOMAIN upd : s \in S /\ upd[s] \subseteq F
    BY <1>0 DEF Keep, InCone, Known, KnownUpdates, Readable
  <2>6. KnownUpdates'
    BY <1>3, <2>1, <2>2, <2>5 DEF KnownUpdates
  <2>7. KnownTrans'
    <3>1. ASSUME NEW c \in EquationsOf(upd)
          PROVE  Mentions(c) \subseteq F \cup next_statevars_
      <4> HIDE DEF upd
      <4>1. PICK s \in DOMAIN upd : c = Equal(next_map_[s], upd[s])
        BY <3>1 DEF EquationsOf
      <4>2. s \in S /\ upd[s] \subseteq F /\ next_map_[s] \in next_statevars_
        BY <1>0, <2>5, <4>1, StatesInMap
      <4> QED BY <4>1, <4>2 DEF Mentions, Equal
    <3>2. ASSUME NEW c \in Readded(Len(constraints_)), NEW d \in ToTrans(c)
          PROVE  Mentions(d) \subseteq F \cup next_statevars_
      <4>1. c.term \subseteq F
        <5>1. \A i \in 1 .. Len(constraints_) : i \in DOMAIN constraints_
          BY DEF IInv, Written, LogicTyped
        <5> QED BY <2>3, <5>1 DEF Readded
      <4>2. CASE d = Holds(c.term)
        BY <4>1, <4>2 DEF Holds, Mentions
      <4>3. CASE d # Holds(c.term)
        <5>1. PICK t \in ToInit(c) : d = Holds(Substitute(t, next_map_))
          BY <4>3 DEF ToTrans
        <5>2. \A x \in t : x \in DOMAIN next_map_ /\ next_map_[x] \in next_statevars_
          BY <1>0, ToInitOverStates, StatesInMap
        <5>3. Substitute(t, next_map_) \subseteq next_statevars_
          BY <5>2 DEF Substitute, Apply
        <5> QED BY <5>1, <5>3 DEF Holds, Mentions
      <4> QED BY <4>2, <4>3
    <3>3. \A c \in trans_' : Mentions(c) \subseteq F \cup next_statevars_
      BY <1>3, <3>1, <3>2 DEF TransOf
    <3>4. F \cup next_statevars_ \subseteq Writable'
      BY <1>0, <2>2 DEF Writable
    <3> QED BY <3>3, <3>4 DEF KnownTrans
  <2>8. KnownNames'
    <3> DEFINE vars == statevars_' \cup I
    <3>1. \A n \in DOMAIN named_terms_' :
            \A v \in named_terms_'[n] : Apply(curr_map_, v) \in vars
      BY <1>3 DEF Keep, NamesOver
    <3>2. \A v : Apply(curr_map_, v) \in vars => v \in vars \cup next_statevars_
      BY <1>0 DEF Apply, IInv, Registered, CurrentOfNext
    <3>3. vars \cup next_statevars_ \subseteq Writable'
      BY <1>0, <1>3 DEF Readable, Writable
    <3> HIDE DEF vars
    <3> QED BY <3>1, <3>2, <3>3 DEF KnownNames
  <2>9. InputsHaveNoNext'
    BY <1>0, <1>3 DEF InputsHaveNoNext
  <2> QED BY <2>1, <2>4, <2>6, <2>7, <2>8, <2>9 DEF Known
<1> QED BY <1>2, <1>3 DEF rebuild_trans_based_on_coi

LEMMA DropKnows ==
  ASSUME IInv, KeepsKinds, Known, InputsHaveNoNext, NEW D \in SUBSET statevars_,
         drop_state_updates(D), UNCHANGED caller
  PROVE  Known' /\ InputsHaveNoNext'
<1> DEFINE S == DOMAIN state_updates_ \ D
<1>1. /\ UNCHANGED <<registry, maps, names, statevars_>>
      /\ state_updates_' = Keep(state_updates_, S)
  BY DEF drop_state_updates, registry
<1>2. Readable' = Readable /\ Writable' = Writable
  BY <1>1, RegistryStays DEF maps
<1>3. KnownUpdates'
  BY <1>1, <1>2 DEF Known, KnownUpdates, Keep
<1>4. /\ Never({"unchecked"}) => UNION init_' \subseteq statevars_
      /\ \A c \in trans_' : Mentions(c) \subseteq Writable
      /\ \A i \in DOMAIN constraints_' : constraints_'[i].term \subseteq Readable
  <2>1. CASE UNCHANGED <<init_, trans_, constraints_>>
    BY <2>1 DEF Known, KnownInit, KnownTrans, KnownConstraints
  <2>2. CASE TransCutShort(S)
    BY <2>2, PuttingBackKnows
  <2>3. CASE \E k \in 0 .. Len(constraints_) :
               /\ ReaddedFirst(k) /\ trans_' = TransOf(S, Readded(k))
               /\ constraints_' = constraints_ \o SubSeq(constraints_, 1, k)
    BY <2>3, PuttingBackKnows
  <2> QED BY <2>1, <2>2, <2>3 DEF drop_state_updates
<1>5. KnownInit' /\ KnownTrans' /\ KnownConstraints'
  BY <1>1, <1>2, <1>4, HabitsStay DEF KnownInit, KnownTrans, KnownConstraints
<1> QED BY <1>1, <1>3, <1>5, WritingKnows
-----------------------------------------------------------------------------
LEMMA InitKInv == Init => KInv
<1> SUFFICES ASSUME Init PROVE InputsHaveNoNext /\ NextNamesTaken /\ Known
  BY DEF KInv
<1>1. /\ DOMAIN state_updates_ = {} /\ DOMAIN named_terms_ = {} /\ DOMAIN constraints_ = {}
      /\ DOMAIN next_map_ = {}
  BY DEF Init
<1> QED BY <1>1 DEF Init, InputsHaveNoNext, NextNamesTaken, Known, KnownInit, KnownTrans,
                    KnownUpdates, KnownConstraints, KnownNames

\* Who makes symbols.
LEMMA NextNamesStayTaken ==
  ASSUME IInv, Habits, InputsHaveNoNext, NextNamesTaken, NextNamesAreFree, [Next]_tsvars
  PROVE  NextNamesTaken'
<1>1. ASSUME UNCHANGED <<symbols, next_map_>>
      PROVE  NextNamesTaken'
  BY <1>1 DEF NextNamesTaken
<1>2. ASSUME NEW n \in caller.inputs, make_inputvar(n)
      PROVE  NextNamesTaken'
  <2>1. symbols' = symbols \cup {n} /\ UNCHANGED next_map_
    BY <1>2 DEF make_inputvar, add_inputvar, maps
  <2>2. \A m \in Base : NextName[m] # n
    BY DEF NextNamesAreFree
  <2> QED BY <2>1, <2>2 DEF NextNamesTaken
<1>3. ASSUME NEW n \in Base, n \in caller.states, symbols' = symbols \cup {n, NextName[n]},
             Register(n, NextName[n], inputvars_ \ {n})
      PROVE  NextNamesTaken'
  <2>1. next_map_' = Put(next_map_, n, NextName[n])
    BY <1>3 DEF Register
  <2> SUFFICES ASSUME NEW m \in Base, NextName[m] \in symbols', m # n
               PROVE  m \in DOMAIN next_map_
    BY <2>1 DEF NextNamesTaken, Put
  <2>2. NextName[m] # n
    BY <1>3 DEF NextNamesAreFree
  <2>3. NextName[m] # NextName[n]
    BY NamesAssumption
  <2> QED BY <1>3, <2>2, <2>3 DEF NextNamesTaken
<1>4. caller.states \subseteq Base
  BY NamesAssumption DEF IInv
<1>5. CASE UNCHANGED tsvars
  BY <1>1, <1>5 DEF tsvars, registry, maps
<1>6. CASE Step
  <2>1. CASE \E n \in caller.inputs : make_inputvar(n)
    BY <1>2, <2>1
  <2>2. ASSUME NEW n \in caller.states, make_statevar(n)
        PROVE  NextNamesTaken'
    <3>1. n \notin symbols /\ inputvars_ \ {n} = inputvars_
      BY <2>2 DEF make_statevar, IInv, Registered, RegistryTyped
    <3>2. NextName[n] \notin symbols
      BY <1>4, <3>1 DEF NextNamesTaken, InputsHaveNoNext
    <3>3. symbols' = symbols \cup {n, NextName[n]} /\ Register(n, NextName[n], inputvars_ \ {n})
      BY <2>2, <3>1, <3>2 DEF make_statevar
    <3> QED BY <1>3, <1>4, <3>3
  <2>3. CASE InitTerm
    BY <1>1, <2>3 DEF InitTerm, set_init, constrain_init, registry, maps
  <2>4. CASE \E s \in statevars_, t \in caller.terms : assign_next(s, t)
    BY <1>1, <2>4 DEF assign_next, registry, maps
  <2>5. CASE AddConstraints
    BY <1>1, <2>5 DEF AddConstraints, add_invar, add_constraint, constrain_inputs, registry, maps
  <2>6. CASE NameTerm
    BY <1>1, <2>6 DEF NameTerm, registry, maps
  <2>7. CASE Rebuild
    BY <1>1, <2>7 DEF Rebuild, rebuild_trans_based_on_coi, maps
  <2>8. ASSUME NEW iv \in inputvars_ \cap caller.states, promote_inputvar(iv)
        PROVE  NextNamesTaken'
    <3>1. iv \in symbols /\ iv \in Base /\ iv \notin DOMAIN next_map_
      BY <1>4 DEF IInv, Registered, RegistryTyped, InputsHaveNoNext
    <3>2. NextName[iv] \notin symbols /\ ~Redeclared(iv, NextName[iv])
      BY <3>1, KindsApart DEF NextNamesTaken, Redeclared
    <3>3. /\ symbols' = symbols \cup {iv, NextName[iv]}
          /\ Register(iv, NextName[iv], inputvars_ \ {iv})
      BY <2>8, <3>1, <3>2 DEF promote_inputvar
    <3> QED BY <1>3, <3>1, <3>3
  <2>9. CASE \E D \in SUBSET statevars_ : drop_state_updates(D)
    BY <1>1, <2>9 DEF drop_state_updates, registry, maps
  <2> QED BY <1>6, <2>1, <2>2, <2>3, <2>4, <2>5, <2>6, <2>7, <2>8, <2>9, HabitsForbid DEF Step
<1> QED BY <1>5, <1>6 DEF Next

LEMMA NextKnows == IInv /\ IInv' /\ KInv /\ [Next]_tsvars => KInv'
<1> SUFFICES ASSUME IInv, IInv', KInv, [Next]_tsvars PROVE KInv'
  OBVIOUS
<1>0. UNCHANGED caller
  BY DEF tsvars, Next
<1> SUFFICES ASSUME Habits
             PROVE  InputsHaveNoNext' /\ Known' /\ (NextNamesAreFree => NextNamesTaken')
  BY <1>0, HabitsStay DEF KInv
<1>1. InputsHaveNoNext /\ Known /\ (NextNamesAreFree => NextNamesTaken)
  BY DEF KInv
<1>2. NextNamesAreFree => NextNamesTaken'
  BY <1>1, NextNamesStayTaken
<1>3. KeepsKinds /\ "replace" \notin caller.operations /\ "add" \notin caller.operations
  BY HabitsForbid
<1> SUFFICES Known' /\ InputsHaveNoNext'
  BY <1>2
<1>4. CASE UNCHANGED tsvars
  <2>1. UNCHANGED <<caller, registry, maps, names, state_updates_, init_, trans_, constraints_>>
    BY <1>4 DEF tsvars, logic
  <2>2. Readable' = Readable /\ Writable' = Writable /\ UNCHANGED statevars_
    BY <2>1, RegistryStays DEF maps
  <2>3. KnownInit' /\ KnownTrans' /\ KnownUpdates' /\ KnownConstraints'
    BY <1>1, <2>1, <2>2, HabitsStay DEF Known, KnownInit, KnownTrans, KnownUpdates, KnownConstraints
  <2> QED BY <1>1, <2>1, <2>3, WritingKnows
<1>5. CASE Step
  <2>1. caller.states \subseteq Base
    BY NamesAssumption DEF IInv
  <2>2. CASE \E n \in caller.inputs : make_inputvar(n)
    BY <1>0, <1>1, <2>2, MakeInputKnows
  <2>3. CASE \E n \in caller.states : make_statevar(n)
    BY <1>0, <1>1, <2>1, <2>3, MakeStateKnows
  <2>4. CASE InitTerm
    BY <1>0, <1>1, <2>4, InitKnows
  <2>5. CASE \E s \in statevars_, t \in caller.terms : assign_next(s, t)
    BY <1>0, <1>1, <1>3, <2>5, AssignKnows
  <2>6. CASE AddConstraints
    BY <1>0, <1>1, <1>3, <2>6, ConstraintsKnow
  <2>7. CASE NameTerm
    BY <1>0, <1>1, <2>7, NamingKnows
  <2>8. CASE "rebuild" \in caller.operations /\ Rebuild
    BY <1>0, <1>1, <2>8, RebuildKnows DEF Rebuild
  <2>9. CASE /\ "promote" \in caller.operations
             /\ \E iv \in inputvars_ \cap caller.states : promote_inputvar(iv)
    BY <1>0, <1>1, <2>1, <2>9, PromoteKnows
  <2>10. CASE \E D \in SUBSET statevars_ : drop_state_updates(D)
    BY <1>0, <1>1, <1>3, <2>10, DropKnows
  <2> QED BY <1>3, <1>5, <2>2, <2>3, <2>4, <2>5, <2>6, <2>7, <2>8, <2>9, <2>10 DEF Step
<1> QED BY <1>4, <1>5 DEF Next

LEMMA KnownInvariance == Spec => []KInv
<1> QED BY InitKInv, NextKnows, Invariance, PTL DEF Spec

\* The formulas of programs that call neither replace_terms nor add_statevar, and
\* do not reduce a system whose init_ is over other symbols than states, mention
\* registered variables and inputs whose promotion failed, and nothing else.
THEOREM SymbolsStayKnown == Spec => []SymbolsKnown
<1>1. KInv => SymbolsKnown
  BY DEF KInv, Habits, Known, KnownInit, KnownTrans, KnownUpdates, KnownConstraints,
         KnownNames, SymbolsKnown, Readable, Writable, known_symbols, no_next
<1> QED BY <1>1, KnownInvariance, PTL
-----------------------------------------------------------------------------
(***************************************************************************)
(* Formulas are written over current variables                             *)
(***************************************************************************)

\* What a program writes is over symbols that are no next state variables: those
\* of later registrations are new.
Apart(t) == t \subseteq symbols \ next_statevars_

FormulasApart ==
  Habits =>
    /\ \A s \in DOMAIN state_updates_ : Apart(state_updates_[s])
    /\ \A i \in DOMAIN constraints_ : Apart(constraints_[i].term)

LEMMA NoNextIsApart ==
  ASSUME IInv, Habits, NEW t, no_next(t)
  PROVE  Apart(t)
BY KindsApart DEF no_next, Apart

\* New next state variables were no symbols; the formulas are those there were.
LEMMA StayApart ==
  ASSUME FormulasApart, Habits,
         symbols \subseteq symbols', next_statevars_' \cap symbols \subseteq next_statevars_,
         \A s \in DOMAIN state_updates_' :
            s \in DOMAIN state_updates_ /\ state_updates_'[s] = state_updates_[s],
         \A i \in DOMAIN constraints_' :
            \E j \in DOMAIN constraints_ : constraints_'[i] = constraints_[j]
  PROVE  FormulasApart'
<1>1. ASSUME NEW i \in DOMAIN constraints_'
      PROVE  constraints_'[i].term \subseteq symbols' \ next_statevars_'
  <2>1. PICK j \in DOMAIN constraints_ : constraints_'[i] = constraints_[j]
    BY <1>1
  <2>2. constraints_[j].term \subseteq symbols \ next_statevars_
    BY DEF FormulasApart, Apart
  <2> QED BY <2>1, <2>2
<1>2. ASSUME NEW s \in DOMAIN state_updates_'
      PROVE  state_updates_'[s] \subseteq symbols' \ next_statevars_'
  <2>1. state_updates_[s] \subseteq symbols \ next_statevars_
    BY <1>2 DEF FormulasApart, Apart
  <2> QED BY <1>2, <2>1
<1> QED BY <1>1, <1>2 DEF FormulasApart, Apart

\* What is put back on trans_ was recorded before.
LEMMA OldConstraints ==
  ASSUME IInv,
         \/ UNCHANGED constraints_
         \/ \E S : TransCutShort(S)
         \/ ReaddedPart
         \/ \E k \in 0 .. Len(constraints_) :
              ReaddedFirst(k) /\ constraints_' = constraints_ \o SubSeq(constraints_, 1, k)
  PROVE  \A i \in DOMAIN constraints_' :
            \E j \in DOMAIN constraints_ : constraints_'[i] = constraints_[j]
<1> DEFINE C == [term : SUBSET Symbol, everywhere : BOOLEAN]
<1>1. constraints_ \in Seq(C) /\ Len(constraints_) \in Nat
  BY DEF IInv, Written, LogicTyped
<1> HIDE DEF C
<1>2. CASE UNCHANGED constraints_
  BY <1>2
<1>3. CASE \E S : TransCutShort(S)
  BY <1>3 DEF TransCutShort
<1>4. CASE ReaddedPart
  <2>1. PICK k \in 0 .. Len(constraints_) - 1 : constraints_' = SubSeq(constraints_, 1, k)
    BY <1>4 DEF ReaddedPart
  <2>2. \A i \in DOMAIN constraints_' :
          i \in DOMAIN constraints_ /\ constraints_'[i] = constraints_[i]
    BY <1>1, <2>1
  <2> QED BY <2>2
<1>5. ASSUME NEW k \in 0 .. Len(constraints_),
             constraints_' = constraints_ \o SubSeq(constraints_, 1, k)
      PROVE  \A i \in DOMAIN constraints_' :
                \E j \in DOMAIN constraints_ : constraints_'[i] = constraints_[j]
  BY <1>5, RepeatedConstraints
<1> QED BY <1>2, <1>3, <1>4, <1>5

LEMMA RebuildEffect ==
  ASSUME IInv, NEW S, NEW I, rebuild_trans_based_on_coi(S, I)
  PROVE  /\ UNCHANGED <<symbols, next_statevars_, next_map_, curr_map_>>
         /\ state_updates_' = state_updates_ \/ state_updates_' = Keep(state_updates_, S)
         /\ \A i \in DOMAIN constraints_' :
              \E j \in DOMAIN constraints_ : constraints_'[i] = constraints_[j]
<1>1. \/ UNCHANGED constraints_
      \/ \E R : TransCutShort(R)
      \/ ReaddedPart
  BY DEF rebuild_trans_based_on_coi
<1>2. \A i \in DOMAIN constraints_' :
        \E j \in DOMAIN constraints_ : constraints_'[i] = constraints_[j]
  BY <1>1, OldConstraints
<1> QED BY <1>2 DEF rebuild_trans_based_on_coi, maps

LEMMA DropEffect ==
  ASSUME IInv, NEW D, drop_state_updates(D)
  PROVE  /\ UNCHANGED <<registry, maps, names>>
         /\ state_updates_' = Keep(state_updates_, DOMAIN state_updates_ \ D)
         /\ \A i \in DOMAIN constraints_' :
              \E j \in DOMAIN constraints_ : constraints_'[i] = constraints_[j]
<1>1. \/ UNCHANGED constraints_
      \/ \E R : TransCutShort(R)
      \/ \E k \in 0 .. Len(constraints_) :
           ReaddedFirst(k) /\ constraints_' = constraints_ \o SubSeq(constraints_, 1, k)
  BY DEF drop_state_updates
<1>2. \A i \in DOMAIN constraints_' :
        \E j \in DOMAIN constraints_ : constraints_'[i] = constraints_[j]
  BY <1>1, OldConstraints
<1> QED BY <1>2 DEF drop_state_updates

\* A constraint is added last.
LEMMA OneMore ==
  ASSUME IInv, NEW c, constraints_' = Append(constraints_, c),
         c \in [term : SUBSET Symbol, everywhere : BOOLEAN]
  PROVE  /\ \A i \in DOMAIN constraints_' :
              (i \in DOMAIN constraints_ /\ constraints_'[i] = constraints_[i])
              \/ constraints_'[i] = c
         /\ \A i \in DOMAIN constraints_ :
              i \in DOMAIN constraints_' /\ constraints_'[i] = constraints_[i]
         /\ \E i \in DOMAIN constraints_' : constraints_'[i] = c
<1> DEFINE C == [term : SUBSET Symbol, everywhere : BOOLEAN]
<1>1. constraints_ \in Seq(C) /\ c \in C
  BY DEF IInv, Written, LogicTyped
<1> HIDE DEF C
<1>2. Len(constraints_) + 1 \in DOMAIN constraints_'
  BY <1>1
<1>3. constraints_'[Len(constraints_) + 1] = c
  BY <1>1
<1> QED BY <1>1, <1>2, <1>3

\* AddConstraints adds one constraint over current variables, and puts it on
\* trans_; a program that checks primes what is over state variables.
LEMMA ConstraintEffect ==
  ASSUME IInv, AddConstraints
  PROVE  \E c \in [term : SUBSET Symbol, everywhere : BOOLEAN] :
           /\ no_next(c.term)
           /\ trans_ \cup {Holds(c.term)} \subseteq trans_'
           /\ trans_' \subseteq trans_ \cup ToTrans(c)
           /\ Never({"unchecked"}) => trans_' = trans_ \cup ToTrans(c)
           /\ constraints_' = Append(constraints_, c)
           /\ UNCHANGED <<registry, maps, names, state_updates_>>
<1>1. PICK t \in caller.terms :
        \/ \E b \in BOOLEAN : add_constraint(t, b)
        \/ add_invar(t)
        \/ Meant(~only_curr(t), t) /\ constrain_inputs(t)
  BY DEF AddConstraints
<1>2. t \in SUBSET Symbol
  BY NamesAssumption DEF IInv
<1>3. ASSUME NEW b \in BOOLEAN
      PROVE  /\ Constraint(t, b) \in [term : SUBSET Symbol, everywhere : BOOLEAN]
             /\ Constraint(t, b).term = t
             /\ Holds(t) \in ToTrans(Constraint(t, b))
  BY <1>2 DEF Constraint, ToTrans
<1>4. ASSUME NEW b \in BOOLEAN, add_constraint(t, b)
      PROVE  /\ no_next(Constraint(t, b).term)
             /\ trans_' = trans_ \cup ToTrans(Constraint(t, b))
             /\ constraints_' = Append(constraints_, Constraint(t, b))
             /\ UNCHANGED <<registry, maps, names, state_updates_>>
  BY <1>3, <1>4 DEF add_constraint
<1>5. CASE Meant(~only_curr(t), t) /\ constrain_inputs(t)
  <2> DEFINE c == Constraint(t, TRUE)
  <2>1. /\ c.term = t /\ c \in [term : SUBSET Symbol, everywhere : BOOLEAN]
        /\ Holds(t) \in ToTrans(c)
    BY <1>3
  <2>2. /\ no_next(t) /\ trans_' = trans_ \cup {Holds(t)} /\ constraints_' = Append(constraints_, c)
        /\ UNCHANGED <<registry, maps, names, state_updates_>>
    BY <1>5 DEF constrain_inputs
  <2> HIDE DEF c
  <2>3. Never({"unchecked"}) => ToTrans(c) = {Holds(t)}
    BY <1>5, <2>1 DEF ToTrans, ToInit, Meant, Never
  <2> QED BY <2>1, <2>2, <2>3
<1>6. CASE \E b \in BOOLEAN : add_constraint(t, b)
  <2>1. PICK b \in BOOLEAN : add_constraint(t, b)
    BY <1>6
  <2> DEFINE c == Constraint(t, b)
  <2>2. /\ c.term = t /\ c \in [term : SUBSET Symbol, everywhere : BOOLEAN]
        /\ Holds(t) \in ToTrans(c) /\ no_next(c.term)
        /\ trans_' = trans_ \cup ToTrans(c) /\ constraints_' = Append(constraints_, c)
        /\ UNCHANGED <<registry, maps, names, state_updates_>>
    BY <1>3, <1>4, <2>1
  <2> HIDE DEF c
  <2> QED BY <2>2
<1> QED BY <1>1, <1>5, <1>6 DEF add_invar

\* A call that registers a state variable: its next state variable is new, and so
\* is the variable itself unless an input is promoted.
Declares(n) ==
  /\ n \in Base /\ n \notin statevars_ /\ NextName[n] \notin symbols
  /\ n \in symbols => "promote" \in caller.operations
  /\ statevars_' = statevars_ \cup {n}
  /\ next_statevars_' = next_statevars_ \cup {NextName[n]}
  /\ next_map_' = Put(next_map_, n, NextName[n])

Registers ==
  /\ UNCHANGED logic
  /\ symbols \subseteq symbols'
  /\ \/ UNCHANGED <<statevars_, next_statevars_, next_map_>>
     \/ \E n : Declares(n)

LEMMA RegistersWhen ==
  ASSUME IInv, Habits,
         \/ \E n : make_inputvar(n)
         \/ \E n \in Base : make_statevar(n)
         \/ /\ "promote" \in caller.operations
            /\ \E iv \in inputvars_ \cap Base : promote_inputvar(iv)
  PROVE  Registers
<1>1. CASE \E n : make_inputvar(n)
  BY <1>1 DEF make_inputvar, add_inputvar, maps, Registers
<1>2. CASE \E n \in Base : make_statevar(n)
  <2>1. PICK n \in Base : make_statevar(n)
    BY <1>2
  <2>2. CASE NextName[n] \in symbols
    BY <2>1, <2>2 DEF make_statevar, maps, Registers
  <2>3. CASE NextName[n] \notin symbols
    <3>1. n \notin symbols /\ n \notin statevars_
      BY <2>1 DEF make_statevar, IInv, Registered, RegistryTyped
    <3>2. Declares(n)
      BY <2>1, <2>3, <3>1 DEF make_statevar, Register, Declares
    <3> QED BY <2>1, <2>3, <3>2 DEF make_statevar, Registers
  <2> QED BY <2>2, <2>3
<1>3. CASE /\ "promote" \in caller.operations
           /\ \E iv \in inputvars_ \cap Base : promote_inputvar(iv)
  <2>1. PICK iv \in inputvars_ \cap Base : promote_inputvar(iv)
    BY <1>3
  <2>2. UNCHANGED logic /\ symbols \subseteq symbols'
    BY <2>1 DEF promote_inputvar
  <2>3. CASE UNCHANGED <<statevars_, next_statevars_, maps>>
    BY <2>2, <2>3 DEF maps, Registers
  <2>4. CASE NextName[iv] \notin symbols /\ Register(iv, NextName[iv], inputvars_ \ {iv})
    <3>1. iv \notin statevars_
      BY KindsApart
    <3>2. Declares(iv)
      BY <1>3, <2>4, <3>1 DEF Register, Declares
    <3> QED BY <2>2, <3>2 DEF Registers
  <2> QED BY <2>1, <2>3, <2>4 DEF promote_inputvar
<1> QED BY <1>1, <1>2, <1>3

\* Calls that touch neither variables nor what trans_ is made of.
Leaves == UNCHANGED <<symbols, statevars_, next_statevars_, next_map_,
                      state_updates_, trans_, constraints_>>

Assigns == \E s \in statevars_ : \E t : assign_next(s, t)

Drops == "drop" \in caller.operations /\ \E D \in SUBSET statevars_ : drop_state_updates(D)

Reduces == "rebuild" \in caller.operations /\ Rebuild

LEMMA Effects ==
  ASSUME IInv, Habits, [Next]_tsvars
  PROVE  Registers \/ Leaves \/ Assigns \/ AddConstraints \/ Reduces \/ Drops
<1>1. "replace" \notin caller.operations /\ "add" \notin caller.operations
  BY HabitsForbid
<1>2. caller.states \subseteq Base
  BY NamesAssumption DEF IInv
<1>3. CASE UNCHANGED tsvars
  BY <1>3 DEF tsvars, registry, maps, logic, Leaves
<1>4. ASSUME InitTerm
      PROVE  Leaves
  BY <1>4 DEF InitTerm, set_init, constrain_init, registry, maps, Leaves
<1>5. ASSUME NameTerm
      PROVE  Leaves
  BY <1>5 DEF NameTerm, registry, maps, logic, Leaves
<1>6. CASE Step
  <2>1. CASE \E n \in caller.inputs : make_inputvar(n)
    BY <2>1, RegistersWhen
  <2>2. CASE \E n \in caller.states : make_statevar(n)
    BY <1>2, <2>2, RegistersWhen
  <2>3. CASE /\ "promote" \in caller.operations
             /\ \E iv \in inputvars_ \cap caller.states : promote_inputvar(iv)
    BY <1>2, <2>3, RegistersWhen
  <2>4. CASE \E s \in statevars_, t \in caller.terms : assign_next(s, t)
    BY <2>4 DEF Assigns
  <2>5. CASE "drop" \in caller.operations /\ \E D \in SUBSET statevars_ : drop_state_updates(D)
    BY <2>5 DEF Drops
  <2>6. CASE "rebuild" \in caller.operations /\ Rebuild
    BY <2>6 DEF Reduces
  <2> QED BY <1>1, <1>4, <1>5, <1>6, <2>1, <2>2, <2>3, <2>4, <2>5, <2>6 DEF Step
<1> QED BY <1>3, <1>6 DEF Next

LEMMA NextStaysApart == IInv /\ FormulasApart /\ [Next]_tsvars => FormulasApart'
<1> SUFFICES ASSUME IInv, FormulasApart, [Next]_tsvars, Habits
             PROVE  FormulasApart'
  BY HabitsStay DEF FormulasApart, tsvars, Next
<1>1. CASE Registers
  <2>1. UNCHANGED <<state_updates_, constraints_>>
    BY <1>1 DEF Registers, logic
  <2>2. next_statevars_' \cap symbols \subseteq next_statevars_
    BY <1>1 DEF Registers, Declares
  <2> QED BY <1>1, <2>1, <2>2, StayApart DEF Registers
<1>2. CASE Leaves
  BY <1>2, StayApart DEF Leaves
<1>3. CASE Assigns
  <2>0. PICK s \in statevars_ : \E t : assign_next(s, t)
    BY <1>3 DEF Assigns
  <2>1. PICK t : assign_next(s, t)
    BY <2>0
  <2>2. Apart(t) /\ state_updates_' = Put(state_updates_, s, t)
    BY <2>1, NoNextIsApart DEF assign_next
  <2>3. UNCHANGED <<symbols, next_statevars_, constraints_>>
    BY <2>1 DEF assign_next, registry
  <2> QED BY <2>2, <2>3 DEF FormulasApart, Apart, Put
<1>4. CASE AddConstraints
  <2>1. PICK c \in [term : SUBSET Symbol, everywhere : BOOLEAN] :
          /\ no_next(c.term) /\ constraints_' = Append(constraints_, c)
          /\ UNCHANGED <<registry, maps, names, state_updates_>>
    BY <1>4, ConstraintEffect
  <2>2. Apart(c.term)
    BY <2>1, NoNextIsApart
  <2>3. UNCHANGED <<symbols, next_statevars_>>
    BY <2>1 DEF registry
  <2>4. \A i \in DOMAIN constraints_' :
          (i \in DOMAIN constraints_ /\ constraints_'[i] = constraints_[i])
          \/ constraints_'[i] = c
    BY <2>1, OneMore
  <2> QED BY <2>1, <2>2, <2>3, <2>4 DEF FormulasApart, Apart
<1>5. CASE Reduces
  <2>1. PICK S, I : rebuild_trans_based_on_coi(S, I)
    BY <1>5 DEF Reduces, Rebuild
  <2>2. /\ UNCHANGED <<symbols, next_statevars_>>
        /\ state_updates_' = state_updates_ \/ state_updates_' = Keep(state_updates_, S)
        /\ \A i \in DOMAIN constraints_' :
             \E j \in DOMAIN constraints_ : constraints_'[i] = constraints_[j]
    BY <2>1, RebuildEffect
  <2>3. \A s \in DOMAIN state_updates_' :
          s \in DOMAIN state_updates_ /\ state_updates_'[s] = state_updates_[s]
    BY <2>2 DEF Keep
  <2> QED BY <2>2, <2>3, StayApart
<1>6. CASE Drops
  <2>1. PICK D : drop_state_updates(D)
    BY <1>6 DEF Drops
  <2>2. /\ UNCHANGED <<symbols, next_statevars_>>
        /\ state_updates_' = Keep(state_updates_, DOMAIN state_updates_ \ D)
        /\ \A i \in DOMAIN constraints_' :
             \E j \in DOMAIN constraints_ : constraints_'[i] = constraints_[j]
    BY <2>1, DropEffect DEF registry
  <2>3. \A s \in DOMAIN state_updates_' :
          s \in DOMAIN state_updates_ /\ state_updates_'[s] = state_updates_[s]
    BY <2>2 DEF Keep
  <2> QED BY <2>2, <2>3, StayApart
<1> QED BY <1>1, <1>2, <1>3, <1>4, <1>5, <1>6, Effects
-----------------------------------------------------------------------------
(***************************************************************************)
(* trans_ is made of the updates and the constraints                       *)
(***************************************************************************)
Recorded == {constraints_[i] : i \in DOMAIN constraints_}

\* Every next state variable has the name of its variable.
NextByName ==
  Habits =>
    \A n \in DOMAIN next_map_ : n \in Base /\ next_map_[n] = NextName[n]

\* The constraints, as they are and primed; the variables of those that are primed
\* have next states, so that priming them again gives the same.
AsTheyAre == {Holds(c.term) : c \in Recorded}
Primed ==
  {Holds(Substitute(c.term, next_map_)) :
     c \in {d \in Recorded : d.everywhere /\ d.term \subseteq DOMAIN next_map_}}

\* Programs whose promotions do not fail.
Strict == Habits /\ (NextNamesAreFree \/ Never({"promote"}))

Rebuildable ==
  Strict =>
    /\ EquationsOf(state_updates_) \cup AsTheyAre \subseteq trans_
    /\ Never({"drop"}) =>
         trans_ \subseteq EquationsOf(state_updates_) \cup AsTheyAre \cup Primed

\* Without promotions it is known which constraints are primed.
MadeExactly ==
  Never({"replace", "add", "drop", "promote", "unchecked"}) =>
    trans_ = EquationsOf(state_updates_) \cup UNION {ToTrans(c) : c \in Recorded}

MadeOf == NextByName /\ Rebuildable /\ MadeExactly

\* Nothing but registered variables is in a formula.
Regular == Habits /\ Known /\ FailedPromotions = {}

LEMMA RegularWhen ==
  ASSUME KInv, Strict
  PROVE  Regular
<1>1. Habits /\ Known
  BY DEF Strict, KInv
<1>2. CASE NextNamesAreFree
  BY <1>1, <1>2 DEF KInv, NextNamesTaken, FailedPromotions, Regular
<1>3. CASE Never({"promote"})
  BY <1>1, <1>3 DEF Never, FailedPromotions, Regular
<1> QED BY <1>2, <1>3 DEF Strict

LEMMA ExactMeansStrict ==
  ASSUME Never({"replace", "add", "drop", "promote", "unchecked"})
  PROVE  Strict /\ Never({"unchecked"})
BY DEF Strict, Habits, KeepsKinds, Never

LEMMA MadeConditionsStay ==
  ASSUME UNCHANGED caller
  PROVE  /\ Habits' <=> Habits
         /\ Strict' <=> Strict
         /\ Never({"drop"})' <=> Never({"drop"})
         /\ Never({"replace", "add", "drop", "promote", "unchecked"})' <=> Never({"replace", "add", "drop", "promote", "unchecked"})
BY HabitsStay DEF Strict, Never

LEMMA RecordedTypes ==
  ASSUME IInv
  PROVE  /\ Readded(Len(constraints_)) = Recorded
         /\ \A c \in Recorded : c \in [term : SUBSET Symbol, everywhere : BOOLEAN]
<1> DEFINE C == [term : SUBSET Symbol, everywhere : BOOLEAN]
<1>1. constraints_ \in Seq(C)
  BY DEF IInv, Written, LogicTyped
<1> HIDE DEF C
<1>2. DOMAIN constraints_ = 1 .. Len(constraints_)
  BY <1>1
<1>3. \A c \in Recorded : c \in C
  BY <1>1 DEF Recorded
<1> QED BY <1>2, <1>3 DEF Readded, Recorded, C

\* next_map_.at finds every variable, and no constraint is refused when it is put
\* back.
LEMMA NothingIsRefused ==
  ASSUME IInv, Regular
  PROVE  /\ \A S : ~TransCutShort(S)
         /\ ~ReaddedPart
         /\ \A i \in DOMAIN constraints_ : no_next(constraints_[i].term)
<1>0. \A i \in DOMAIN constraints_ : no_next(constraints_[i].term)
  BY DEF Regular, Known, KnownConstraints, Readable, no_next
<1>1. \A S : ~TransCutShort(S)
  BY HabitsForbid, StatesInMap DEF TransCutShort, Regular, Known, KnownUpdates
<1>2. ASSUME ReaddedPart
      PROVE  FALSE
  <2>1. Len(constraints_) \in Nat /\ DOMAIN constraints_ = 1 .. Len(constraints_)
    BY DEF IInv, Written, LogicTyped
  <2>2. PICK k \in 0 .. Len(constraints_) - 1 : Readds(k)
    BY <1>2 DEF ReaddedPart, ReaddedFirst
  <2>3. k + 1 \in DOMAIN constraints_ /\ ~no_next(constraints_[k + 1].term)
    BY <2>1, <2>2 DEF Readds
  <2> QED BY <1>0, <2>3
<1> QED BY <1>0, <1>1, <1>2

LEMMA WholeRebuild ==
  ASSUME IInv, Regular, Never({"unchecked"}), NEW S \in SUBSET statevars_, NEW I,
         rebuild_trans_based_on_coi(S, I)
  PROVE  /\ trans_' = EquationsOf(Keep(state_updates_, S)) \cup UNION {ToTrans(c) : c \in Recorded}
         /\ state_updates_' = Keep(state_updates_, S)
         /\ S \subseteq statevars_' /\ statevars_' \subseteq statevars_
         /\ statevars_' \ S \subseteq UNION init_'
         /\ inputvars_' = I
         /\ UNCHANGED <<constraints_, next_map_>>
<1>1. /\ ReaddedAll
      /\ trans_' = TransOf(S, Readded(Len(constraints_)))
      /\ statevars_' = Kept(S, init_') /\ inputvars_' = I
      /\ state_updates_' = Keep(state_updates_, S)
      /\ UNCHANGED <<constraints_, next_map_>>
  BY NothingIsRefused DEF rebuild_trans_based_on_coi, maps
<1>2. UNION init_' \subseteq statevars_
  BY <1>1, ReaddedAllTypes, HabitsForbid DEF Regular, Never
<1> QED BY <1>1, <1>2, RecordedTypes DEF Kept, TransOf

\* Constraints that the reduction keeps are over what it keeps.
LEMMA ConstraintsInCone ==
  ASSUME Regular, NEW S, NEW I, InCone(S, I), NEW c \in Recorded
  PROVE  c.term \subseteq S \cup I
BY DEF InCone, Recorded, Regular, Known, KnownConstraints, Readable

LEMMA EquationsStay ==
  ASSUME IInv, Habits, Known, Registers
  PROVE  EquationsOf(state_updates_)' = EquationsOf(state_updates_)
<1>1. UNCHANGED state_updates_ /\ DOMAIN state_updates_ \subseteq statevars_
  BY DEF Registers, logic, Known, KnownUpdates
<1>2. \A x \in statevars_ : /\ x \in DOMAIN next_map_ /\ x \in DOMAIN next_map_'
                            /\ next_map_'[x] = next_map_[x]
  BY HabitsForbid, StatesInMap DEF Registers, Declares, Put
<1> QED BY <1>1, <1>2 DEF EquationsOf

LEMMA RegistersMade ==
  ASSUME IInv, Habits, Strict => Regular, MadeOf, Registers, UNCHANGED caller
  PROVE  MadeOf'
<1>1. /\ UNCHANGED <<trans_, state_updates_, constraints_>> /\ Recorded' = Recorded
      /\ KeepsKinds
  BY HabitsForbid DEF Registers, logic, Recorded
<1>2. NextByName'
  <2>1. \A n \in DOMAIN next_map_ : n \in Base /\ next_map_[n] = NextName[n]
    BY DEF MadeOf, NextByName
  <2>2. CASE UNCHANGED next_map_
    BY <2>1, <2>2 DEF NextByName
  <2>3. CASE \E n : Declares(n)
    BY <2>1, <2>3 DEF NextByName, Declares, Put
  <2> QED BY <2>2, <2>3 DEF Registers
<1>3. \A x \in DOMAIN next_map_ : x \in DOMAIN next_map_' /\ next_map_'[x] = next_map_[x]
  BY DEF MadeOf, NextByName, Registers, Declares, Put
<1>4. ASSUME NEW t, t \subseteq DOMAIN next_map_
      PROVE  t \subseteq DOMAIN next_map_' /\ Substitute(t, next_map_') = Substitute(t, next_map_)
  BY <1>3, <1>4 DEF Substitute, Apply
<1>5. Rebuildable'
  <2> SUFFICES ASSUME Strict
               PROVE  /\ (EquationsOf(state_updates_) \cup AsTheyAre)' \subseteq trans_'
                      /\ Never({"drop"}) =>
                           trans_' \subseteq (EquationsOf(state_updates_) \cup AsTheyAre \cup Primed)'
    BY MadeConditionsStay DEF Rebuildable
  <2>1. Known
    BY DEF Regular
  <2>2. EquationsOf(state_updates_)' = EquationsOf(state_updates_) /\ AsTheyAre' = AsTheyAre
    BY <1>1, <2>1, EquationsStay DEF AsTheyAre
  <2>3. Primed \subseteq Primed'
    BY <1>1, <1>4 DEF Primed
  <2> QED BY <1>1, <2>1, <2>2, <2>3 DEF MadeOf, Rebuildable
<1>6. MadeExactly'
  <2> SUFFICES ASSUME Never({"replace", "add", "drop", "promote", "unchecked"})
               PROVE  trans_' = (EquationsOf(state_updates_) \cup UNION {ToTrans(c) : c \in Recorded})'
    BY MadeConditionsStay DEF MadeExactly
  <2>1. Regular /\ Known /\ FailedPromotions = {}
    BY ExactMeansStrict DEF Regular
  <2>2. EquationsOf(state_updates_)' = EquationsOf(state_updates_)
    BY <1>1, <2>1, EquationsStay
  <2>3. ASSUME NEW c \in Recorded
        PROVE  ToTrans(c)' = ToTrans(c)
    <3>1. c.term \subseteq symbols
      BY <2>1 DEF Recorded, Known, KnownConstraints, Readable, IInv, Registered, RegistryTyped
    <3>2. statevars_' \cap symbols = statevars_
      BY DEF Registers, Declares, Never, IInv, Registered, RegistryTyped
    <3>3. only_curr(c.term)' <=> only_curr(c.term)
      BY <3>1, <3>2 DEF only_curr
    <3>4. only_curr(c.term) => Substitute(c.term, next_map_') = Substitute(c.term, next_map_)
      BY <1>1, <1>4, StatesInMap DEF only_curr
    <3> QED BY <3>3, <3>4 DEF ToTrans, ToInit
  <2>4. trans_ = EquationsOf(state_updates_) \cup UNION {ToTrans(c) : c \in Recorded}
    BY <2>1 DEF MadeOf, MadeExactly
  <2>5. UNION {ToTrans(c) : c \in Recorded}' = UNION {ToTrans(c) : c \in Recorded}
    BY <1>1, <2>3
  <2> QED BY <1>1, <2>2, <2>4, <2>5
<1> QED BY <1>2, <1>5, <1>6 DEF MadeOf

LEMMA AssignMade ==
  ASSUME IInv, Habits, MadeOf, Assigns, UNCHANGED caller
  PROVE  MadeOf'
<1>0. PICK s \in statevars_ : \E t : assign_next(s, t)
  BY DEF Assigns
<1>1. PICK t : assign_next(s, t)
  BY <1>0
<1>2. /\ s \notin DOMAIN state_updates_ /\ state_updates_' = Put(state_updates_, s, t)
      /\ s \in DOMAIN next_map_ /\ trans_' = trans_ \cup {Equal(next_map_[s], t)}
      /\ UNCHANGED <<statevars_, next_map_, constraints_>>
  BY <1>1, HabitsForbid, StatesInMap DEF assign_next, registry, maps
<1>3. EquationsOf(state_updates_)' = EquationsOf(state_updates_) \cup {Equal(next_map_[s], t)}
  <2>1. /\ DOMAIN state_updates_' = DOMAIN state_updates_ \cup {s} /\ state_updates_'[s] = t
        /\ \A x \in DOMAIN state_updates_ : state_updates_'[x] = state_updates_[x]
    BY <1>2 DEF Put
  <2> QED BY <1>2, <2>1 DEF EquationsOf
<1>4. AsTheyAre' = AsTheyAre /\ Primed' = Primed
  BY <1>2 DEF AsTheyAre, Primed, Recorded
<1>5. Recorded' = Recorded /\ \A c : ToTrans(c)' = ToTrans(c)
  BY <1>2 DEF Recorded, ToTrans, ToInit, only_curr
<1>6. NextByName'
  BY <1>2 DEF MadeOf, NextByName
<1>7. Rebuildable'
  BY <1>2, <1>3, <1>4, MadeConditionsStay DEF MadeOf, Rebuildable
<1>8. MadeExactly'
  <2>1. UNION {ToTrans(c) : c \in Recorded}' = UNION {ToTrans(c) : c \in Recorded}
    BY <1>5
  <2> QED BY <1>2, <1>3, <2>1, MadeConditionsStay DEF MadeOf, MadeExactly
<1> QED BY <1>6, <1>7, <1>8 DEF MadeOf

\* What one constraint gives is primed or not.
LEMMA ToTransParts ==
  ASSUME IInv, KeepsKinds, NEW c
  PROVE  /\ Holds(c.term) \in ToTrans(c)
         /\ \A d \in ToTrans(c) :
              \/ d = Holds(c.term)
              \/ /\ d = Holds(Substitute(c.term, next_map_))
                 /\ c.everywhere /\ c.term \subseteq DOMAIN next_map_
BY StatesInMap DEF ToTrans, ToInit, only_curr

LEMMA ConstraintMade ==
  ASSUME IInv, Habits, MadeOf, AddConstraints, UNCHANGED caller
  PROVE  MadeOf'
<1>1. PICK c \in [term : SUBSET Symbol, everywhere : BOOLEAN] :
        /\ trans_ \cup {Holds(c.term)} \subseteq trans_' /\ trans_' \subseteq trans_ \cup ToTrans(c)
        /\ Never({"unchecked"}) => trans_' = trans_ \cup ToTrans(c)
        /\ constraints_' = Append(constraints_, c)
        /\ UNCHANGED <<registry, maps, names, state_updates_>>
  BY ConstraintEffect
<1>2. UNCHANGED <<statevars_, next_map_, state_updates_>> /\ KeepsKinds
  BY <1>1, HabitsForbid DEF registry, maps
<1>3. Recorded' = Recorded \cup {c}
  BY <1>1, OneMore DEF Recorded
<1>4. EquationsOf(state_updates_)' = EquationsOf(state_updates_)
  BY <1>2 DEF EquationsOf
<1>5. AsTheyAre' = AsTheyAre \cup {Holds(c.term)} /\ Primed \subseteq Primed'
  BY <1>2, <1>3 DEF AsTheyAre, Primed
<1>6. \A d \in ToTrans(c) : d = Holds(c.term) \/ d \in Primed'
  BY <1>2, <1>3, ToTransParts DEF Primed
<1>8. NextByName'
  BY <1>2 DEF MadeOf, NextByName
<1>9. Rebuildable'
  BY <1>1, <1>4, <1>5, <1>6, MadeConditionsStay DEF MadeOf, Rebuildable
<1>10. MadeExactly'
  <2>1. \A d : ToTrans(d)' = ToTrans(d)
    BY <1>2 DEF ToTrans, ToInit, only_curr
  <2>2. UNION {ToTrans(d) : d \in Recorded}'
          = ToTrans(c) \cup UNION {ToTrans(d) : d \in Recorded}
    BY <1>3, <2>1
  <2> QED BY <1>1, <1>4, <2>2, MadeConditionsStay, ExactMeansStrict DEF MadeOf, MadeExactly
<1> QED BY <1>8, <1>9, <1>10 DEF MadeOf

\* A reduction writes trans_ anew.
LEMMA RebuildMade ==
  ASSUME IInv, Habits, Strict => Regular, MadeOf, Reduces, UNCHANGED caller
  PROVE  MadeOf'
<1>0. KeepsKinds /\ Never({"unchecked"}) /\ statevars_ \cap inputvars_ = {}
  BY HabitsForbid, KindsApart DEF Reduces, KeepsKinds, Never
<1>1. PICK S \in SUBSET statevars_, I \in SUBSET inputvars_ : rebuild_trans_based_on_coi(S, I)
  BY DEF Reduces, Rebuild
<1>2. UNCHANGED next_map_
  BY <1>1 DEF rebuild_trans_based_on_coi, maps
<1>3. NextByName'
  BY <1>2 DEF MadeOf, NextByName
<1>4. ASSUME Regular
      PROVE  /\ trans_' = EquationsOf(state_updates_)' \cup UNION {ToTrans(c) : c \in Recorded}
             /\ \A c \in Recorded : ToTrans(c)' = ToTrans(c)
             /\ UNCHANGED <<constraints_, next_map_>>
  <2>1. /\ trans_' = EquationsOf(Keep(state_updates_, S)) \cup UNION {ToTrans(c) : c \in Recorded}
        /\ state_updates_' = Keep(state_updates_, S)
        /\ S \subseteq statevars_' /\ statevars_' \subseteq statevars_
        /\ UNCHANGED <<constraints_, next_map_>>
    BY <1>0, <1>1, <1>4, WholeRebuild
  <2>2. EquationsOf(state_updates_)' = EquationsOf(Keep(state_updates_, S))
    BY <2>1 DEF EquationsOf
  <2>3. ASSUME NEW c \in Recorded
        PROVE  ToTrans(c)' = ToTrans(c)
    <3>1. c.term \subseteq S \cup I
      BY <1>1, <1>4, ConstraintsInCone DEF rebuild_trans_based_on_coi
    <3>2. I \cap statevars_ = {}
      BY <1>0
    <3>3. only_curr(c.term)' <=> only_curr(c.term)
      BY <2>1, <3>1, <3>2 DEF only_curr
    <3> QED BY <2>1, <3>3 DEF ToTrans, ToInit
  <2> QED BY <2>1, <2>2, <2>3
<1>5. Rebuildable'
  <2> SUFFICES ASSUME Strict
               PROVE  /\ (EquationsOf(state_updates_) \cup AsTheyAre)' \subseteq trans_'
                      /\ trans_' \subseteq (EquationsOf(state_updates_) \cup AsTheyAre \cup Primed)'
    BY MadeConditionsStay DEF Rebuildable
  <2>1. Regular
    OBVIOUS
  <2>2. UNCHANGED <<constraints_, next_map_>> /\ Recorded' = Recorded
    BY <1>4, <2>1 DEF Recorded
  <2>3. AsTheyAre' = AsTheyAre /\ Primed' = Primed
    BY <2>2 DEF AsTheyAre, Primed
  <2>4. \A c \in Recorded : /\ Holds(c.term) \in ToTrans(c)
                            /\ ToTrans(c) \subseteq AsTheyAre \cup Primed
    BY <1>0, ToTransParts DEF AsTheyAre, Primed
  <2>5. AsTheyAre \subseteq UNION {ToTrans(c) : c \in Recorded}
    BY <2>4 DEF AsTheyAre
  <2>6. UNION {ToTrans(c) : c \in Recorded} \subseteq AsTheyAre \cup Primed
    BY <2>4
  <2> QED BY <1>4, <2>1, <2>3, <2>5, <2>6
<1>6. MadeExactly'
  <2> SUFFICES ASSUME Never({"replace", "add", "drop", "promote", "unchecked"})
               PROVE  trans_' = (EquationsOf(state_updates_) \cup UNION {ToTrans(c) : c \in Recorded})'
    BY MadeConditionsStay DEF MadeExactly
  <2>1. Regular
    BY ExactMeansStrict
  <2>2. Recorded' = Recorded /\ \A c \in Recorded : ToTrans(c)' = ToTrans(c)
    BY <1>4, <2>1 DEF Recorded
  <2>3. UNION {ToTrans(c) : c \in Recorded}' = UNION {ToTrans(c) : c \in Recorded}
    BY <2>2
  <2> QED BY <1>4, <2>1, <2>3
<1> QED BY <1>3, <1>5, <1>6 DEF MadeOf

\* Where updates are dropped: what is left is on trans_, whether it is written
\* anew or not.
LEMMA DropMade ==
  ASSUME IInv, Habits, Strict => Regular, MadeOf, Drops, UNCHANGED caller
  PROVE  MadeOf'
<1>1. PICK D : drop_state_updates(D)
  BY DEF Drops
<1> DEFINE rest == DOMAIN state_updates_ \ D
<1>2. /\ UNCHANGED next_map_ /\ state_updates_' = Keep(state_updates_, rest)
      /\ \A i \in DOMAIN constraints_' :
           \E j \in DOMAIN constraints_ : constraints_'[i] = constraints_[j]
  BY <1>1, DropEffect DEF maps
<1>3. ~Never({"drop"}) /\ ~Never({"replace", "add", "drop", "promote", "unchecked"})
  BY DEF Drops, Never
<1>4. NextByName' /\ MadeExactly'
  BY <1>2, <1>3, MadeConditionsStay DEF MadeOf, NextByName, MadeExactly
<1>5. Recorded' \subseteq Recorded
  BY <1>2 DEF Recorded
<1>6. EquationsOf(state_updates_)' = EquationsOf(Keep(state_updates_, rest))
  BY <1>2 DEF EquationsOf
<1>7. ASSUME Strict
      PROVE  (EquationsOf(state_updates_) \cup AsTheyAre)' \subseteq trans_'
  <2>1. CASE UNCHANGED <<init_, trans_, constraints_>>
    <3>1. EquationsOf(Keep(state_updates_, rest)) \subseteq EquationsOf(state_updates_)
      BY DEF EquationsOf, Keep
    <3>2. AsTheyAre' = AsTheyAre
      BY <2>1 DEF AsTheyAre, Recorded
    <3> QED BY <1>6, <1>7, <2>1, <3>1, <3>2 DEF MadeOf, Rebuildable
  <2>2. ASSUME NEW k \in 0 .. Len(constraints_), ReaddedFirst(k),
               trans_' = TransOf(rest, Readded(k))
        PROVE  (EquationsOf(state_updates_) \cup AsTheyAre)' \subseteq trans_'
    <3>1. Len(constraints_) \in Nat /\ DOMAIN constraints_ = 1 .. Len(constraints_)
      BY DEF IInv, Written, LogicTyped
    <3>2. k = Len(constraints_)
      <4>1. k < Len(constraints_) => k + 1 \in DOMAIN constraints_
        BY <3>1
      <4>2. ~(k < Len(constraints_))
        BY <1>7, <2>2, <4>1, NothingIsRefused DEF ReaddedFirst, Readds
      <4>3. Len(constraints_) \in Nat
        BY <3>1
      <4> QED BY <2>2, <4>2, <4>3
    <3>3. \A c \in Recorded : Holds(c.term) \in trans_'
      BY <2>2, <3>2, RecordedTypes DEF TransOf, ToTrans
    <3>4. AsTheyAre' \subseteq trans_'
      BY <1>5, <3>3 DEF AsTheyAre
    <3>5. EquationsOf(Keep(state_updates_, rest)) \subseteq trans_'
      BY <2>2 DEF TransOf
    <3> QED BY <1>6, <3>4, <3>5
  <2> QED BY <1>1, <1>7, <2>1, <2>2, NothingIsRefused DEF drop_state_updates
<1> QED BY <1>3, <1>4, <1>7, MadeConditionsStay DEF MadeOf, Rebuildable

LEMMA NextMade ==
  ASSUME IInv, KInv, MadeOf, [Next]_tsvars
  PROVE  MadeOf'
<1>0. UNCHANGED caller
  BY DEF tsvars, Next
<1>1. CASE ~Habits
  BY <1>0, <1>1, MadeConditionsStay, ExactMeansStrict
     DEF MadeOf, NextByName, Rebuildable, MadeExactly, Strict
<1>2. CASE Habits
  <2>1. Strict => Regular
    BY RegularWhen
  <2>2. CASE Leaves
    <3>1. UNCHANGED <<statevars_, next_map_, state_updates_, trans_, constraints_>>
      BY <2>2 DEF Leaves
    <3>2. /\ Recorded' = Recorded /\ EquationsOf(state_updates_)' = EquationsOf(state_updates_)
          /\ \A c : ToTrans(c)' = ToTrans(c)
      BY <3>1 DEF Recorded, EquationsOf, ToTrans, ToInit, only_curr
    <3>3. AsTheyAre' = AsTheyAre /\ Primed' = Primed
      BY <3>1, <3>2 DEF AsTheyAre, Primed
    <3>4. UNION {ToTrans(c) : c \in Recorded}' = UNION {ToTrans(c) : c \in Recorded}
      BY <3>2
    <3>5. NextByName' /\ Rebuildable'
      BY <1>0, <3>1, <3>2, <3>3, MadeConditionsStay DEF MadeOf, NextByName, Rebuildable
    <3>6. MadeExactly'
      BY <1>0, <3>1, <3>2, <3>4, MadeConditionsStay DEF MadeOf, MadeExactly
    <3> QED BY <3>5, <3>6 DEF MadeOf
  <2> QED BY <1>0, <1>2, <2>1, <2>2, Effects, RegistersMade, AssignMade, ConstraintMade,
             RebuildMade, DropMade
<1> QED BY <1>1, <1>2

LEMMA MadeInvariance == Spec => [](IInv /\ KInv /\ FormulasApart /\ MadeOf)
<1>1. Init => MadeOf /\ FormulasApart
  <2> SUFFICES ASSUME Init PROVE MadeOf /\ FormulasApart
    OBVIOUS
  <2>1. /\ DOMAIN next_map_ = {} /\ DOMAIN state_updates_ = {} /\ DOMAIN constraints_ = {}
        /\ trans_ = {}
    BY DEF Init
  <2>2. Recorded = {} /\ EquationsOf(state_updates_) = {}
    BY <2>1 DEF Recorded, EquationsOf
  <2> QED BY <2>1, <2>2 DEF MadeOf, NextByName, Rebuildable, MadeExactly, AsTheyAre,
                            FormulasApart
<1>2. IInv /\ KInv /\ FormulasApart /\ MadeOf /\ [Next]_tsvars => FormulasApart' /\ MadeOf'
  BY NextStaysApart, NextMade
<1> QED BY <1>1, <1>2, Invariance, KnownInvariance, PTL DEF Spec

\* trans_ can always be rebuilt from the updates and the recorded constraints: it
\* has all of them, also after updates are dropped, and where none are dropped
\* nothing but them and constraints that were primed.
THEOREM TransStaysRebuildable == Spec => []TransIsRebuildable
<1>1. IInv /\ KInv /\ MadeOf => TransIsRebuildable
  <2> SUFFICES ASSUME MadeOf, Habits, NextNamesAreFree
               PROVE  /\ EquationsOf(state_updates_) \cup AsTheyAre \subseteq trans_
                      /\ Never({"drop"}) =>
                           trans_ \subseteq EquationsOf(state_updates_) \cup AsTheyAre
                             \cup {Holds(Substitute(c.term, next_map_)) :
                                     c \in {d \in Recorded : d.everywhere}}
    BY DEF TransIsRebuildable, EquationsOf, AsTheyAre, Recorded, Habits
  <2>1. Strict
    BY DEF Strict
  <2>2. Primed \subseteq {Holds(Substitute(c.term, next_map_)) :
                            c \in {d \in Recorded : d.everywhere}}
    BY DEF Primed
  <2> QED BY <2>1, <2>2 DEF MadeOf, Rebuildable
<1> QED BY <1>1, MadeInvariance, PTL
-----------------------------------------------------------------------------
(***************************************************************************)
(* What the reduction leaves of trans_                                     *)
(***************************************************************************)

\* A state variable outside the cone: neither it nor its next state is mentioned.
LEMMA OutsideTheCone ==
  ASSUME IInv, Habits, FormulasApart,
         NEW S \in SUBSET statevars_, NEW I \in SUBSET inputvars_, InCone(S, I),
         NEW s \in statevars_ \ S, NEW c \in TransOf(S, Readded(Len(constraints_)))
  PROVE  s \notin Mentions(c) /\ next_map_[s] \notin Mentions(c)
<1>0. KeepsKinds
  BY HabitsForbid
<1>1. /\ s \notin S \cup I /\ next_map_[s] \in next_statevars_
      /\ s \notin next_statevars_ /\ s \in DOMAIN next_map_
      /\ \A x \in S : x \in DOMAIN next_map_ /\ next_map_[x] # s /\ next_map_[x] # next_map_[s]
  BY <1>0, StatesInMap, KindsApart
<1>2. ASSUME NEW x \in DOMAIN Keep(state_updates_, S), x \in DOMAIN next_map_,
             c = Equal(next_map_[x], Keep(state_updates_, S)[x])
      PROVE  s \notin Mentions(c) /\ next_map_[s] \notin Mentions(c)
  <2>1. x \in S /\ x \in DOMAIN state_updates_ /\ c = Equal(next_map_[x], state_updates_[x])
    BY <1>2 DEF Keep
  <2>2. s \notin state_updates_[x]
    BY <1>1, <2>1 DEF InCone
  <2>3. next_map_[s] \notin state_updates_[x]
    BY <1>1, <2>1 DEF FormulasApart, Apart
  <2> QED BY <1>1, <2>1, <2>2, <2>3 DEF Mentions, Equal
<1>3. ASSUME NEW d \in Recorded, c \in ToTrans(d)
      PROVE  s \notin Mentions(c) /\ next_map_[s] \notin Mentions(c)
  <2>1. d.term \cap (statevars_ \cup inputvars_) \subseteq S \cup I /\ Apart(d.term)
    BY DEF InCone, Recorded, FormulasApart
  <2>2. s \notin d.term /\ next_map_[s] \notin d.term
    BY <1>1, <2>1 DEF Apart
  <2>3. CASE c = Holds(d.term)
    BY <2>2, <2>3 DEF Mentions, Holds
  <2>4. CASE c # Holds(d.term)
    <3>1. PICK t \in ToInit(d) : c = Holds(Substitute(t, next_map_))
      BY <1>3, <2>4 DEF ToTrans
    <3>2. t = d.term /\ t \subseteq statevars_
      BY ToInitOverStates
    <3>3. t \subseteq S
      BY <2>1, <3>2, KindsApart
    <3>4. \A x \in t : Apply(next_map_, x) # s /\ Apply(next_map_, x) # next_map_[s]
      BY <1>1, <3>3 DEF Apply
    <3> QED BY <3>1, <3>4 DEF Mentions, Holds, Substitute
  <2> QED BY <2>3, <2>4
<1>4. Readded(Len(constraints_)) = Recorded
  BY RecordedTypes
<1> QED BY <1>2, <1>3, <1>4 DEF TransOf, EquationsOf

LEMMA KeepsForInitOnly ==
  ASSUME IInv, KInv, Habits, FormulasApart,
         NEW s \in statevars_' \cap DOMAIN state_updates_, Rebuild,
         s \notin DOMAIN state_updates_', NEW c \in trans_'
  PROVE  s \notin Mentions(c) /\ next_map_[s] \notin Mentions(c)
<1>1. PICK S \in SUBSET statevars_, I \in SUBSET inputvars_ : rebuild_trans_based_on_coi(S, I)
  BY DEF Rebuild
<1>2. /\ ReaddedAll /\ InCone(S, I)
      /\ trans_' = TransOf(S, Readded(Len(constraints_)))
      /\ statevars_' = Kept(S, init_')
      /\ state_updates_' = Keep(state_updates_, S)
  BY <1>1 DEF rebuild_trans_based_on_coi
<1>3. s \in statevars_ \ S
  BY <1>2 DEF Keep, KInv, Known, KnownUpdates
<1> QED BY <1>2, <1>3, OutsideTheCone

LEMMA FullConeKeeps ==
  ASSUME IInv, KInv, MadeOf, Never({"replace", "add", "drop", "promote", "unchecked"}),
         rebuild_trans_based_on_coi(statevars_, inputvars_)
  PROVE  UNCHANGED trans_
<1>1. Regular /\ Known /\ Never({"unchecked"})
  BY ExactMeansStrict, RegularWhen DEF Regular
<1>2. trans_' = EquationsOf(Keep(state_updates_, statevars_))
                  \cup UNION {ToTrans(c) : c \in Recorded}
  BY <1>1, WholeRebuild
<1>3. EquationsOf(Keep(state_updates_, statevars_)) = EquationsOf(state_updates_)
  <2> DEFINE upd == Keep(state_updates_, statevars_)
  <2>1. DOMAIN upd = DOMAIN state_updates_ /\ \A s \in DOMAIN upd : upd[s] = state_updates_[s]
    BY <1>1 DEF Keep, Known, KnownUpdates
  <2> HIDE DEF upd
  <2>2. EquationsOf(upd) = EquationsOf(state_updates_)
    BY <2>1 DEF EquationsOf
  <2> QED BY <2>2 DEF upd
<1> QED BY <1>2, <1>3 DEF MadeOf, MadeExactly

\* The reduction removes what it is asked to remove and no more: a variable that
\* is kept for init_ alone is gone from trans_, and when every variable is kept
\* trans_ is as it was.
THEOREM ReductionStaysExact == Spec => ReductionIsExact
<1>1. IInv /\ KInv /\ FormulasApart =>
        (KeepsKinds /\ Never({"add"}) =>
           \A s \in statevars_' \cap DOMAIN state_updates_ :
             Rebuild /\ s \notin DOMAIN state_updates_'
               => \A c \in trans_' : s \notin Mentions(c) /\ next_map_[s] \notin Mentions(c))
  BY KeepsForInitOnly DEF Habits
<1>2. IInv /\ KInv /\ MadeOf =>
        (Never({"replace", "add", "drop", "promote", "unchecked"}) =>
           (rebuild_trans_based_on_coi(statevars_, inputvars_) => UNCHANGED trans_))
  BY FullConeKeeps
<1>3. Spec => KeptForInitOnly
  BY <1>1, MadeInvariance, PTL DEF KeptForInitOnly
<1>4. Spec => FullConeKeepsTrans
  BY <1>2, MadeInvariance, PTL DEF FullConeKeepsTrans
<1> QED BY <1>3, <1>4 DEF ReductionIsExact
=============================================================================

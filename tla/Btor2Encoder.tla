---------------------------- MODULE Btor2Encoder ----------------------------
(***************************************************************************)
(* BTOR2Encoder: a BTOR2 file is read twice.  preprocess finds the states  *)
(* without a next line, which become inputs, and the outputs that name a   *)
(* nameless state; parse builds a term for each line and fills the         *)
(* transition system.                                                      *)
(*                                                                         *)
(* A file is a sequence of lines, the id of a line being its place.  Sort  *)
(* lines are left out: a line has the width of its sort.  A variable is    *)
(* the id of its line, with its name; node gives the line a term stems     *)
(* from, negative when it is the negation.                                 *)
(***************************************************************************)
EXTENDS Btor2Terms, SequencesExt

CONSTANT Files  \* files a generator such as Yosys may have written

VARIABLES
  file,
  pass,                  \* "preprocess", "parse", "done" or "refused"
  at,                    \* the line read next
  unamed_state_ids, state_wo_next, state_renaming_table,
  terms_, node,
  symbols,               \* the symbols of solver_
  statevars_, inputvars_,      \* the variables of ts_, with their names
  state_updates_, init_, constraints_, named_terms_,
  statesvec_, inputsvec_, propvec_

scan == <<unamed_state_ids, state_wo_next, state_renaming_table>>
registry == <<symbols, statevars_, inputvars_, statesvec_, inputsvec_>>
logic == <<state_updates_, init_, constraints_, propvec_>>
bvars == <<file, pass, at, scan, terms_, node, registry, logic, named_terms_>>

Line == file[at]
Unnamed == ""
Put(f, k, v) == [x \in DOMAIN f \cup {k} |-> IF x = k THEN v ELSE f[x]]
Magnitude(i) == IF i < 0 THEN -i ELSE i

\* What the parser of the library checks: the arguments of a line are lines
\* before it, and a next line is about a state.
ASSUME FilesAssumption ==
  \A f \in Files :
    /\ f \in Seq([tag : STRING, width : Nat, args : Seq(Int), imm : Seq(Nat),
                  symbol : STRING, value : Int])
    /\ \A id \in DOMAIN f :
         /\ \A k \in DOMAIN f[id].args : Magnitude(f[id].args[k]) \in 1 .. id - 1
         /\ f[id].tag \in {"next", "output"} => f[id].args # <<>>
         /\ f[id].tag = "next" => f[id].args[1] > 0 /\ f[f[id].args[1]].tag = "state"

Init ==
  /\ file \in Files
  /\ pass = "preprocess" /\ at = 1
  /\ unamed_state_ids = {} /\ state_wo_next = {} /\ state_renaming_table = <<>>
  /\ terms_ = <<>> /\ node = <<>>
  /\ symbols = {} /\ statevars_ = <<>> /\ inputvars_ = <<>>
  /\ statesvec_ = <<>> /\ inputsvec_ = <<>> /\ propvec_ = <<>>
  /\ state_updates_ = <<>> /\ init_ = {} /\ constraints_ = {}
  /\ named_terms_ = <<>>

-----------------------------------------------------------------------------
(***************************************************************************)
(* preprocess, a line at a time.                                           *)
(***************************************************************************)
Scanning(tag) == pass = "preprocess" /\ at <= Len(file) /\ Line.tag = tag
ToNextLine ==
  /\ at' = at + 1
  /\ UNCHANGED <<file, pass, terms_, node, registry, logic, named_terms_>>

\* Slip: only the nameless states are recorded.
OnlyNameless == IF Line.symbol = Unnamed THEN {at} ELSE {}

\* Every state is recorded until its next line is met.
WithoutNextSoFar == {at}

ScanState ==
  /\ Scanning("state")
  /\ state_wo_next' = state_wo_next \cup WithoutNextSoFar
  /\ unamed_state_ids' = unamed_state_ids \cup (IF Line.symbol = Unnamed THEN {at} ELSE {})
  /\ UNCHANGED state_renaming_table
  /\ ToNextLine

\* Slip: a later output takes the state's name over.
LastOutputNames(id) == id \in unamed_state_ids

\* The first output with a name gives it to the nameless state it shows.
GivesName(id) == id \in unamed_state_ids \ DOMAIN state_renaming_table

ScanOutput ==
  /\ Scanning("output")
  /\ state_renaming_table' =
       IF Line.symbol # Unnamed /\ GivesName(Line.args[1])
         THEN Put(state_renaming_table, Line.args[1], Line.symbol)
         ELSE state_renaming_table
  /\ UNCHANGED <<unamed_state_ids, state_wo_next>>
  /\ ToNextLine

\* Slip: the next line is taken to stand for its value.
ScansValue(l) == Magnitude(l.args[2])

HasNext(l) == l.args[1]

ScanNext ==
  /\ Scanning("next")
  /\ state_wo_next' = state_wo_next \ {HasNext(Line)}
  /\ UNCHANGED <<unamed_state_ids, state_renaming_table>>
  /\ ToNextLine

ScanOther ==
  /\ pass = "preprocess" /\ at <= Len(file)
  /\ Line.tag \notin {"state", "output", "next"}
  /\ UNCHANGED scan
  /\ ToNextLine

Rewind ==
  /\ pass = "preprocess" /\ at > Len(file)
  /\ pass' = "parse" /\ at' = 1
  /\ UNCHANGED <<file, scan, terms_, node, registry, logic, named_terms_>>

-----------------------------------------------------------------------------
(***************************************************************************)
(* The arguments of a line of the second pass, and its name.               *)
(***************************************************************************)
Negate(t) == IF t.kind = "BV" THEN BvOp("not", <<t>>) ELSE Truth(t.value = 0)

\* Slip: the sign of an argument is forgotten.
TermOfMagnitude(i) == terms_[Magnitude(i)]

ArgTerm(i) == IF i < 0 THEN Negate(terms_[-i]) ELSE terms_[i]
ArgNode(i) == IF i < 0 THEN -node[-i] ELSE node[i]
termargs_ == [k \in DOMAIN Line.args |-> ArgTerm(Line.args[k])]

Called(kind) == IF Line.symbol # Unnamed THEN Line.symbol ELSE kind \o ToString(at)

StateName ==
  IF Line.symbol = Unnamed /\ at \in DOMAIN state_renaming_table
    THEN state_renaming_table[at] ELSE Called("state")

\* TransitionSystem::name_term throws when another term has the name.
CanName(name, n) == name \in DOMAIN named_terms_ => named_terms_[name] = n

Parsing(tags) == pass = "parse" /\ at <= Len(file) /\ Line.tag \in tags

Refuse == pass' = "refused" /\ UNCHANGED <<file, at, scan, terms_, node, registry,
                                           logic, named_terms_>>

\* The line's term is t, which stems from line n; further terms are named.
Accept(t, n, names) ==
  /\ terms_' = Put(terms_, at, t)
  /\ node' = Put(node, at, n)
  /\ named_terms_' = names
  /\ at' = at + 1
  /\ UNCHANGED <<file, pass, scan>>

\* A name that is taken is only a warning for the other lines.
NamesWith(n) ==
  IF Line.symbol # Unnamed /\ CanName(Line.symbol, n)
    THEN Put(named_terms_, Line.symbol, n) ELSE named_terms_

-----------------------------------------------------------------------------
(***************************************************************************)
(* Variables.  Their value under the valuation is any.                     *)
(***************************************************************************)
AnyValue == {BV(Line.width, v) : v \in 0 .. 2^Line.width - 1}

\* make_statevar: two symbols, and the current one is a name.
ParseState ==
  /\ Parsing({"state"}) /\ at \notin state_wo_next
  /\ LET name == StateName  both == {name, name \o ".next"}
     IN IF both \cap symbols # {} \/ ~CanName(name, at) THEN Refuse
        ELSE /\ symbols' = symbols \cup both
             /\ statevars_' = Put(statevars_, at, name)
             /\ statesvec_' = Append(statesvec_, at)
             /\ \E t \in AnyValue : Accept(t, at, Put(named_terms_, name, at))
             /\ UNCHANGED <<inputvars_, inputsvec_, logic>>

\* Inputs, and the states that have no next line.
ParseInput ==
  /\ Parsing({"input", "state"})
  /\ Line.tag = "state" => at \in state_wo_next
  /\ LET name == Called("input")
     IN IF name \in symbols \/ ~CanName(name, at) THEN Refuse
        ELSE /\ symbols' = symbols \cup {name}
             /\ inputvars_' = Put(inputvars_, at, name)
             /\ inputsvec_' = Append(inputsvec_, at)
             /\ \E t \in AnyValue : Accept(t, at, Put(named_terms_, name, at))
             /\ UNCHANGED <<statevars_, statesvec_, logic>>

ParseOutput ==
  /\ Parsing({"output"})
  /\ UNCHANGED <<registry, logic>>
  /\ LET n == ArgNode(Line.args[1])
         name == Called("output")
         taken == {m \in {name, "_out_" \o name} : ~CanName(m, n)}
     IN CASE name \notin taken -> Accept(termargs_[1], n, Put(named_terms_, name, n))
          [] name \in taken /\ "_out_" \o name \notin taken ->
               Accept(termargs_[1], n, Put(named_terms_, "_out_" \o name, n))
          [] OTHER -> Refuse

-----------------------------------------------------------------------------
(***************************************************************************)
(* Lines that fill the transition system.                                  *)
(***************************************************************************)
ParseConstraint ==
  /\ Parsing({"constraint"})
  /\ LET t == bv_to_bool(termargs_[1])
     IN IF t = NoTerm THEN Refuse
        ELSE /\ constraints_' = constraints_ \cup {at}
             /\ Accept(t, at, NamesWith(at))
             /\ UNCHANGED <<registry, state_updates_, init_, propvec_>>

Avoids(t) == Negate(t)

ParseBad ==
  /\ Parsing({"bad"})
  /\ LET t == bv_to_bool(termargs_[1])
     IN IF t = NoTerm THEN Refuse
        ELSE /\ propvec_' = Append(propvec_, at)
             /\ Accept(Avoids(t), at, NamesWith(at))
             /\ UNCHANGED <<registry, state_updates_, init_, constraints_>>

\* The value is not converted.
ParseInit ==
  /\ Parsing({"init"})
  /\ LET t == Equal(termargs_[1], termargs_[2])
     IN IF t = NoTerm \/ ~SameSort(termargs_[1], BV(Line.width, 0)) THEN Refuse
        ELSE /\ init_' = init_ \cup {at}
             /\ Accept(t, at, NamesWith(at))
             /\ UNCHANGED <<registry, state_updates_, constraints_, propvec_>>

\* assign_next wants a state variable without next-state logic.
ParseNext ==
  /\ Parsing({"next"})
  /\ LET x == termargs_[1]
         y == termargs_[2]
         p == Matched(x, y, <<bool_to_bv(x), bool_to_bv(y)>>)
         state == ArgNode(Line.args[1])
     IN IF \/ ~Defined(p[1], p[2])
           \/ state \notin DOMAIN statevars_ \ DOMAIN state_updates_
          THEN Refuse
        ELSE /\ state_updates_' = Put(state_updates_, state, p[2])
             /\ Accept(p[2], ArgNode(Line.args[2]), NamesWith(ArgNode(Line.args[2])))
             /\ UNCHANGED <<registry, init_, constraints_, propvec_>>

\* Justice and fair lines are recorded in vectors nothing reads.
ParseIgnored ==
  /\ Parsing({"justice", "fair"})
  /\ Accept(termargs_[1], ArgNode(Line.args[1]), NamesWith(ArgNode(Line.args[1])))
  /\ UNCHANGED <<registry, logic>>

ConstTags == {"const", "one", "ones", "zero"}

ParseConst ==
  /\ Parsing(ConstTags)
  /\ Accept(BV(Line.width, CASE Line.tag = "const" -> Line.value
                             [] Line.tag = "one"   -> 1
                             [] Line.tag = "ones"  -> -1
                             [] Line.tag = "zero"  -> 0), at, NamesWith(at))
  /\ UNCHANGED <<registry, logic>>

NotOperators ==
  {"state", "input", "output", "constraint", "bad", "init", "next", "justice", "fair"}
    \cup ConstTags

ParseOperator ==
  /\ pass = "parse" /\ at <= Len(file) /\ Line.tag \notin NotOperators
  /\ \E t \in LineTerms(Line.tag, Line.imm, termargs_) :
       IF t = NoTerm THEN Refuse
       ELSE Accept(t, at, NamesWith(at)) /\ UNCHANGED <<registry, logic>>

Finish ==
  /\ pass = "parse" /\ at > Len(file)
  /\ pass' = "done"
  /\ UNCHANGED <<file, at, scan, terms_, node, registry, logic, named_terms_>>

Next ==
  \/ ScanState \/ ScanOutput \/ ScanNext \/ ScanOther \/ Rewind
  \/ ParseState \/ ParseInput \/ ParseOutput
  \/ ParseConstraint \/ ParseBad \/ ParseInit \/ ParseNext \/ ParseIgnored
  \/ ParseConst \/ ParseOperator \/ Finish

Spec == Init /\ [][Next]_bvars

-----------------------------------------------------------------------------
(***************************************************************************)
(* What the file says, in the BTOR2 format's terms: every line has the     *)
(* width of its sort and denotes a number.                                 *)
(***************************************************************************)
Fits(w, n) == -2^(w - 1) <= n /\ n < 2^(w - 1)
Flag(b) == IF b THEN 1 ELSE 0

Overflows(tag, w, x, y) ==
  LET sx == Signed(w, x) sy == Signed(w, y)
  IN CASE tag = "uaddo" -> x + y >= 2^w
       [] tag = "umulo" -> x * y >= 2^w
       [] tag = "usubo" -> x < y
       [] tag = "saddo" -> ~Fits(w, sx + sy)
       [] tag = "ssubo" -> ~Fits(w, sx - sy)
       [] tag = "smulo" -> ~Fits(w, sx * sy)
       [] tag = "sdivo" -> sy # 0 /\ ~Fits(w, SignedDivision(sx, sy))

\* The number of a line of width w whose arguments have the widths ws and the
\* numbers xs.
Denotes(tag, imm, w, ws, xs) ==
  LET x == xs[1] y == xs[2]
  IN CASE tag \in FlagTags -> Flag(Overflows(tag, ws[1], x, y))
       [] tag \in BitwiseTags -> BitwiseOn(tag, w, x, y)
       [] tag \in ComparisonTags -> Flag(Comparison(tag, ws[1], x, y))
       [] tag \in {"eq", "iff"} -> Flag(x = y)
       [] tag = "neq" -> Flag(x # y)
       [] tag = "implies" -> Flag(x = 1 => y = 1)
       [] tag = "ite" -> IF x = 1 THEN y ELSE xs[3]
       [] tag = "not" -> 2^w - 1 - x
       [] tag = "neg" -> -x % 2^w
       [] tag = "concat" -> x * 2^ws[2] + y
       [] tag = "slice" -> (x \div 2^imm[2]) % 2^(imm[1] - imm[2] + 1)
       [] tag = "uext" -> x
       [] tag = "sext" -> Signed(ws[1], x) % 2^w
       [] tag = "inc" -> (x + 1) % 2^w
       [] tag = "dec" -> (x - 1) % 2^w
       [] tag = "redand" -> Flag(x = 2^ws[1] - 1)
       [] tag = "redor" -> Flag(x # 0)
       [] tag = "redxor" -> Cardinality({i \in 0 .. ws[1] - 1 : Digit(x, i) = 1}) % 2
       [] OTHER -> Arithmetic(tag, w, x, y) % 2^w

\* The numbers of the lines, the variables having the values parse gave them.
Numbers ==
  LET number[id \in 1 .. Len(file)] ==
        LET l == file[id]
            arg(i) == IF i > 0 THEN number[i] ELSE 2^file[-i].width - 1 - number[-i]
            xs == [k \in DOMAIN l.args |-> arg(l.args[k])]
            ws == [k \in DOMAIN l.args |-> file[Magnitude(l.args[k])].width]
        IN CASE l.tag \in {"state", "input"} -> terms_[id].value
             [] l.tag = "const" -> l.value
             [] l.tag = "one" -> 1
             [] l.tag = "ones" -> 2^l.width - 1
             [] l.tag = "zero" -> 0
             [] l.tag \in {"output", "constraint", "justice", "fair"} -> xs[1]
             [] l.tag = "bad" -> Flag(xs[1] = 0)
             [] l.tag = "init" -> Flag(xs[1] = xs[2])
             [] l.tag = "next" -> xs[2]
             [] OTHER -> Denotes(l.tag, l.imm, l.width, ws, xs)
  IN number

Done == pass = "done"
Lines(tags) == {id \in DOMAIN file : file[id].tag \in tags}
Uses(tags) == Lines(tags) # {}

AsTheFileSays(ids) ==
  LET number == Numbers
  IN \A id \in ids : /\ terms_[id].value = number[id]
                     /\ file[id].width > 0 /\ file[id].tag \notin {"init", "next"}
                          => terms_[id].width = file[id].width

-----------------------------------------------------------------------------
(***************************************************************************)
(* Properties                                                              *)
(***************************************************************************)
IsTerm(t) == t.kind \in {"BV", "BOOL"} /\ t.value \in 0 .. 2^t.width - 1

\* The second pass has a term for every line it has read, the variables of
\* the transition system are the lines it has recorded in statesvec_ and
\* inputsvec_, and every property, constraint and update is that of a line.
BTypeOK ==
  /\ pass \in {"preprocess", "parse", "done", "refused"}
  /\ DOMAIN terms_ = (IF pass = "preprocess" THEN {} ELSE 1 .. at - 1)
  /\ DOMAIN node = DOMAIN terms_ /\ \A id \in DOMAIN terms_ : IsTerm(terms_[id])
  /\ DOMAIN statevars_ = ToSet(statesvec_) /\ DOMAIN inputvars_ = ToSet(inputsvec_)
  /\ DOMAIN state_updates_ \subseteq DOMAIN statevars_
  /\ init_ \cup constraints_ \cup ToSet(propvec_) \subseteq DOMAIN terms_

\* Every line's term has the width and the value the format gives the line, whichever of its
\* arguments the encoder made Boolean (predicates of the solver) and whichever
\* one-bit vectors (LineTerms and the conversions); a property is the negation
\* of a bad line.  The overflow flags of signed addition and multiplication and
\* of unsigned subtraction are the subject of the properties below.
WrongFlags == {"saddo", "smulo", "usubo"}

MeansWhatItSays ==
  /\ BTypeOK
  /\ Done /\ ~Uses(WrongFlags) => AsTheFileSays(DOMAIN file)

\* The names the variables of the file are to have.
Shows(o, id) == file[o].tag = "output" /\ file[o].symbol # Unnamed /\ file[o].args[1] = id
HasNextLine(id) == \E n \in Lines({"next"}) : file[n].args[1] = id
NameOfVariable(id) ==
  CASE file[id].symbol # Unnamed -> file[id].symbol
    [] file[id].symbol = Unnamed /\ file[id].tag = "state" /\ HasNextLine(id) ->
         IF \E o \in DOMAIN file : Shows(o, id)
           THEN file[Min({o \in DOMAIN file : Shows(o, id)})].symbol
           ELSE "state" \o ToString(id)
    [] OTHER -> "input" \o ToString(id)

Variables == Lines({"state", "input"})
NamesAreDistinct ==
  /\ \A v, w \in Variables : v # w => NameOfVariable(v) # NameOfVariable(w)
  /\ \A o \in Lines({"output"}), v \in Variables :
       file[o].symbol = NameOfVariable(v) => file[o].args[1] = v
  /\ \A o, q \in Lines({"output"}) : o # q => file[o].symbol # file[q].symbol

\* An init line whose value is a predicate has arguments of different sorts.
InitFromPredicate == \E i \in Lines({"init"}) : file[i].args[2] > 0 /\
                       file[file[i].args[2]].tag \in ComparisonTags

\* A file whose names are distinct is read to its end, though the lines give
\* the solver Booleans and bit-vectors in any mixture.
DistinctNamesAreAccepted ==
  pass = "refused" => ~NamesAreDistinct \/ (SeparateBools /\ InitFromPredicate)

\* The state variables are the states with a next line and each has an update
\* (ParseNext), which is what sim_one_step takes for granted; the other states
\* are inputs.
StateVariablesHaveUpdates ==
  Done => /\ DOMAIN state_updates_ = DOMAIN statevars_
          /\ DOMAIN statevars_ = {id \in Lines({"state"}) : HasNextLine(id)}
          /\ DOMAIN inputvars_ = Variables \ DOMAIN statevars_

\* A nameless state variable is known by the name of the first output that
\* shows it (preprocess), as a register that is an output is in the Verilog
\* source; every other variable has the name its line says.
VariablesAreCalledAsInTheSource ==
  \A id \in DOMAIN statevars_ : statevars_[id] = NameOfVariable(id)

\* Once the file is read, each output and each variable is found in
\* named_terms_, an output whose name another term has under "_out_" and the
\* name, and no two signals share a name (name_term).
SignalsAreFound ==
  /\ VariablesAreCalledAsInTheSource
  /\ Done =>
    /\ \A v \in Variables :
         LET n == IF v \in DOMAIN statevars_ THEN statevars_[v] ELSE inputvars_[v]
         IN n \in DOMAIN named_terms_ /\ named_terms_[n] = v
    /\ \A o \in Lines({"output"}) :
         \E n \in DOMAIN named_terms_ :
           /\ named_terms_[n] = node[o]
           /\ file[o].symbol # Unnamed => n \in {file[o].symbol, "_out_" \o file[o].symbol}

\* The overflow flags say what the comments over them say: saddo that "both
\* operands are positive and the result is negative or both operands are
\* negative and the result is positive", smulo that "hi(x*y) != (lo(x*y) >>s
\* (width-1))" of the signed product, usubo that the subtraction borrows.
OverflowFlagsMeanWhatTheySay == Done => AsTheFileSays(Lines(WrongFlags))
=============================================================================

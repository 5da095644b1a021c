--------------------------- MODULE Updates_proofs ---------------------------
(***************************************************************************)
(* Which state variables have an update, and what becomes of those that    *)
(* have none.  The BTOR2 front end gives each of its state variables one,  *)
(* for all files; and in the simulator frames hold values wherever an      *)
(* update chain leads, and so do the expressions interpreted on them, for  *)
(* all designs with updates or without.                                    *)
(***************************************************************************)
EXTENDS Btor2Encoder, FrameQueries, SequenceFacts

-----------------------------------------------------------------------------
(***************************************************************************)
(* The two passes over a BTOR2 file agree on its variables and their names *)
(*                                                                         *)
(* What preprocess has recorded after n lines is what the n lines say      *)
(* (Scanned), and at its end what the whole file says.  So parse, which    *)
(* knows only the lines it has read, tells states from inputs and calls    *)
(* them as the file does (Parsed); a name once given keeps its term.       *)
(***************************************************************************)
Tagged(id, tag) == file[id].tag = tag

\* The scan of the lines before n.
Scanned(n) ==
  /\ state_wo_next =
       {id \in 1 .. n - 1 : Tagged(id, "state")
                            /\ ~\E m \in 1 .. n - 1 : Tagged(m, "next") /\ file[m].args[1] = id}
  /\ unamed_state_ids = {id \in 1 .. n - 1 : Tagged(id, "state") /\ file[id].symbol = Unnamed}
  /\ DOMAIN state_renaming_table = {id \in unamed_state_ids : \E o \in 1 .. n - 1 : Shows(o, id)}
  /\ \A id \in DOMAIN state_renaming_table :
       \E o \in 1 .. n - 1 : /\ Shows(o, id)
                             /\ state_renaming_table[id] = file[o].symbol
                             /\ \A p \in 1 .. n - 1 : Shows(p, id) => o <= p

IsVariable(id) == file[id].tag \in {"state", "input"}

NamedAs(name, n) == name \in DOMAIN named_terms_ /\ named_terms_[name] = n

OutputFound(o) ==
  \E name \in DOMAIN named_terms_ :
    /\ named_terms_[name] = node[o]
    /\ file[o].symbol # Unnamed => name \in {file[o].symbol, "_out_" \o file[o].symbol}

\* The second pass over the lines before n.
Parsed(n) ==
  /\ DOMAIN node = 1 .. n - 1
  /\ \A id \in 1 .. n - 1 : IsVariable(id) => node[id] = id
  /\ DOMAIN statevars_ = {id \in 1 .. n - 1 : Tagged(id, "state") /\ HasNextLine(id)}
  /\ DOMAIN inputvars_ = {id \in 1 .. n - 1 : IsVariable(id)} \ DOMAIN statevars_
  /\ DOMAIN state_updates_ =
       {file[m].args[1] : m \in {k \in 1 .. n - 1 : Tagged(k, "next")}}
  /\ \A id \in DOMAIN statevars_ : /\ statevars_[id] = NameOfVariable(id)
                                   /\ NamedAs(statevars_[id], id)
  /\ \A id \in DOMAIN inputvars_ : NamedAs(inputvars_[id], id)
  /\ \A o \in 1 .. n - 1 : Tagged(o, "output") => OutputFound(o)

BInv ==
  /\ file \in Files
  /\ at \in 1 .. Len(file) + 1
  /\ pass \in {"preprocess", "parse", "done", "refused"}
  /\ pass = "preprocess" => Scanned(at) /\ Parsed(1)
  /\ pass # "preprocess" => Scanned(Len(file) + 1) /\ Parsed(at)
  /\ pass = "done" => at = Len(file) + 1

-----------------------------------------------------------------------------
(***************************************************************************)
(* Files and functions                                                     *)
(***************************************************************************)
LEMMA FileIs ==
  ASSUME file \in Files
  PROVE  /\ Len(file) \in Nat /\ DOMAIN file = 1 .. Len(file)
         /\ \A id \in 1 .. Len(file) :
              /\ Tagged(id, "next") => /\ file[id].args[1] \in 1 .. id - 1
                                       /\ Tagged(file[id].args[1], "state")
              /\ \A k \in Nat : Tagged(id, "output") /\ file[id].args[1] = k /\ k > 0
                                  => k \in 1 .. id - 1
<1> DEFINE L == [tag : STRING, width : Nat, args : Seq(Int), imm : Seq(Nat),
                 symbol : STRING, value : Int]
<1>1. file \in Seq(L)
  BY FilesAssumption
<1> HIDE DEF L
<1>2. Len(file) \in Nat /\ DOMAIN file = 1 .. Len(file)
      /\ \A id \in 1 .. Len(file) : file[id].args \in Seq(Int)
  <2>1. \A id \in 1 .. Len(file) : file[id] \in L
    BY <1>1
  <2>2. Len(file) \in Nat /\ DOMAIN file = 1 .. Len(file)
    BY <1>1
  <2> QED BY <2>1, <2>2 DEF L
<1>3. \A id \in 1 .. Len(file) :
        file[id].tag \in {"next", "output"} =>
          file[id].args[1] \in Int /\ Magnitude(file[id].args[1]) \in 1 .. id - 1
  <2> SUFFICES ASSUME NEW id \in 1 .. Len(file), file[id].tag \in {"next", "output"}
               PROVE  /\ file[id].args[1] \in Int
                      /\ Magnitude(file[id].args[1]) \in 1 .. id - 1
    OBVIOUS
  <2>1. file[id].args \in Seq(Int) /\ file[id].args # <<>>
    BY <1>2, FilesAssumption
  <2>2. 1 \in DOMAIN file[id].args /\ file[id].args[1] \in Int
    BY <2>1
  <2> QED BY <1>2, <2>2, FilesAssumption
<1>4. \A id \in 1 .. Len(file) :
        file[id].tag = "next" => file[id].args[1] > 0 /\ file[file[id].args[1]].tag = "state"
  BY <1>2, FilesAssumption
<1> QED BY <1>2, <1>3, <1>4 DEF Tagged, Magnitude

LEMMA PutIs ==
  ASSUME NEW f, NEW k, NEW v
  PROVE  /\ DOMAIN Put(f, k, v) = DOMAIN f \cup {k}
         /\ Put(f, k, v)[k] = v
         /\ \A x \in DOMAIN f : x # k => Put(f, k, v)[x] = f[x]
BY DEF Put

\* What is about the file stays as it is.
LEMMA SameFile ==
  ASSUME file' = file
  PROVE  /\ \A id, tag : Tagged(id, tag)' <=> Tagged(id, tag)
         /\ \A id : IsVariable(id)' <=> IsVariable(id)
         /\ \A o, id : Shows(o, id)' <=> Shows(o, id)
         /\ \A id : HasNextLine(id)' <=> HasNextLine(id)
         /\ \A id : NameOfVariable(id)' = NameOfVariable(id)
<1>1. \A id, tag : Tagged(id, tag)' <=> Tagged(id, tag)
  BY DEF Tagged
<1>2. \A id : IsVariable(id)' <=> IsVariable(id)
  BY DEF IsVariable
<1>3. \A o, id : Shows(o, id)' <=> Shows(o, id)
  BY DEF Shows
<1>4. \A id : HasNextLine(id)' <=> HasNextLine(id)
  BY DEF HasNextLine, Lines
<1>5. \A id : NameOfVariable(id)' = NameOfVariable(id)
  BY DEF NameOfVariable, Shows, HasNextLine, Lines
<1> QED BY <1>1, <1>2, <1>3, <1>4, <1>5

-----------------------------------------------------------------------------
(***************************************************************************)
(* preprocess                                                              *)
(***************************************************************************)
\* A line that is neither a state, an output nor a next line says nothing.
LEMMA ScanSkips ==
  ASSUME NEW n \in Nat \ {0}, Scanned(n),
         ~Tagged(n, "state"), ~Tagged(n, "output"), ~Tagged(n, "next")
  PROVE  Scanned(n + 1)
<1>1. \A m \in 1 .. n : m \in 1 .. n - 1 \/ m = n
  OBVIOUS
<1>2. \A m \in 1 .. n - 1 : m \in 1 .. n
  OBVIOUS
<1>3. n + 1 - 1 = n
  OBVIOUS
<1>4. \A id : ~Shows(n, id)
  BY DEF Shows, Tagged
<1>5. \A id : (\E m \in 1 .. n : Tagged(m, "next") /\ file[m].args[1] = id)
                <=> \E m \in 1 .. n - 1 : Tagged(m, "next") /\ file[m].args[1] = id
  BY <1>1, <1>2
<1>6. \A id : (\E o \in 1 .. n : Shows(o, id)) <=> \E o \in 1 .. n - 1 : Shows(o, id)
  BY <1>1, <1>2, <1>4
<1>7. \A id : (id \in 1 .. n /\ Tagged(id, "state")) <=> (id \in 1 .. n - 1 /\ Tagged(id, "state"))
  BY <1>1, <1>2
<1>8. \A id, o : (\A p \in 1 .. n - 1 : Shows(p, id) => o <= p)
                   => \A p \in 1 .. n : Shows(p, id) => o <= p
  BY <1>1, <1>4
<1> QED BY <1>2, <1>3, <1>5, <1>6, <1>7, <1>8 DEF Scanned

\* What the scan of line n is to bring about.
LEMMA ScannedAfter ==
  ASSUME NEW n \in Nat,
         state_wo_next' =
           {id \in 1 .. n : Tagged(id, "state")'
                            /\ ~\E m \in 1 .. n : Tagged(m, "next")' /\ file'[m].args[1] = id},
         unamed_state_ids' = {id \in 1 .. n : Tagged(id, "state")' /\ file'[id].symbol = Unnamed},
         DOMAIN state_renaming_table'
           = {id \in unamed_state_ids' : \E o \in 1 .. n : Shows(o, id)'},
         \A id \in DOMAIN state_renaming_table' :
           \E o \in 1 .. n : /\ Shows(o, id)'
                             /\ state_renaming_table'[id] = file'[o].symbol
                             /\ \A p \in 1 .. n : Shows(p, id)' => o <= p
  PROVE  Scanned(n + 1)'
<1>1. n + 1 - 1 = n
  OBVIOUS
<1> QED BY <1>1 DEF Scanned

LEMMA StateScanned ==
  ASSUME file \in Files, NEW n \in 1 .. Len(file), Scanned(n), Tagged(n, "state"),
         file' = file,
         state_wo_next' = state_wo_next \cup {n},
         unamed_state_ids' = unamed_state_ids \cup (IF file[n].symbol = Unnamed THEN {n} ELSE {}),
         state_renaming_table' = state_renaming_table
  PROVE  Scanned(n + 1)'
<1>1. \A m \in 1 .. n : m \in 1 .. n - 1 \/ m = n
  OBVIOUS
<1>2. /\ \A m \in 1 .. n - 1 : m \in 1 .. n /\ m # n
      /\ n \in 1 .. n
  OBVIOUS
<1>3. n + 1 - 1 = n
  OBVIOUS
<1>4. \A id : ~Shows(n, id)
  BY DEF Shows, Tagged
<1>5. ~Tagged(n, "next")
  BY DEF Tagged
<1>6. \A m \in 1 .. n : Tagged(m, "next") => file[m].args[1] \in 1 .. n - 1
  <2> SUFFICES ASSUME NEW m \in 1 .. n, Tagged(m, "next") PROVE file[m].args[1] \in 1 .. n - 1
    OBVIOUS
  <2>1. m \in 1 .. Len(file) /\ m \in 1 .. n - 1
    BY <1>1, <1>5, FileIs
  <2>2. file[m].args[1] \in 1 .. m - 1
    BY <2>1, FileIs
  <2> QED BY <2>1, <2>2
<1>7. \A o \in 1 .. n : ~Shows(o, n)
  <2> SUFFICES ASSUME NEW o \in 1 .. n, Shows(o, n) PROVE FALSE
    OBVIOUS
  <2>1. o \in 1 .. Len(file) /\ Tagged(o, "output") /\ file[o].args[1] = n /\ n \in Nat /\ n > 0
    BY FileIs DEF Shows, Tagged
  <2>2. n \in 1 .. o - 1
    BY <2>1, FileIs
  <2> QED BY <2>2
<1>8. /\ \A id, tag : Tagged(id, tag)' <=> Tagged(id, tag)
      /\ \A o, id : Shows(o, id)' <=> Shows(o, id)
  BY SameFile
<1>9. state_wo_next' =
        {id \in 1 .. n : Tagged(id, "state")
                         /\ ~\E m \in 1 .. n : Tagged(m, "next") /\ file[m].args[1] = id}
  <2>1. state_wo_next =
          {id \in 1 .. n - 1 : Tagged(id, "state")
                               /\ ~\E m \in 1 .. n - 1 : Tagged(m, "next") /\ file[m].args[1] = id}
    BY DEF Scanned
  <2>2. \A id : (\E m \in 1 .. n : Tagged(m, "next") /\ file[m].args[1] = id)
                  <=> \E m \in 1 .. n - 1 : Tagged(m, "next") /\ file[m].args[1] = id
    BY <1>1, <1>2, <1>5
  <2>3. ~\E m \in 1 .. n : Tagged(m, "next") /\ file[m].args[1] = n
    BY <1>2, <1>6
  <2> QED BY <1>1, <1>2, <2>1, <2>2, <2>3
<1>10. unamed_state_ids' = {id \in 1 .. n : Tagged(id, "state") /\ file[id].symbol = Unnamed}
  BY <1>1, <1>2 DEF Scanned
<1>11. DOMAIN state_renaming_table = {id \in unamed_state_ids' : \E o \in 1 .. n : Shows(o, id)}
  <2>1. \A id : (\E o \in 1 .. n : Shows(o, id)) <=> \E o \in 1 .. n - 1 : Shows(o, id)
    BY <1>1, <1>2, <1>4
  <2>2. \A id \in unamed_state_ids' : id \in unamed_state_ids \/ id = n
    OBVIOUS
  <2> QED BY <1>2, <1>7, <2>1, <2>2 DEF Scanned
<1>12. \A id \in DOMAIN state_renaming_table :
         \E o \in 1 .. n : /\ Shows(o, id)
                           /\ state_renaming_table[id] = file[o].symbol
                           /\ \A p \in 1 .. n : Shows(p, id) => o <= p
  <2> SUFFICES ASSUME NEW id \in DOMAIN state_renaming_table
               PROVE  \E o \in 1 .. n : /\ Shows(o, id)
                                        /\ state_renaming_table[id] = file[o].symbol
                                        /\ \A p \in 1 .. n : Shows(p, id) => o <= p
    OBVIOUS
  <2>1. PICK o \in 1 .. n - 1 : /\ Shows(o, id)
                                /\ state_renaming_table[id] = file[o].symbol
                                /\ \A p \in 1 .. n - 1 : Shows(p, id) => o <= p
    BY DEF Scanned
  <2> QED BY <1>1, <1>2, <1>4, <2>1
<1>13. state_wo_next' =
         {id \in 1 .. n : Tagged(id, "state")'
                          /\ ~\E m \in 1 .. n : Tagged(m, "next")' /\ file'[m].args[1] = id}
  BY <1>8, <1>9
<1>14. unamed_state_ids' = {id \in 1 .. n : Tagged(id, "state")' /\ file'[id].symbol = Unnamed}
  BY <1>8, <1>10
<1>15. DOMAIN state_renaming_table'
         = {id \in unamed_state_ids' : \E o \in 1 .. n : Shows(o, id)'}
  BY <1>8, <1>11
<1>16. \A id \in DOMAIN state_renaming_table' :
         \E o \in 1 .. n : /\ Shows(o, id)'
                           /\ state_renaming_table'[id] = file'[o].symbol
                           /\ \A p \in 1 .. n : Shows(p, id)' => o <= p
  BY <1>8, <1>12
<1>17. n \in Nat
  BY FileIs
<1> QED BY <1>13, <1>14, <1>15, <1>16, <1>17, ScannedAfter

LEMMA NextScanned ==
  ASSUME NEW n \in Nat \ {0}, Scanned(n), Tagged(n, "next"), file' = file,
         state_wo_next' = state_wo_next \ {file[n].args[1]},
         UNCHANGED <<unamed_state_ids, state_renaming_table>>
  PROVE  Scanned(n + 1)'
<1>1. \A m \in 1 .. n : m \in 1 .. n - 1 \/ m = n
  OBVIOUS
<1>2. /\ \A m \in 1 .. n - 1 : m \in 1 .. n
      /\ n \in 1 .. n
  OBVIOUS
<1>3. n + 1 - 1 = n
  OBVIOUS
<1>4. ~Tagged(n, "state") /\ \A id : ~Shows(n, id)
  BY DEF Shows, Tagged
<1>5. /\ \A id, tag : Tagged(id, tag)' <=> Tagged(id, tag)
      /\ \A o, id : Shows(o, id)' <=> Shows(o, id)
  BY SameFile
<1>6. state_wo_next' =
        {id \in 1 .. n : Tagged(id, "state")
                         /\ ~\E m \in 1 .. n : Tagged(m, "next") /\ file[m].args[1] = id}
  <2>1. state_wo_next =
          {id \in 1 .. n - 1 : Tagged(id, "state")
                               /\ ~\E m \in 1 .. n - 1 : Tagged(m, "next") /\ file[m].args[1] = id}
    BY DEF Scanned
  <2>2. \A id : (\E m \in 1 .. n : Tagged(m, "next") /\ file[m].args[1] = id)
                  <=> \/ id = file[n].args[1]
                      \/ \E m \in 1 .. n - 1 : Tagged(m, "next") /\ file[m].args[1] = id
    BY <1>1, <1>2
  <2> QED BY <1>1, <1>2, <1>4, <2>1, <2>2
<1>7. unamed_state_ids = {id \in 1 .. n : Tagged(id, "state") /\ file[id].symbol = Unnamed}
  BY <1>1, <1>2, <1>4 DEF Scanned
<1>8. DOMAIN state_renaming_table = {id \in unamed_state_ids : \E o \in 1 .. n : Shows(o, id)}
  <2>1. \A id : (\E o \in 1 .. n : Shows(o, id)) <=> \E o \in 1 .. n - 1 : Shows(o, id)
    BY <1>1, <1>2, <1>4
  <2> QED BY <2>1 DEF Scanned
<1>9. \A id \in DOMAIN state_renaming_table :
        \E o \in 1 .. n : /\ Shows(o, id)
                          /\ state_renaming_table[id] = file[o].symbol
                          /\ \A p \in 1 .. n : Shows(p, id) => o <= p
  <2> SUFFICES ASSUME NEW id \in DOMAIN state_renaming_table
               PROVE  \E o \in 1 .. n : /\ Shows(o, id)
                                        /\ state_renaming_table[id] = file[o].symbol
                                        /\ \A p \in 1 .. n : Shows(p, id) => o <= p
    OBVIOUS
  <2>1. PICK o \in 1 .. n - 1 : /\ Shows(o, id)
                                /\ state_renaming_table[id] = file[o].symbol
                                /\ \A p \in 1 .. n - 1 : Shows(p, id) => o <= p
    BY DEF Scanned
  <2> QED BY <1>1, <1>2, <1>4, <2>1
<1> QED BY <1>3, <1>5, <1>6, <1>7, <1>8, <1>9 DEF Scanned

LEMMA OutputScanned ==
  ASSUME NEW n \in Nat \ {0}, Scanned(n), Tagged(n, "output"), file' = file,
         NEW x, x = file[n].args[1],
         state_renaming_table' =
           IF file[n].symbol # Unnamed /\ GivesName(x)
             THEN Put(state_renaming_table, x, file[n].symbol) ELSE state_renaming_table,
         UNCHANGED <<unamed_state_ids, state_wo_next>>
  PROVE  Scanned(n + 1)'
<1>1. \A m \in 1 .. n : m \in 1 .. n - 1 \/ m = n
  OBVIOUS
<1>2. /\ \A m \in 1 .. n - 1 : m \in 1 .. n
      /\ n \in 1 .. n
  OBVIOUS
<1>3. /\ ~Tagged(n, "state") /\ ~Tagged(n, "next")
      /\ \A id : Shows(n, id) <=> file[n].symbol # Unnamed /\ id = x
  BY DEF Shows, Tagged
<1>4. /\ \A id, tag : Tagged(id, tag)' <=> Tagged(id, tag)
      /\ \A o, id : Shows(o, id)' <=> Shows(o, id)
  BY SameFile
<1>5. state_wo_next' =
        {id \in 1 .. n : Tagged(id, "state")'
                         /\ ~\E m \in 1 .. n : Tagged(m, "next")' /\ file'[m].args[1] = id}
  <2>1. state_wo_next =
          {id \in 1 .. n - 1 : Tagged(id, "state")
                               /\ ~\E m \in 1 .. n - 1 : Tagged(m, "next") /\ file[m].args[1] = id}
    BY DEF Scanned
  <2>2. \A id : (\E m \in 1 .. n : Tagged(m, "next") /\ file[m].args[1] = id)
                  <=> \E m \in 1 .. n - 1 : Tagged(m, "next") /\ file[m].args[1] = id
    BY <1>1, <1>2, <1>3
  <2>3. state_wo_next =
          {id \in 1 .. n : Tagged(id, "state")
                           /\ ~\E m \in 1 .. n : Tagged(m, "next") /\ file[m].args[1] = id}
    BY <1>1, <1>2, <1>3, <2>1, <2>2
  <2> QED BY <1>4, <2>3
<1>6. unamed_state_ids' = {id \in 1 .. n : Tagged(id, "state")' /\ file'[id].symbol = Unnamed}
  <2>1. unamed_state_ids = {id \in 1 .. n : Tagged(id, "state") /\ file[id].symbol = Unnamed}
    BY <1>1, <1>2, <1>3 DEF Scanned
  <2> QED BY <1>4, <2>1
<1>7. \A id : (\E o \in 1 .. n : Shows(o, id))
                <=> \/ \E o \in 1 .. n - 1 : Shows(o, id)
                    \/ Shows(n, id)
  BY <1>1, <1>2
<1>8. DOMAIN state_renaming_table = {id \in unamed_state_ids : \E o \in 1 .. n - 1 : Shows(o, id)}
  BY DEF Scanned
<1>9. ASSUME NEW id \in DOMAIN state_renaming_table
      PROVE  \E o \in 1 .. n : /\ Shows(o, id)
                               /\ state_renaming_table[id] = file[o].symbol
                               /\ \A p \in 1 .. n : Shows(p, id) => o <= p
  <2>1. PICK o \in 1 .. n - 1 : /\ Shows(o, id)
                                /\ state_renaming_table[id] = file[o].symbol
                                /\ \A p \in 1 .. n - 1 : Shows(p, id) => o <= p
    BY DEF Scanned
  <2> QED BY <1>1, <1>2, <2>1
<1>10. CASE file[n].symbol # Unnamed /\ GivesName(x)
  <2>1. state_renaming_table' = Put(state_renaming_table, x, file[n].symbol)
    BY <1>10
  <2>2. x \in unamed_state_ids /\ x \notin DOMAIN state_renaming_table
    BY <1>10 DEF GivesName
  <2>3. /\ DOMAIN state_renaming_table' = DOMAIN state_renaming_table \cup {x}
        /\ state_renaming_table'[x] = file[n].symbol
        /\ \A id \in DOMAIN state_renaming_table : id # x =>
             state_renaming_table'[id] = state_renaming_table[id]
    BY <2>1 DEF Put
  <2>4. DOMAIN state_renaming_table' = {id \in unamed_state_ids : \E o \in 1 .. n : Shows(o, id)}
    BY <1>3, <1>7, <1>8, <1>10, <2>2, <2>3
  <2>5. DOMAIN state_renaming_table' = {id \in unamed_state_ids' : \E o \in 1 .. n : Shows(o, id)'}
    BY <1>4, <2>4
  <2>6. \A id \in DOMAIN state_renaming_table' :
          \E o \in 1 .. n : /\ Shows(o, id)
                            /\ state_renaming_table'[id] = file[o].symbol
                            /\ \A p \in 1 .. n : Shows(p, id) => o <= p
    <3> SUFFICES ASSUME NEW id \in DOMAIN state_renaming_table'
                 PROVE  \E o \in 1 .. n : /\ Shows(o, id)
                                          /\ state_renaming_table'[id] = file[o].symbol
                                          /\ \A p \in 1 .. n : Shows(p, id) => o <= p
      OBVIOUS
    <3>1. CASE id = x
      <4>1. \A p \in 1 .. n - 1 : ~Shows(p, x)
        BY <1>8, <2>2
      <4>2. Shows(n, x) /\ \A p \in 1 .. n : Shows(p, x) => n <= p
        BY <1>1, <1>3, <1>10, <4>1
      <4> QED BY <1>2, <2>3, <3>1, <4>2
    <3>2. CASE id # x
      <4>1. id \in DOMAIN state_renaming_table
            /\ state_renaming_table'[id] = state_renaming_table[id]
        BY <2>3, <3>2
      <4> QED BY <1>9, <4>1
    <3> QED BY <3>1, <3>2
  <2>7. \A id \in DOMAIN state_renaming_table' :
          \E o \in 1 .. n : /\ Shows(o, id)'
                            /\ state_renaming_table'[id] = file'[o].symbol
                            /\ \A p \in 1 .. n : Shows(p, id)' => o <= p
    BY <1>4, <2>6
  <2> QED BY <1>5, <1>6, <2>5, <2>7, ScannedAfter
<1>11. CASE ~(file[n].symbol # Unnamed /\ GivesName(x))
  <2>1. state_renaming_table' = state_renaming_table
    BY <1>11
  <2>2. DOMAIN state_renaming_table = {id \in unamed_state_ids : \E o \in 1 .. n : Shows(o, id)}
    BY <1>3, <1>7, <1>8, <1>11 DEF GivesName
  <2>3. DOMAIN state_renaming_table' = {id \in unamed_state_ids' : \E o \in 1 .. n : Shows(o, id)'}
    BY <1>4, <2>1, <2>2
  <2>4. \A id \in DOMAIN state_renaming_table' :
          \E o \in 1 .. n : /\ Shows(o, id)'
                            /\ state_renaming_table'[id] = file'[o].symbol
                            /\ \A p \in 1 .. n : Shows(p, id)' => o <= p
    BY <1>4, <1>9, <2>1
  <2> QED BY <1>5, <1>6, <2>3, <2>4, ScannedAfter
<1> QED BY <1>10, <1>11

LEMMA ScanIsKept ==
  ASSUME NEW n, Scanned(n), file' = file, UNCHANGED scan
  PROVE  Scanned(n)'
<1>1. /\ \A id, tag : Tagged(id, tag)' <=> Tagged(id, tag)
      /\ \A o, id : Shows(o, id)' <=> Shows(o, id)
  BY SameFile
<1>2. /\ state_wo_next' = state_wo_next /\ unamed_state_ids' = unamed_state_ids
      /\ state_renaming_table' = state_renaming_table
  BY DEF scan
<1> QED BY <1>1, <1>2 DEF Scanned

LEMMA ParsedIsKept ==
  ASSUME NEW n, Parsed(n), file' = file,
         UNCHANGED <<node, statevars_, inputvars_, state_updates_, named_terms_>>
  PROVE  Parsed(n)'
<1>1. /\ \A id, tag : Tagged(id, tag)' <=> Tagged(id, tag)
      /\ \A id : IsVariable(id)' <=> IsVariable(id)
      /\ \A id : HasNextLine(id)' <=> HasNextLine(id)
      /\ \A id : NameOfVariable(id)' = NameOfVariable(id)
  BY SameFile
<1>2. /\ \A name, id : NamedAs(name, id)' <=> NamedAs(name, id)
      /\ \A o : OutputFound(o)' <=> OutputFound(o)
  BY DEF NamedAs, OutputFound
<1> QED BY <1>1, <1>2 DEF Parsed

LEMMA ScanStep ==
  ASSUME BInv, ScanState \/ ScanOutput \/ ScanNext \/ ScanOther
  PROVE  BInv'
<1>1. /\ pass = "preprocess" /\ at \in 1 .. Len(file) /\ at \in Nat \ {0}
      /\ Scanned(at) /\ Parsed(1) /\ file \in Files /\ Len(file) \in Nat
  BY FileIs DEF BInv, ScanState, ScanOutput, ScanNext, ScanOther, Scanning
<1>2. ToNextLine
  BY DEF ScanState, ScanOutput, ScanNext, ScanOther
<1>3. /\ at' = at + 1 /\ file' = file /\ pass' = pass
      /\ UNCHANGED <<node, statevars_, inputvars_, state_updates_, named_terms_>>
  BY <1>2 DEF ToNextLine, registry, logic
<1>4. \A k : k = at => Scanned(k + 1)'
  <2> SUFFICES ASSUME NEW k, k = at PROVE Scanned(k + 1)'
    OBVIOUS
  <2>k. k \in Nat \ {0} /\ k \in 1 .. Len(file) /\ Scanned(k)
    BY <1>1
  <2>1. CASE ScanState
    BY <1>1, <1>3, <2>k, <2>1, StateScanned
       DEF ScanState, Scanning, WithoutNextSoFar, Tagged, Line
  <2>2. CASE ScanOutput
    BY <1>1, <1>3, <2>k, <2>2, OutputScanned DEF ScanOutput, Scanning, Tagged, Line
  <2>3. CASE ScanNext
    BY <1>1, <1>3, <2>k, <2>3, NextScanned DEF ScanNext, Scanning, HasNext, Tagged, Line
  <2>4. CASE ScanOther
    <3>1. Scanned(k + 1)
      BY <1>1, <2>k, <2>4, ScanSkips DEF ScanOther, Tagged, Line
    <3> QED BY <1>3, <2>4, <3>1, ScanIsKept DEF ScanOther
  <2> QED BY <2>1, <2>2, <2>3, <2>4
<1>5. Parsed(1)'
  BY <1>1, <1>3, ParsedIsKept
<1>6. Scanned(at)' /\ at' \in 1 .. Len(file) + 1
  BY <1>1, <1>3, <1>4
<1> QED BY <1>1, <1>3, <1>5, <1>6 DEF BInv

LEMMA RewindStep ==
  ASSUME BInv, Rewind
  PROVE  BInv'
<1>1. /\ pass = "preprocess" /\ at = Len(file) + 1 /\ Len(file) \in Nat
      /\ Scanned(at) /\ Parsed(1) /\ file \in Files
  BY FileIs DEF BInv, Rewind
<1>2. /\ at' = 1 /\ file' = file /\ pass' = "parse" /\ UNCHANGED scan
      /\ UNCHANGED <<node, statevars_, inputvars_, state_updates_, named_terms_>>
  BY DEF Rewind, registry, logic
<1>3. Scanned(Len(file) + 1)' /\ Parsed(1)'
  BY <1>1, <1>2, ScanIsKept, ParsedIsKept
<1>4. Parsed(at)' /\ at' \in 1 .. Len(file) + 1
  BY <1>1, <1>2, <1>3
<1> QED BY <1>1, <1>2, <1>3, <1>4 DEF BInv

-----------------------------------------------------------------------------
(***************************************************************************)
(* parse                                                                   *)
(***************************************************************************)
\* The name the table gives a nameless state is that of the first output that shows it.
LEMMA StateNameIs ==
  ASSUME BInv, pass = "parse", at <= Len(file), Tagged(at, "state"), at \notin state_wo_next
  PROVE  HasNextLine(at) /\ StateName = NameOfVariable(at)
<1>1. /\ at \in 1 .. Len(file) /\ DOMAIN file = 1 .. Len(file) /\ Len(file) \in Nat
      /\ Scanned(Len(file) + 1) /\ Len(file) + 1 - 1 = Len(file)
  BY FileIs DEF BInv
<1>2. HasNextLine(at)
  <2>1. \E m \in 1 .. Len(file) : Tagged(m, "next") /\ file[m].args[1] = at
    BY <1>1 DEF Scanned
  <2> QED BY <1>1, <2>1 DEF HasNextLine, Lines, Tagged
<1>3. CASE file[at].symbol # Unnamed
  BY <1>2, <1>3 DEF StateName, Called, NameOfVariable, Line
<1>4. CASE file[at].symbol = Unnamed
  <2>1. at \in DOMAIN state_renaming_table <=> \E o \in DOMAIN file : Shows(o, at)
    BY <1>1, <1>4 DEF Scanned
  <2>2. NameOfVariable(at) = IF \E o \in DOMAIN file : Shows(o, at)
                               THEN file[Min({o \in DOMAIN file : Shows(o, at)})].symbol
                               ELSE "state" \o ToString(at)
    BY <1>2, <1>4 DEF NameOfVariable, Tagged
  <2>3. StateName = IF at \in DOMAIN state_renaming_table
                      THEN state_renaming_table[at] ELSE "state" \o ToString(at)
    BY <1>4 DEF StateName, Called, Line
  <2>4. ASSUME at \in DOMAIN state_renaming_table
        PROVE  state_renaming_table[at] = file[Min({o \in DOMAIN file : Shows(o, at)})].symbol
    <3> DEFINE S == {o \in DOMAIN file : Shows(o, at)}
    <3>1. PICK o \in 1 .. Len(file) : /\ Shows(o, at)
                                      /\ state_renaming_table[at] = file[o].symbol
                                      /\ \A p \in 1 .. Len(file) : Shows(p, at) => o <= p
      BY <1>1, <2>4 DEF Scanned
    <3>2. S \subseteq Nat /\ o \in S /\ \A p \in S : o <= p
      BY <1>1, <3>1
    <3>3. Min(S) \in S /\ \A p \in S : Min(S) <= p
      <4> HIDE DEF S
      <4> QED BY <3>2, MinOfNats
    <3>4. Min(S) = o
      <4>1. Min(S) \in Nat /\ o \in Nat
        BY <3>2, <3>3
      <4>2. Min(S) <= o /\ o <= Min(S)
        BY <3>2, <3>3
      <4> HIDE DEF S
      <4> QED BY <4>1, <4>2
    <3> QED BY <3>1, <3>4
  <2> QED BY <1>2, <2>1, <2>2, <2>3, <2>4
<1> QED BY <1>2, <1>3, <1>4

\* A name is never taken from its term.
LEMMA NamingKeeps ==
  ASSUME NEW name, NEW id, CanName(name, id)
  PROVE  /\ name \in DOMAIN Put(named_terms_, name, id)
         /\ Put(named_terms_, name, id)[name] = id
         /\ \A x \in DOMAIN named_terms_ : /\ x \in DOMAIN Put(named_terms_, name, id)
                                           /\ Put(named_terms_, name, id)[x] = named_terms_[x]
BY DEF Put, CanName

\* What Parsed says of the lines up to n.
LEMMA ParsedSays ==
  ASSUME NEW n \in Nat,
         DOMAIN node' = 1 .. n,
         \A id \in 1 .. n : IsVariable(id)' => node'[id] = id,
         DOMAIN statevars_' = {id \in 1 .. n : Tagged(id, "state")' /\ HasNextLine(id)'},
         DOMAIN inputvars_' = {id \in 1 .. n : IsVariable(id)'} \ DOMAIN statevars_',
         DOMAIN state_updates_' = {file'[k].args[1] : k \in {l \in 1 .. n : Tagged(l, "next")'}},
         \A id \in DOMAIN statevars_' : /\ statevars_'[id] = NameOfVariable(id)'
                                        /\ NamedAs(statevars_[id], id)',
         \A id \in DOMAIN inputvars_' : NamedAs(inputvars_[id], id)',
         \A o \in 1 .. n : Tagged(o, "output")' => OutputFound(o)'
  PROVE  Parsed(n + 1)'
<1>1. n + 1 - 1 = n
  OBVIOUS
<1> QED BY <1>1 DEF Parsed

\* What the reading of line n is to bring about.
LEMMA ParsedAfter ==
  ASSUME NEW n \in Nat \ {0}, Parsed(n), file' = file,
         NEW m, node' = Put(node, n, m), IsVariable(n) => m = n,
         \A x \in DOMAIN named_terms_ : /\ x \in DOMAIN named_terms_'
                                        /\ named_terms_'[x] = named_terms_[x],
         DOMAIN statevars_' =
           DOMAIN statevars_ \cup (IF Tagged(n, "state") /\ HasNextLine(n) THEN {n} ELSE {}),
         DOMAIN inputvars_' =
           DOMAIN inputvars_ \cup (IF IsVariable(n) /\ ~(Tagged(n, "state") /\ HasNextLine(n))
                                     THEN {n} ELSE {}),
         DOMAIN state_updates_' =
           DOMAIN state_updates_ \cup (IF Tagged(n, "next") THEN {file[n].args[1]} ELSE {}),
         \A id \in DOMAIN statevars_ : statevars_'[id] = statevars_[id],
         \A id \in DOMAIN inputvars_ : inputvars_'[id] = inputvars_[id],
         n \in DOMAIN statevars_' => /\ statevars_'[n] = NameOfVariable(n)
                                     /\ statevars_'[n] \in DOMAIN named_terms_'
                                     /\ named_terms_'[statevars_'[n]] = n,
         n \in DOMAIN inputvars_' => /\ inputvars_'[n] \in DOMAIN named_terms_'
                                     /\ named_terms_'[inputvars_'[n]] = n,
         Tagged(n, "output") => OutputFound(n)'
  PROVE  Parsed(n + 1)'
<1>1. \A k \in 1 .. n : k \in 1 .. n - 1 \/ k = n
  OBVIOUS
<1>2. /\ \A k \in 1 .. n - 1 : k \in 1 .. n /\ k # n
      /\ n \in 1 .. n
  OBVIOUS
<1>4. /\ \A id, tag : Tagged(id, tag)' <=> Tagged(id, tag)
      /\ \A id : IsVariable(id)' <=> IsVariable(id)
      /\ \A id : HasNextLine(id)' <=> HasNextLine(id)
      /\ \A id : NameOfVariable(id)' = NameOfVariable(id)
  BY SameFile
<1>5. /\ DOMAIN node' = 1 .. n
      /\ node'[n] = m
      /\ \A id \in 1 .. n - 1 : node'[id] = node[id]
  BY <1>1, <1>2 DEF Put, Parsed
<1>6. \A id \in 1 .. n : IsVariable(id)' => node'[id] = id
  BY <1>1, <1>4, <1>5 DEF Parsed
<1>7. DOMAIN statevars_' = {id \in 1 .. n : Tagged(id, "state")' /\ HasNextLine(id)'}
  <2>1. DOMAIN statevars_ = {id \in 1 .. n - 1 : Tagged(id, "state") /\ HasNextLine(id)}
    BY DEF Parsed
  <2> QED BY <1>1, <1>2, <1>4, <2>1
<1>8. DOMAIN inputvars_' = {id \in 1 .. n : IsVariable(id)'} \ DOMAIN statevars_'
  <2>1. DOMAIN inputvars_ = {id \in 1 .. n - 1 : IsVariable(id)} \ DOMAIN statevars_
    BY DEF Parsed
  <2>2. DOMAIN statevars_ = {id \in 1 .. n - 1 : Tagged(id, "state") /\ HasNextLine(id)}
    BY DEF Parsed
  <2> QED BY <1>1, <1>2, <1>4, <2>1, <2>2
<1>9. DOMAIN state_updates_' = {file'[k].args[1] : k \in {l \in 1 .. n : Tagged(l, "next")'}}
  <2>1. DOMAIN state_updates_ = {file[k].args[1] : k \in {l \in 1 .. n - 1 : Tagged(l, "next")}}
    BY DEF Parsed
  <2> QED BY <1>1, <1>2, <1>4, <2>1
<1>10. \A id \in DOMAIN statevars_' : /\ statevars_'[id] = NameOfVariable(id)'
                                      /\ statevars_'[id] \in DOMAIN named_terms_'
                                      /\ named_terms_'[statevars_'[id]] = id
  <2>1. \A id \in DOMAIN statevars_ : /\ statevars_[id] = NameOfVariable(id)
                                      /\ statevars_[id] \in DOMAIN named_terms_
                                      /\ named_terms_[statevars_[id]] = id
    BY DEF Parsed, NamedAs
  <2>2. \A id \in DOMAIN statevars_' : id \in DOMAIN statevars_ \/ id = n
    OBVIOUS
  <2> QED BY <1>4, <2>1, <2>2
<1>11. \A id \in DOMAIN inputvars_' : /\ inputvars_'[id] \in DOMAIN named_terms_'
                                      /\ named_terms_'[inputvars_'[id]] = id
  <2>1. \A id \in DOMAIN inputvars_ : /\ inputvars_[id] \in DOMAIN named_terms_
                                      /\ named_terms_[inputvars_[id]] = id
    BY DEF Parsed, NamedAs
  <2>2. \A id \in DOMAIN inputvars_' : id \in DOMAIN inputvars_ \/ id = n
    OBVIOUS
  <2> QED BY <2>1, <2>2
<1>12. \A o \in 1 .. n : Tagged(o, "output")' => OutputFound(o)'
  <2> SUFFICES ASSUME NEW o \in 1 .. n - 1, Tagged(o, "output")
               PROVE  OutputFound(o)'
    BY <1>1, <1>4
  <2>1. PICK name \in DOMAIN named_terms_ :
          /\ named_terms_[name] = node[o]
          /\ file[o].symbol # Unnamed => name \in {file[o].symbol, "_out_" \o file[o].symbol}
    BY DEF Parsed, OutputFound
  <2>2. name \in DOMAIN named_terms_' /\ named_terms_'[name] = node'[o]
    BY <1>5, <2>1
  <2> QED BY <2>1, <2>2 DEF OutputFound
<1>13. \A id \in DOMAIN statevars_' : /\ statevars_'[id] = NameOfVariable(id)'
                                      /\ NamedAs(statevars_[id], id)'
  BY <1>10 DEF NamedAs
<1>14. \A id \in DOMAIN inputvars_' : NamedAs(inputvars_[id], id)'
  BY <1>11 DEF NamedAs
<1> QED BY <1>5, <1>6, <1>7, <1>8, <1>9, <1>12, <1>13, <1>14, ParsedSays

LEMMA RefuseStep ==
  ASSUME BInv, pass = "parse", Refuse \/ Finish
  PROVE  BInv'
<1>1. /\ file \in Files /\ at \in 1 .. Len(file) + 1 /\ Len(file) \in Nat
      /\ Scanned(Len(file) + 1) /\ Parsed(at)
  BY FileIs DEF BInv
<1>2. /\ file' = file /\ at' = at /\ UNCHANGED scan
      /\ UNCHANGED <<node, statevars_, inputvars_, state_updates_, named_terms_>>
  BY DEF Refuse, Finish, registry, logic
<1>3. Scanned(Len(file) + 1)' /\ Parsed(at)'
  BY <1>1, <1>2, ScanIsKept, ParsedIsKept
<1>4. pass' = "refused" \/ (pass' = "done" /\ at = Len(file) + 1)
  BY <1>1 DEF Refuse, Finish
<1> QED BY <1>1, <1>2, <1>3, <1>4 DEF BInv

\* A line is read when ParsedAfter's hypotheses hold of it.
LEMMA AcceptStep ==
  ASSUME BInv, pass = "parse", at <= Len(file),
         NEW t, NEW m, NEW names, Accept(t, m, names),
         \A n : n = at => Parsed(n + 1)'
  PROVE  BInv'
<1>1. /\ file \in Files /\ at \in 1 .. Len(file) /\ Len(file) \in Nat
      /\ Scanned(Len(file) + 1)
  BY FileIs DEF BInv
<1>2. file' = file /\ at' = at + 1 /\ pass' = pass /\ UNCHANGED scan
  BY DEF Accept
<1>3. Scanned(Len(file) + 1)'
  BY <1>1, <1>2, ScanIsKept
<1>4. Parsed(at)'
  BY <1>1, <1>2
<1> QED BY <1>1, <1>2, <1>3, <1>4 DEF BInv

\* The lines that are neither variables, outputs nor next lines.
LEMMA OrdinaryStep ==
  ASSUME BInv, pass = "parse", at <= Len(file),
         Line.tag \notin {"state", "input", "output", "next"},
         NEW t, NEW m, Accept(t, m, NamesWith(m)),
         UNCHANGED <<statevars_, inputvars_, state_updates_>>
  PROVE  BInv'
<1>1. at \in Nat \ {0} /\ Parsed(at) /\ file' = file
  BY FileIs DEF BInv, Accept
<1>2. /\ ~Tagged(at, "state") /\ ~Tagged(at, "next") /\ ~Tagged(at, "output")
      /\ ~IsVariable(at)
  BY DEF Tagged, IsVariable, Line
<1>3. \A x \in DOMAIN named_terms_ : /\ x \in DOMAIN named_terms_'
                                     /\ named_terms_'[x] = named_terms_[x]
  <2>1. named_terms_' = NamesWith(m)
    BY DEF Accept
  <2>2. CASE Line.symbol # Unnamed /\ CanName(Line.symbol, m)
    BY <2>1, <2>2, NamingKeeps DEF NamesWith
  <2>3. CASE ~(Line.symbol # Unnamed /\ CanName(Line.symbol, m))
    BY <2>1, <2>3 DEF NamesWith
  <2> QED BY <2>2, <2>3
<1>4. /\ at \notin DOMAIN statevars_' /\ at \notin DOMAIN inputvars_'
  BY <1>1 DEF Parsed
<1>5. ASSUME NEW n, n = at PROVE Parsed(n + 1)'
  <2>1. node' = Put(node, n, m)
    BY <1>5 DEF Accept
  <2>2. n \in Nat \ {0} /\ Parsed(n) /\ ~Tagged(n, "state") /\ ~Tagged(n, "next")
        /\ ~Tagged(n, "output") /\ ~IsVariable(n)
        /\ n \notin DOMAIN statevars_' /\ n \notin DOMAIN inputvars_'
    BY <1>1, <1>2, <1>4, <1>5
  <2>3. /\ DOMAIN statevars_' = DOMAIN statevars_ \cup
              (IF Tagged(n, "state") /\ HasNextLine(n) THEN {n} ELSE {})
        /\ DOMAIN inputvars_' = DOMAIN inputvars_ \cup
              (IF IsVariable(n) /\ ~(Tagged(n, "state") /\ HasNextLine(n)) THEN {n} ELSE {})
        /\ DOMAIN state_updates_' = DOMAIN state_updates_ \cup
              (IF Tagged(n, "next") THEN {file[n].args[1]} ELSE {})
    BY <2>2
  <2> QED BY <1>1, <1>3, <2>1, <2>2, <2>3, ParsedAfter
<1> QED BY <1>5, AcceptStep

LEMMA ParseStateStep ==
  ASSUME BInv, ParseState
  PROVE  BInv'
<1> DEFINE name == StateName
           both == {name, name \o ".next"}
<1>1. /\ pass = "parse" /\ at <= Len(file) /\ Tagged(at, "state") /\ at \notin state_wo_next
      /\ at \in Nat \ {0} /\ Parsed(at)
  BY FileIs DEF BInv, ParseState, Parsing, Tagged, Line
<1>2. HasNextLine(at) /\ name = NameOfVariable(at)
  BY <1>1, StateNameIs
<1>3. CASE both \cap symbols # {} \/ ~CanName(name, at)
  BY <1>1, <1>3, RefuseStep DEF ParseState
<1>4. CASE ~(both \cap symbols # {} \/ ~CanName(name, at))
  <2>1. /\ CanName(name, at)
        /\ statevars_' = Put(statevars_, at, name)
        /\ UNCHANGED <<inputvars_, state_updates_>>
    BY <1>4 DEF ParseState, logic
  <2>2. PICK t : Accept(t, at, Put(named_terms_, name, at))
    BY <1>4 DEF ParseState
  <2>3. /\ file' = file /\ node' = Put(node, at, at)
        /\ named_terms_' = Put(named_terms_, name, at)
    BY <2>2 DEF Accept
  <2>4. /\ DOMAIN statevars_' = DOMAIN statevars_ \cup {at}
        /\ statevars_'[at] = name
        /\ \A id \in DOMAIN statevars_ : id # at => statevars_'[id] = statevars_[id]
        /\ at \notin DOMAIN statevars_ /\ at \notin DOMAIN inputvars_
    BY <1>1, <2>1 DEF Put, Parsed
  <2>5. /\ name \in DOMAIN named_terms_' /\ named_terms_'[name] = at
        /\ \A x \in DOMAIN named_terms_ : /\ x \in DOMAIN named_terms_'
                                          /\ named_terms_'[x] = named_terms_[x]
    BY <2>1, <2>3, NamingKeeps
  <2> HIDE DEF name, both
  <2>6. ASSUME NEW n, n = at PROVE Parsed(n + 1)'
    <3>1. n \in Nat \ {0} /\ Parsed(n) /\ Tagged(n, "state") /\ HasNextLine(n)
          /\ ~Tagged(n, "next") /\ ~Tagged(n, "output") /\ IsVariable(n)
      BY <1>1, <1>2, <2>6 DEF Tagged, IsVariable
    <3>2. /\ DOMAIN statevars_' = DOMAIN statevars_ \cup
                (IF Tagged(n, "state") /\ HasNextLine(n) THEN {n} ELSE {})
          /\ DOMAIN inputvars_' = DOMAIN inputvars_ \cup
                (IF IsVariable(n) /\ ~(Tagged(n, "state") /\ HasNextLine(n)) THEN {n} ELSE {})
          /\ DOMAIN state_updates_' = DOMAIN state_updates_ \cup
                (IF Tagged(n, "next") THEN {file[n].args[1]} ELSE {})
          /\ \A id \in DOMAIN statevars_ : statevars_'[id] = statevars_[id]
          /\ \A id \in DOMAIN inputvars_ : inputvars_'[id] = inputvars_[id]
      BY <2>1, <2>4, <2>6, <3>1
    <3>3. /\ statevars_'[n] = NameOfVariable(n)
          /\ statevars_'[n] \in DOMAIN named_terms_'
          /\ named_terms_'[statevars_'[n]] = n
          /\ n \notin DOMAIN inputvars_'
          /\ node' = Put(node, n, n)
      BY <1>2, <2>1, <2>3, <2>4, <2>5, <2>6
    <3> QED BY <2>3, <2>5, <3>1, <3>2, <3>3, ParsedAfter
  <2> QED BY <1>1, <2>2, <2>6, AcceptStep
<1> QED BY <1>3, <1>4

\* A line of the file is a state with a next line when preprocess no longer has it.
LEMMA WithoutNextIs ==
  ASSUME BInv, pass = "parse", at <= Len(file), at \in state_wo_next
  PROVE  ~HasNextLine(at)
<1>1. /\ DOMAIN file = 1 .. Len(file) /\ Len(file) \in Nat
      /\ Scanned(Len(file) + 1) /\ Len(file) + 1 - 1 = Len(file)
  BY FileIs DEF BInv
<1>2. ~\E m \in 1 .. Len(file) : Tagged(m, "next") /\ file[m].args[1] = at
  BY <1>1 DEF Scanned
<1> QED BY <1>1, <1>2 DEF HasNextLine, Lines, Tagged

LEMMA ParseInputStep ==
  ASSUME BInv, ParseInput
  PROVE  BInv'
<1> DEFINE name == Called("input")
<1>1. /\ pass = "parse" /\ at <= Len(file) /\ IsVariable(at)
      /\ Tagged(at, "state") => at \in state_wo_next
      /\ at \in Nat \ {0} /\ Parsed(at)
  BY FileIs DEF BInv, ParseInput, Parsing, Tagged, IsVariable, Line
<1>2. ~(Tagged(at, "state") /\ HasNextLine(at))
  BY <1>1, WithoutNextIs
<1>3. CASE name \in symbols \/ ~CanName(name, at)
  BY <1>1, <1>3, RefuseStep DEF ParseInput
<1>4. CASE ~(name \in symbols \/ ~CanName(name, at))
  <2>1. /\ CanName(name, at)
        /\ inputvars_' = Put(inputvars_, at, name)
        /\ UNCHANGED <<statevars_, state_updates_>>
    BY <1>4 DEF ParseInput, logic
  <2>2. PICK t : Accept(t, at, Put(named_terms_, name, at))
    BY <1>4 DEF ParseInput
  <2>3. /\ file' = file /\ node' = Put(node, at, at)
        /\ named_terms_' = Put(named_terms_, name, at)
    BY <2>2 DEF Accept
  <2>4. /\ DOMAIN inputvars_' = DOMAIN inputvars_ \cup {at}
        /\ inputvars_'[at] = name
        /\ \A id \in DOMAIN inputvars_ : id # at => inputvars_'[id] = inputvars_[id]
        /\ at \notin DOMAIN statevars_ /\ at \notin DOMAIN inputvars_
    BY <1>1, <2>1 DEF Put, Parsed
  <2>5. /\ name \in DOMAIN named_terms_' /\ named_terms_'[name] = at
        /\ \A x \in DOMAIN named_terms_ : /\ x \in DOMAIN named_terms_'
                                          /\ named_terms_'[x] = named_terms_[x]
    BY <2>1, <2>3, NamingKeeps
  <2> HIDE DEF name
  <2>6. ASSUME NEW n, n = at PROVE Parsed(n + 1)'
    <3>1. n \in Nat \ {0} /\ Parsed(n) /\ ~(Tagged(n, "state") /\ HasNextLine(n))
          /\ ~Tagged(n, "next") /\ ~Tagged(n, "output") /\ IsVariable(n)
      BY <1>1, <1>2, <2>6 DEF Tagged, IsVariable
    <3>2. /\ DOMAIN statevars_' = DOMAIN statevars_ \cup
                (IF Tagged(n, "state") /\ HasNextLine(n) THEN {n} ELSE {})
          /\ DOMAIN inputvars_' = DOMAIN inputvars_ \cup
                (IF IsVariable(n) /\ ~(Tagged(n, "state") /\ HasNextLine(n)) THEN {n} ELSE {})
          /\ DOMAIN state_updates_' = DOMAIN state_updates_ \cup
                (IF Tagged(n, "next") THEN {file[n].args[1]} ELSE {})
          /\ \A id \in DOMAIN statevars_ : statevars_'[id] = statevars_[id]
          /\ \A id \in DOMAIN inputvars_ : inputvars_'[id] = inputvars_[id]
      BY <2>1, <2>4, <2>6, <3>1
    <3>3. /\ inputvars_'[n] \in DOMAIN named_terms_'
          /\ named_terms_'[inputvars_'[n]] = n
          /\ n \notin DOMAIN statevars_'
          /\ node' = Put(node, n, n)
      BY <2>1, <2>3, <2>4, <2>5, <2>6
    <3> QED BY <2>3, <2>5, <3>1, <3>2, <3>3, ParsedAfter
  <2> QED BY <1>1, <2>2, <2>6, AcceptStep
<1> QED BY <1>3, <1>4

LEMMA ParseOutputStep ==
  ASSUME BInv, ParseOutput
  PROVE  BInv'
<1> DEFINE n1 == ArgNode(Line.args[1])
           name == Called("output")
           out == "_out_" \o name
<1>1. /\ pass = "parse" /\ at <= Len(file) /\ Tagged(at, "output")
      /\ at \in Nat \ {0} /\ Parsed(at)
      /\ UNCHANGED <<statevars_, inputvars_, state_updates_>>
  BY FileIs DEF BInv, ParseOutput, Parsing, Tagged, Line, registry, logic
<1>2. \/ Refuse
      \/ Accept(termargs_[1], n1, Put(named_terms_, name, n1)) /\ CanName(name, n1)
      \/ Accept(termargs_[1], n1, Put(named_terms_, out, n1)) /\ CanName(out, n1)
  BY DEF ParseOutput
<1>3. CASE Refuse
  BY <1>1, <1>3, RefuseStep
<1>4. ASSUME NEW called \in {name, out},
             Accept(termargs_[1], n1, Put(named_terms_, called, n1)), CanName(called, n1)
      PROVE  BInv'
  <2>1. /\ file' = file /\ node' = Put(node, at, n1)
        /\ named_terms_' = Put(named_terms_, called, n1)
    BY <1>4 DEF Accept
  <2>2. /\ called \in DOMAIN named_terms_' /\ named_terms_'[called] = n1
        /\ \A x \in DOMAIN named_terms_ : /\ x \in DOMAIN named_terms_'
                                          /\ named_terms_'[x] = named_terms_[x]
    BY <1>4, <2>1, NamingKeeps
  <2>3. Line.symbol # Unnamed => called \in {Line.symbol, "_out_" \o Line.symbol}
    BY DEF Called
  <2>4. node'[at] = n1
    BY <2>1 DEF Put
  <2> HIDE DEF n1, name, out
  <2>5. /\ at \notin DOMAIN statevars_' /\ at \notin DOMAIN inputvars_'
    BY <1>1 DEF Parsed
  <2>6. ASSUME NEW n, n = at PROVE Parsed(n + 1)'
    <3>1. OutputFound(n)'
      <4>1. /\ named_terms_'[called] = node'[n]
            /\ file'[n].symbol # Unnamed =>
                 called \in {file'[n].symbol, "_out_" \o file'[n].symbol}
        BY <2>1, <2>2, <2>3, <2>4, <2>6 DEF Line
      <4> QED BY <2>2, <4>1 DEF OutputFound
    <3>2. n \in Nat \ {0} /\ Parsed(n) /\ ~Tagged(n, "state") /\ ~Tagged(n, "next")
          /\ ~IsVariable(n) /\ n \notin DOMAIN statevars_' /\ n \notin DOMAIN inputvars_'
          /\ node' = Put(node, n, n1)
      BY <1>1, <2>1, <2>5, <2>6 DEF Tagged, IsVariable
    <3>3. /\ DOMAIN statevars_' = DOMAIN statevars_ \cup
                (IF Tagged(n, "state") /\ HasNextLine(n) THEN {n} ELSE {})
          /\ DOMAIN inputvars_' = DOMAIN inputvars_ \cup
                (IF IsVariable(n) /\ ~(Tagged(n, "state") /\ HasNextLine(n)) THEN {n} ELSE {})
          /\ DOMAIN state_updates_' = DOMAIN state_updates_ \cup
                (IF Tagged(n, "next") THEN {file[n].args[1]} ELSE {})
      BY <1>1, <3>2
    <3> QED BY <1>1, <2>1, <2>2, <3>1, <3>2, <3>3, ParsedAfter
  <2> QED BY <1>1, <1>4, <2>6, AcceptStep
<1> QED BY <1>2, <1>3, <1>4

LEMMA ParseNextStep ==
  ASSUME BInv, ParseNext
  PROVE  BInv'
<1> DEFINE x == termargs_[1]
           y == termargs_[2]
           p == Matched(x, y, <<bool_to_bv(x), bool_to_bv(y)>>)
           state == ArgNode(Line.args[1])
           m == ArgNode(Line.args[2])
<1>1. /\ pass = "parse" /\ at <= Len(file) /\ Tagged(at, "next")
      /\ at \in 1 .. Len(file) /\ at \in Nat \ {0} /\ Parsed(at) /\ file \in Files
  BY FileIs DEF BInv, ParseNext, Parsing, Tagged, Line
<1>2. state = file[at].args[1]
  <2>1. file[at].args[1] \in 1 .. at - 1 /\ Tagged(file[at].args[1], "state")
    BY <1>1, FileIs
  <2>2. node[file[at].args[1]] = file[at].args[1]
    BY <2>1 DEF Parsed, BInv, IsVariable, Tagged, ParseNext, Parsing
  <2>3. ~(file[at].args[1] < 0)
    BY <1>1, <2>1
  <2> QED BY <2>2, <2>3 DEF ArgNode, Line
<1>3. \/ Refuse
      \/ /\ state_updates_' = Put(state_updates_, state, p[2])
         /\ Accept(p[2], m, NamesWith(m))
         /\ UNCHANGED <<statevars_, inputvars_>>
  BY DEF ParseNext, registry
<1> HIDE DEF x, y, p, state, m
<1>4. CASE Refuse
  BY <1>1, <1>4, RefuseStep
<1>5. CASE /\ state_updates_' = Put(state_updates_, state, p[2])
           /\ Accept(p[2], m, NamesWith(m))
           /\ UNCHANGED <<statevars_, inputvars_>>
  <2>1. /\ file' = file /\ node' = Put(node, at, m) /\ named_terms_' = NamesWith(m)
    BY <1>5 DEF Accept
  <2>2. \A z \in DOMAIN named_terms_ : /\ z \in DOMAIN named_terms_'
                                       /\ named_terms_'[z] = named_terms_[z]
    <3>1. CASE Line.symbol # Unnamed /\ CanName(Line.symbol, m)
      BY <2>1, <3>1, NamingKeeps DEF NamesWith
    <3>2. CASE ~(Line.symbol # Unnamed /\ CanName(Line.symbol, m))
      BY <2>1, <3>2 DEF NamesWith
    <3> QED BY <3>1, <3>2
  <2>3. /\ at \notin DOMAIN statevars_' /\ at \notin DOMAIN inputvars_'
    BY <1>1, <1>5 DEF Parsed
  <2>4. DOMAIN state_updates_' = DOMAIN state_updates_ \cup {file[at].args[1]}
    BY <1>2, <1>5 DEF Put
  <2>5. ASSUME NEW n, n = at PROVE Parsed(n + 1)'
    <3>1. n \in Nat \ {0} /\ Parsed(n) /\ ~Tagged(n, "state") /\ ~Tagged(n, "output")
          /\ Tagged(n, "next") /\ ~IsVariable(n)
          /\ n \notin DOMAIN statevars_' /\ n \notin DOMAIN inputvars_'
          /\ node' = Put(node, n, m)
      BY <1>1, <2>1, <2>3, <2>5 DEF Tagged, IsVariable
    <3>2. /\ DOMAIN statevars_' = DOMAIN statevars_ \cup
                (IF Tagged(n, "state") /\ HasNextLine(n) THEN {n} ELSE {})
          /\ DOMAIN inputvars_' = DOMAIN inputvars_ \cup
                (IF IsVariable(n) /\ ~(Tagged(n, "state") /\ HasNextLine(n)) THEN {n} ELSE {})
          /\ DOMAIN state_updates_' = DOMAIN state_updates_ \cup
                (IF Tagged(n, "next") THEN {file[n].args[1]} ELSE {})
      BY <1>5, <2>4, <2>5, <3>1
    <3> QED BY <1>5, <2>1, <2>2, <3>1, <3>2, ParsedAfter
  <2> QED BY <1>1, <1>5, <2>5, AcceptStep
<1> QED BY <1>3, <1>4, <1>5

\* Every other line only adds a term, and perhaps a name that is not taken.
LEMMA OtherLinesStep ==
  ASSUME BInv,
         \/ ParseConstraint \/ ParseBad \/ ParseInit \/ ParseIgnored
         \/ ParseConst \/ ParseOperator
  PROVE  BInv'
<1>1. pass = "parse" /\ at <= Len(file) /\ Line.tag \notin {"state", "input", "output", "next"}
  BY DEF ParseConstraint, ParseBad, ParseInit, ParseIgnored, ParseConst, ParseOperator,
         Parsing, ConstTags, NotOperators
<1>2. Refuse \/ \E t, m : /\ Accept(t, m, NamesWith(m))
                          /\ UNCHANGED <<statevars_, inputvars_, state_updates_>>
  <2>1. ASSUME NEW t, NEW m, Accept(t, m, NamesWith(m)),
               UNCHANGED <<statevars_, inputvars_, state_updates_>>
        PROVE  \E u, k : /\ Accept(u, k, NamesWith(k))
                         /\ UNCHANGED <<statevars_, inputvars_, state_updates_>>
    BY <2>1
  <2>2. CASE ParseConstraint
    BY <2>1, <2>2 DEF ParseConstraint, registry
  <2>3. CASE ParseBad
    BY <2>1, <2>3 DEF ParseBad, registry
  <2>4. CASE ParseInit
    BY <2>1, <2>4 DEF ParseInit, registry
  <2>5. CASE ParseIgnored
    BY <2>1, <2>5 DEF ParseIgnored, registry, logic
  <2>6. CASE ParseConst
    BY <2>1, <2>6 DEF ParseConst, registry, logic
  <2>7. CASE ParseOperator
    <3>1. PICK t \in LineTerms(Line.tag, Line.imm, termargs_) :
            \/ Refuse
            \/ Accept(t, at, NamesWith(at)) /\ UNCHANGED <<registry, logic>>
      BY <2>7 DEF ParseOperator
    <3> QED BY <2>1, <3>1 DEF registry, logic
  <2> QED BY <2>2, <2>3, <2>4, <2>5, <2>6, <2>7
<1>3. CASE Refuse
  BY <1>1, <1>3, RefuseStep
<1>4. ASSUME NEW t, NEW m, Accept(t, m, NamesWith(m)),
             UNCHANGED <<statevars_, inputvars_, state_updates_>>
      PROVE  BInv'
  BY <1>1, <1>4, OrdinaryStep
<1> QED BY <1>2, <1>3, <1>4

-----------------------------------------------------------------------------
(***************************************************************************)
(* The specification                                                       *)
(***************************************************************************)
LEMMA InitBInv ==
  ASSUME Init
  PROVE  BInv
<1>1. /\ file \in Files /\ Len(file) \in Nat /\ pass = "preprocess" /\ at = 1
      /\ unamed_state_ids = {} /\ state_wo_next = {} /\ DOMAIN state_renaming_table = {}
      /\ DOMAIN node = {} /\ DOMAIN statevars_ = {} /\ DOMAIN inputvars_ = {}
      /\ DOMAIN state_updates_ = {}
  BY FileIs DEF Init
<1>2. 1 .. 1 - 1 = {}
  OBVIOUS
<1>3. Scanned(1)
  BY <1>1, <1>2 DEF Scanned
<1>4. Parsed(1)
  <2>1. {id \in 1 .. 1 - 1 : IsVariable(id)} = {} /\ {k \in 1 .. 1 - 1 : Tagged(k, "next")} = {}
    BY <1>2
  <2>2. {id \in 1 .. 1 - 1 : Tagged(id, "state") /\ HasNextLine(id)} = {}
    BY <1>2
  <2>3. {file[m].args[1] : m \in {k \in 1 .. 1 - 1 : Tagged(k, "next")}} = {}
    BY <2>1
  <2> QED BY <1>1, <1>2, <2>1, <2>2, <2>3 DEF Parsed
<1> QED BY <1>1, <1>3, <1>4 DEF BInv

LEMMA NextKeepsBInv ==
  ASSUME BInv, [Next]_bvars
  PROVE  BInv'
<1>1. CASE ScanState \/ ScanOutput \/ ScanNext \/ ScanOther
  BY <1>1, ScanStep
<1>2. CASE Rewind
  BY <1>2, RewindStep
<1>3. CASE ParseState
  BY <1>3, ParseStateStep
<1>4. CASE ParseInput
  BY <1>4, ParseInputStep
<1>5. CASE ParseOutput
  BY <1>5, ParseOutputStep
<1>6. CASE ParseNext
  BY <1>6, ParseNextStep
<1>7. CASE \/ ParseConstraint \/ ParseBad \/ ParseInit \/ ParseIgnored
           \/ ParseConst \/ ParseOperator
  BY <1>7, OtherLinesStep
<1>8. CASE Finish
  BY <1>8, RefuseStep DEF Finish
<1>9. CASE UNCHANGED bvars
  <2>1. /\ file' = file /\ at' = at /\ pass' = pass /\ UNCHANGED scan
        /\ UNCHANGED <<node, statevars_, inputvars_, state_updates_, named_terms_>>
    BY <1>9 DEF bvars, registry, logic
  <2>2. file \in Files /\ Len(file) \in Nat
    BY FileIs DEF BInv
  <2>3. pass = "preprocess" => Scanned(at)' /\ Parsed(1)'
    BY <2>1, ScanIsKept, ParsedIsKept DEF BInv
  <2>4. pass # "preprocess" => Scanned(Len(file) + 1)' /\ Parsed(at)'
    BY <2>1, ScanIsKept, ParsedIsKept DEF BInv
  <2> QED BY <2>1, <2>2, <2>3, <2>4 DEF BInv
<1> QED BY <1>1, <1>2, <1>3, <1>4, <1>5, <1>6, <1>7, <1>8, <1>9 DEF Next

LEMMA BInvAlways == Spec => []BInv
<1>1. Init => BInv
  BY InitBInv
<1>2. BInv /\ [Next]_bvars => BInv'
  BY NextKeepsBInv
<1> QED BY <1>1, <1>2, PTL DEF Spec

\* For every file: once it is read, the state variables are the states with a
\* next line, each has an update, which sim_one_step looks up unguarded, and
\* the other states are inputs, whichever comes first in the file, the state or
\* its next line (preprocess, state_wo_next).
THEOREM StatesHaveUpdates == Spec => []StateVariablesHaveUpdates
<1>1. BInv => StateVariablesHaveUpdates
  <2> SUFFICES ASSUME BInv, Done PROVE StateVariablesHaveUpdates
    BY DEF StateVariablesHaveUpdates
  <2>1. /\ file \in Files /\ DOMAIN file = 1 .. Len(file)
        /\ Parsed(at) /\ at - 1 = Len(file)
    BY FileIs DEF BInv, Done
  <2>2. DOMAIN statevars_ = {id \in Lines({"state"}) : HasNextLine(id)}
    BY <2>1 DEF Parsed, Lines, Tagged
  <2>3. DOMAIN inputvars_ = Variables \ DOMAIN statevars_
    BY <2>1 DEF Parsed, Lines, IsVariable, Variables
  <2>4. DOMAIN state_updates_ = DOMAIN statevars_
    <3>1. DOMAIN state_updates_ =
            {file[m].args[1] : m \in {k \in 1 .. Len(file) : Tagged(k, "next")}}
      BY <2>1 DEF Parsed
    <3>2. \A m \in 1 .. Len(file) : Tagged(m, "next") =>
            file[m].args[1] \in 1 .. m - 1 /\ Tagged(file[m].args[1], "state")
      BY <2>1, FileIs
    <3>3. \A m \in 1 .. Len(file) : Tagged(m, "next") => file[m].args[1] \in 1 .. Len(file)
      BY <2>1, <3>2, FileIs
    <3>4. \A id : HasNextLine(id) <=>
            \E m \in {k \in 1 .. Len(file) : Tagged(k, "next")} : file[m].args[1] = id
      BY <2>1 DEF HasNextLine, Lines, Tagged
    <3> QED BY <2>1, <2>2, <3>1, <3>2, <3>3, <3>4 DEF Lines, Tagged
  <2> QED BY <2>2, <2>3, <2>4 DEF StateVariablesHaveUpdates
<1> QED BY <1>1, BInvAlways, PTL

\* For every file: a state variable is called as the first output that shows it
\* when its own line names it not, and once the file is read every variable
\* and every output is found under its name, an output perhaps under "_out_"
\* and the name: no later line takes a name from its term (name_term).
THEOREM SignalsAreAlwaysFound == Spec => []SignalsAreFound
<1>1. BInv => SignalsAreFound
  <2> SUFFICES ASSUME BInv PROVE SignalsAreFound
    OBVIOUS
  <2>1. VariablesAreCalledAsInTheSource
    BY DEF BInv, Parsed, VariablesAreCalledAsInTheSource
  <2>2. ASSUME Done
        PROVE  /\ \A v \in Variables :
                    LET n == IF v \in DOMAIN statevars_ THEN statevars_[v] ELSE inputvars_[v]
                    IN n \in DOMAIN named_terms_ /\ named_terms_[n] = v
               /\ \A o \in Lines({"output"}) :
                    \E n \in DOMAIN named_terms_ :
                      /\ named_terms_[n] = node[o]
                      /\ file[o].symbol # Unnamed =>
                           n \in {file[o].symbol, "_out_" \o file[o].symbol}
    <3>1. /\ file \in Files /\ DOMAIN file = 1 .. Len(file)
          /\ Parsed(at) /\ at - 1 = Len(file)
      BY <2>2, FileIs DEF BInv, Done
    <3>2. \A v \in Variables : v \in 1 .. Len(file) /\ IsVariable(v)
      BY <3>1 DEF Variables, Lines, IsVariable
    <3>3. \A v \in Variables : v \in DOMAIN statevars_ \/ v \in DOMAIN inputvars_
      BY <3>1, <3>2 DEF Parsed
    <3>4. /\ \A v \in DOMAIN statevars_ : NamedAs(statevars_[v], v)
          /\ \A v \in DOMAIN inputvars_ : NamedAs(inputvars_[v], v)
      BY <3>1 DEF Parsed
    <3>5. \A o \in Lines({"output"}) : OutputFound(o)
      BY <3>1 DEF Parsed, Lines, Tagged
    <3> QED BY <3>3, <3>4, <3>5 DEF NamedAs, OutputFound
  <2> QED BY <2>1, <2>2 DEF SignalsAreFound
<1> QED BY <1>1, BInvAlways, PTL
-----------------------------------------------------------------------------
(***************************************************************************)
(* The frames of the simulator and the queries about them.                 *)
(*                                                                         *)
(* A step substitutes the update of a variable with the frame below it.    *)
(* What the update mentions, the variable depends on, and with it on all   *)
(* that this depends on: so a frame of values or of variables that depend  *)
(* on one without an update is followed by such a frame (StepSettles).     *)
(***************************************************************************)

Unset == StateVars \ Updated

Terms == SUBSET (Values \cup Unset)

\* The term of v is free of variables, unless v depends on one without update.
Settled(term, v) == term \subseteq Values \/ ~(DependsOn(v) \subseteq Updated)

Frames ==
  {f \in [StateVars -> Terms] \cup [Updated -> Terms] : \A v \in DOMAIN f : Settled(f[v], v)}

ChoiceRecords == [assign : Given(InVars), used : BOOLEAN]

QInv ==
  /\ trace_ \in Seq(Frames)
  /\ history_choice_ \in Seq(ChoiceRecords)
  /\ \A i \in 1 .. Len(history_choice_) - 1 : history_choice_[i].used
  /\ Len(trace_) = IF trace_ = <<>> THEN Len(history_choice_)
                   ELSE Len(history_choice_) + (IF Pending THEN 0 ELSE 1)
  /\ answer.outcome \in {"none", "term", "throws", "aborts"}
  /\ AnswersAreOverValues

LEMMA FrameIs ==
  ASSUME NEW f \in Frames
  PROVE  /\ DOMAIN f \in {StateVars, Updated} /\ DOMAIN f \subseteq StateVars
         /\ Updated \subseteq DOMAIN f
         /\ \A v \in DOMAIN f : f[v] \subseteq Values \cup Unset /\ Settled(f[v], v)
BY QueriesAssumption DEF Frames, Terms

LEMMA GivenIs ==
  ASSUME NEW vs, NEW m \in Given(vs)
  PROVE  DOMAIN m = vs /\ \A v \in vs : m[v] \subseteq Values
BY DEF Given

LEMMA RootIsFrame == Given(StateVars) \subseteq Frames
<1> SUFFICES ASSUME NEW root \in Given(StateVars) PROVE root \in Frames
  OBVIOUS
<1>1. root \in [StateVars -> Terms]
  BY DEF Given, Terms
<1> QED BY <1>1, GivenIs DEF Frames, Settled

\* A variable depends on itself and on all that those it mentions depend on.
LEMMA DependenceGoesOn ==
  ASSUME NEW v \in Updated, NEW x \in Update[v] \cap StateVars
  PROVE  DependsOn(x) \subseteq DependsOn(v) /\ x \in DependsOn(x)
<1>1. ASSUME NEW S \in SUBSET StateVars, v \in S, Mentioned(S) \subseteq S
      PROVE  x \in S
  <2>1. Update[v] \in {Update[w] : w \in S \cap Updated}
    BY <1>1
  <2>2. x \in UNION {Update[w] : w \in S \cap Updated}
    BY <2>1
  <2> QED BY <1>1, <2>2 DEF Mentioned
<1> QED BY <1>1 DEF DependsOn

LEMMA StepSettles ==
  ASSUME NEW f \in Frames, NEW inputs \in Given(InVars)
  PROVE  NextFrame(f, inputs) \in Frames
<1> DEFINE m == Insert(f, inputs)
<1>1. /\ DOMAIN f \subseteq StateVars /\ Updated \subseteq DOMAIN f
      /\ \A v \in DOMAIN f : f[v] \subseteq Values \cup Unset /\ Settled(f[v], v)
  BY FrameIs
<1>2. DOMAIN inputs = InVars /\ \A v \in InVars : inputs[v] \subseteq Values
  BY GivenIs
<1>3. ASSUME NEW x
      PROVE  Apply(m, x) = IF x \in DOMAIN f THEN f[x]
                           ELSE IF x \in InVars THEN inputs[x] ELSE {x}
  BY <1>2 DEF Apply, Insert
<1> HIDE DEF m
<1>4. ASSUME NEW v \in Updated, NEW x \in Update[v]
      PROVE  /\ Apply(m, x) \subseteq Values \cup Unset
             /\ Settled(Apply(m, x), v)
  <2>1. x \in StateVars \/ (x \in InVars /\ x \notin StateVars)
    BY QueriesAssumption DEF Vars
  <2>2. CASE x \in StateVars
    <3>1. DependsOn(x) \subseteq DependsOn(v) /\ x \in DependsOn(x) /\ x \notin InVars
      BY <2>2, DependenceGoesOn, QueriesAssumption
    <3>2. CASE x \in DOMAIN f
      BY <1>1, <1>3, <3>1, <3>2 DEF Settled
    <3>3. CASE x \notin DOMAIN f
      <4>1. x \notin Updated /\ Apply(m, x) = {x}
        BY <1>1, <1>3, <3>1, <3>3
      <4> QED BY <2>2, <3>1, <4>1 DEF Settled, Unset
    <3> QED BY <3>2, <3>3
  <2>3. CASE x \in InVars /\ x \notin StateVars
    BY <1>1, <1>2, <1>3, <2>3 DEF Settled
  <2> QED BY <2>1, <2>2, <2>3
<1>5. ASSUME NEW v \in Updated
      PROVE  Substitute(Update[v], m) \in Terms /\ Settled(Substitute(Update[v], m), v)
  <2>1. Substitute(Update[v], m) = UNION {Apply(m, x) : x \in Update[v]}
    BY DEF Substitute
  <2>2. Substitute(Update[v], m) \subseteq Values \cup Unset
    BY <1>4, <2>1
  <2>3. Settled(Substitute(Update[v], m), v)
    BY <1>4, <2>1 DEF Settled
  <2> QED BY <2>2, <2>3 DEF Terms
<1>6. NextFrame(f, inputs) = [v \in Updated |-> Substitute(Update[v], m)]
  BY DEF NextFrame, m
<1> QED BY <1>5, <1>6 DEF Frames

-----------------------------------------------------------------------------
(***************************************************************************)
(* The steps                                                               *)
(***************************************************************************)
\* What is left of an expression substituted with a frame.
LEMMA InterpretedIs ==
  ASSUME NEW f \in Frames, NEW expr, expr \subseteq Vars
  PROVE  Interpreted(expr, f) \cap Vars \subseteq (expr \cap InVars) \cup Unset
<1>1. /\ Updated \subseteq DOMAIN f /\ \A v \in DOMAIN f : f[v] \subseteq Values \cup Unset
  BY FrameIs
<1>2. ASSUME NEW x \in expr
      PROVE  Apply(f, x) \cap Vars \subseteq (expr \cap InVars) \cup Unset
  <2>1. CASE x \in DOMAIN f
    BY <1>1, <2>1, QueriesAssumption DEF Apply
  <2>2. CASE x \notin DOMAIN f
    BY <1>1, <2>2 DEF Apply, Unset, Vars
  <2> QED BY <2>1, <2>2
<1> QED BY <1>2 DEF Interpreted, Substitute

LEMMA InitQInv == QInit => QInv
BY DEF QInit, QInv, NoAnswer, AnswersAreOverValues

LEMMA NextKeepsQInv == QInv /\ [QNext]_fvars => QInv'
<1> SUFFICES ASSUME QInv, [QNext]_fvars PROVE QInv'
  OBVIOUS
<1> DEFINE h == history_choice_
           n == Len(h)
<1>1. /\ trace_ \in Seq(Frames) /\ h \in Seq(ChoiceRecords) /\ n \in Nat /\ Len(trace_) \in Nat
      /\ \A i \in 1 .. n - 1 : h[i].used
      /\ Len(trace_) = IF trace_ = <<>> THEN n ELSE n + (IF Pending THEN 0 ELSE 1)
      /\ answer.outcome \in {"none", "term", "throws", "aborts"}
      /\ UNCHANGED answer => AnswersAreOverValues'
  BY DEF QInv, AnswersAreOverValues
<1>2. Pending <=> h # <<>> /\ ~h[n].used
  BY <1>1 DEF Pending, Last
<1>3. h = <<>> <=> n = 0
  BY <1>1
<1>4. trace_ = <<>> <=> Len(trace_) = 0
  BY <1>1
<1>5. CASE UNCHANGED fvars
  BY <1>1, <1>5 DEF fvars, QInv, Pending
<1>6. ASSUME NEW root \in Given(StateVars), init(root)
      PROVE  QInv'
  <2>1. trace_' = <<root>> /\ trace_ = <<>> /\ UNCHANGED <<history_choice_, answer>>
    BY <1>6 DEF init
  <2>2. n = 0 /\ ~Pending /\ ~Pending'
    BY <1>1, <1>3, <2>1 DEF Pending
  <2> QED BY <1>1, <2>1, <2>2, RootIsFrame DEF QInv
<1>7. ASSUME NEW k \in DOMAIN trace_, set_current_state(k)
      PROVE  QInv'
  <2>1. trace_' = <<trace_[k]>> /\ history_choice_' = <<>> /\ UNCHANGED answer
    BY <1>7 DEF set_current_state
  <2>2. trace_[k] \in Frames /\ ~Pending'
    BY <1>1, <2>1 DEF Pending
  <2> QED BY <1>1, <2>1, <2>2 DEF QInv
<1>8. ASSUME NEW inputs \in Given(InVars), set_input(inputs)
      PROVE  QInv'
  <2> DEFINE c == [assign |-> inputs, used |-> FALSE]
  <2>1. history_choice_' = Append(h, c) /\ trace_ # <<>> /\ ~Pending
        /\ UNCHANGED <<trace_, answer>>
    BY <1>8 DEF set_input
  <2>2. c \in ChoiceRecords /\ ~c.used
    BY DEF ChoiceRecords
  <2> HIDE DEF c
  <2>3. /\ history_choice_' \in Seq(ChoiceRecords) /\ Len(history_choice_') = n + 1
        /\ history_choice_' # <<>>
        /\ \A i \in 1 .. n : history_choice_'[i] = h[i]
        /\ history_choice_'[n + 1] = c
    BY <1>1, <2>1, <2>2, AppendType
  <2>4. Pending'
    BY <2>2, <2>3 DEF Pending, Last
  <2>5. \A i \in 1 .. n : h[i].used
    BY <1>1, <1>2, <1>3, <2>1
  <2> QED BY <1>1, <2>1, <2>3, <2>4, <2>5 DEF QInv
<1>9. CASE undo_set_input
  <2>1. history_choice_' = Front(h) /\ Pending /\ UNCHANGED <<trace_, answer>>
    BY <1>9 DEF undo_set_input
  <2>2. /\ Front(h) \in Seq(ChoiceRecords) /\ Len(Front(h)) = n - 1
        /\ \A i \in 1 .. n - 1 : Front(h)[i] = h[i]
    BY <1>1, <1>2, <2>1, FrontType
  <2>3. ~Pending'
    BY <1>1, <2>1, <2>2 DEF Pending, Last
  <2>4. trace_ # <<>>
    BY <1>1, <1>2, <1>3, <1>4, <2>1
  <2> QED BY <1>1, <1>2, <1>3, <2>1, <2>2, <2>3, <2>4 DEF QInv
<1>10. CASE sim_one_step
  <2> DEFINE c == [Last(h) EXCEPT !.used = TRUE]
             f == NextFrame(Last(trace_), Last(h).assign)
  <2>1. /\ Pending /\ trace_' = Append(trace_, f)
        /\ history_choice_' = [h EXCEPT ![n].used = TRUE] /\ UNCHANGED answer
    BY <1>10 DEF sim_one_step
  <2>2. Last(h) \in ChoiceRecords /\ Last(h) = h[n] /\ h # <<>> /\ n \in 1 .. n
    BY <1>1, <1>2, <1>3, <2>1, LastType
  <2>3. c \in ChoiceRecords /\ c.used /\ Last(h).assign \in Given(InVars)
    BY <2>2 DEF ChoiceRecords
  <2>4. trace_ # <<>>
    BY <1>1, <1>2, <1>3, <1>4, <2>1
  <2>5. f \in Frames
    BY <1>1, <2>3, <2>4, LastType, StepSettles
  <2>6. history_choice_' = [h EXCEPT ![n] = c]
    BY <2>1, <2>2
  <2> HIDE DEF c, f
  <2>7. /\ history_choice_' \in Seq(ChoiceRecords) /\ Len(history_choice_') = n
        /\ \A i \in 1 .. n - 1 : history_choice_'[i] = h[i]
        /\ history_choice_'[n] = c
    BY <1>1, <2>2, <2>3, <2>6, ReplaceLast
  <2>8. ~Pending'
    BY <2>3, <2>7 DEF Pending, Last
  <2>9. trace_' \in Seq(Frames) /\ Len(trace_') = Len(trace_) + 1 /\ trace_' # <<>>
    BY <1>1, <2>1, <2>5, AppendType
  <2> QED BY <1>1, <2>1, <2>4, <2>7, <2>8, <2>9 DEF QInv
<1>11. CASE ~Pending /\ backtrack
  <2> DEFINE c == [Last(h) EXCEPT !.used = FALSE]
  <2>1. /\ h # <<>> /\ ~Pending /\ trace_' = Front(trace_)
        /\ history_choice_' = [h EXCEPT ![n].used = FALSE] /\ UNCHANGED answer
    BY <1>11 DEF backtrack, ToSimulate
  <2>2. Last(h) \in ChoiceRecords /\ Last(h) = h[n] /\ h # <<>> /\ n \in 1 .. n
    BY <1>1, <1>3, <2>1, LastType
  <2>3. c \in ChoiceRecords /\ ~c.used
    BY <2>2 DEF ChoiceRecords
  <2>4. trace_ # <<>> /\ Len(trace_) = n + 1
    BY <1>1, <1>2, <1>3, <1>4, <2>1, <2>2
  <2>5. history_choice_' = [h EXCEPT ![n] = c]
    BY <2>1, <2>2
  <2> HIDE DEF c
  <2>6. /\ history_choice_' \in Seq(ChoiceRecords) /\ Len(history_choice_') = n
        /\ \A i \in 1 .. n - 1 : history_choice_'[i] = h[i]
        /\ history_choice_'[n] = c
    BY <1>1, <2>2, <2>3, <2>5, ReplaceLast
  <2>7. Pending'
    BY <1>3, <2>1, <2>3, <2>6 DEF Pending, Last
  <2>8. trace_' \in Seq(Frames) /\ Len(trace_') = n
    BY <1>1, <2>1, <2>4, FrontType
  <2> QED BY <1>1, <2>1, <2>6, <2>7, <2>8 DEF QInv
<1>12. ASSUME NEW expr \in Named, cur(expr)
       PROVE  QInv'
  <2>1. UNCHANGED <<trace_, history_choice_>> /\ answer'.outcome \in {"term", "aborts"}
    BY <1>12 DEF cur, Answered
  <2>2. AnswersAreOverValues'
    BY <1>12 DEF cur, Answered, AnswersAreOverValues
  <2> QED BY <1>1, <2>1, <2>2 DEF QInv, Pending
<1>13. ASSUME NEW expr \in Named, interpret_state_expr_on_curr_frame(expr)
       PROVE  QInv'
  <2>1. UNCHANGED <<trace_, history_choice_>> /\ answer'.outcome \in {"term", "throws"}
    BY <1>13 DEF interpret_state_expr_on_curr_frame, Answered
  <2>2. expr \subseteq Vars /\ Last(trace_) \in Frames
    BY <1>1, <1>13, LastType, QueriesAssumption DEF interpret_state_expr_on_curr_frame
  <2>3. Interpreted(expr, Last(trace_)) \cap Vars \subseteq (expr \cap InVars) \cup Unset
    BY <2>2, InterpretedIs
  <2>4. \/ answer' = [query |-> "interpret", expr |-> expr, outcome |-> "term",
                      result |-> Interpreted(expr, Last(trace_))]
        \/ answer' = [query |-> "interpret", expr |-> expr, outcome |-> "throws", result |-> {}]
    BY <1>13 DEF interpret_state_expr_on_curr_frame, Answered
  <2>5. AnswersAreOverValues'
    BY <2>3, <2>4 DEF AnswersAreOverValues, Unset
  <2> QED BY <1>1, <2>1, <2>5 DEF QInv, Pending
<1> QED BY <1>5, <1>6, <1>7, <1>8, <1>9, <1>10, <1>11, <1>12, <1>13 DEF QNext

\* A term of a frame has a variable of the design in it only if the variable
\* it is the term of depends on one that has no update.
THEOREM FramesHoldValues == QSpec => []TermsOfFramesAreValues
<1>1. QInv => TermsOfFramesAreValues
  <2> SUFFICES ASSUME QInv PROVE TermsOfFramesAreValues
    OBVIOUS
  <2>1. \A k \in DOMAIN trace_ : trace_[k] \in Frames
    BY DEF QInv
  <2>2. \A i \in DOMAIN history_choice_ : history_choice_[i].assign \in Given(InVars)
    <3>1. \A i \in DOMAIN history_choice_ : history_choice_[i] \in ChoiceRecords
      BY DEF QInv
    <3> QED BY <3>1 DEF ChoiceRecords
  <2>3. \A k \in DOMAIN trace_ :
          /\ DOMAIN trace_[k] \in {StateVars, Updated}
          /\ \A v \in DOMAIN trace_[k] : trace_[k][v] \subseteq Vars \cup Values
    BY <2>1, FrameIs DEF Unset, Vars
  <2>4. QTypeOK
    BY <2>2, <2>3 DEF QInv, QTypeOK
  <2>5. ASSUME NEW k \in DOMAIN trace_, NEW v \in DOMAIN trace_[k]
        PROVE  trace_[k][v] \subseteq Values \/ ~(DependsOn(v) \subseteq Updated)
    BY <2>1, FrameIs DEF Settled
  <2> QED BY <2>4, <2>5 DEF TermsOfFramesAreValues
<1> QED BY <1>1, InitQInv, NextKeepsQInv, PTL DEF QSpec

\* No state variable with an update is left in what
\* interpret_state_expr_on_curr_frame returns.
THEOREM AnswersStayOverValues == QSpec => []AnswersAreOverValues
<1>1. QInv => AnswersAreOverValues
  BY DEF QInv
<1> QED BY <1>1, InitQInv, NextKeepsQInv, PTL DEF QSpec
=============================================================================

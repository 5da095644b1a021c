------------------------ MODULE SygusProcess_proofs ------------------------
(***************************************************************************)
(* What SygusProcess promises for any number of runs and timestamps.       *)
(*                                                                         *)
(* NoChildOutlivesRun is inductive once it speaks of every location but    *)
(* the event loop.  AnswersAreOwn needs to know what is in the files of a  *)
(* timestamp: nothing but the template while no run uses it (Clean), and   *)
(* what its own run has written while that run is alone with it (Private). *)
(***************************************************************************)
EXTENDS SygusProcess, TLAPS

Childless == \A r \in Runs : pc[r] # "waiting" => child[r] \in {"none", "reaped"}

\* The runs of one program do not overlap.
OneAtATime ==
  ~overlap => \A q, r \in Runs :
    q # r => \/ pc[r] = "idle" \/ Ended(r)
             \/ pc[q] = "idle" \/ pc[q] = "returned"
             \/ Ended(q) /\ stamp[q] # stamp[r]

Alone(r) == ~overlap \/ \A q \in Runs \ {r} : stamp[q] = stamp[r] => pc[q] = "idle"

\* A run may still take the timestamp.
Free(s) ==
  \A q \in Runs : pc[q] # "idle" /\ stamp[q] = s => ~overlap /\ pc[q] = "returned"

Clean ==
  \A s \in Stamps :
    Free(s) => /\ result_temp[s] = None /\ result[s] = <<>>
               /\ overlap => template[s] = <<>>

\* The files of a run that is alone with its timestamp.
Problems(r, p) == Len(p) = 1 => p[1] = r

Files(r) ==
  LET s == stamp[r]
  IN /\ pc[r] \in {"written", "waiting", "reading"} =>
          /\ result[s] = <<>> /\ result_temp[s] \in {None, Blank, Part, r}
          /\ Problems(r, template[s])
     /\ child[r] = "solving" => Problems(r, problem[r])
     /\ pc[r] = "parsing" => \/ result[s] = <<r>>
                             \/ result[s] = <<Part>> /\ result_temp[s] = Part
     /\ pc[r] \in {"cleaning", "returned"} => new_expr[r] \in {r, Blank}
     /\ pc[r] = "aborted" => result_temp[s] = Part

Private == \A r \in Runs : Alone(r) => Files(r)

IInv == SPTypeOK /\ Childless /\ OneAtATime /\ Clean /\ Private

Active(r) == pc[r] \notin {"idle", "returned", "threw", "aborted"}

\* The steps of a run that has begun.
RunStep(r) == Progress(r) \/ Solver(r) \/ DeadlinePasses(r)
-----------------------------------------------------------------------------
LEMMA InitTypes == Init => SPTypeOK
<1> SUFFICES ASSUME Init PROVE SPTypeOK
  OBVIOUS
<1>1. (CHOOSE s \in Stamps : TRUE) \in Stamps
  BY ClockAssumption
<1> QED BY <1>1 DEF Init, SPTypeOK

LEMMA WriteTypes ==
  ASSUME SPTypeOK, NEW r \in Runs, WriteFiles(r)
  PROVE  SPTypeOK'
<1>1. PICK s \in Stamps :
        /\ stamp' = [stamp EXCEPT ![r] = s]
        /\ template' = [template EXCEPT ![s] = Append(@, r)]
        /\ script' = [script EXCEPT ![s] = @ + 1]
  BY DEF WriteFiles
<1>2. Append(template[s], r) \in Seq(Runs) /\ script[s] + 1 \in Nat
  BY DEF SPTypeOK
<1>3. /\ stamp' \in [Runs -> Stamps] /\ template' \in [Stamps -> Seq(Runs)]
      /\ script' \in [Stamps -> Nat]
  BY <1>1, <1>2 DEF SPTypeOK
<1>4. /\ pc' = [pc EXCEPT ![r] = "written"]
      /\ UNCHANGED <<process, new_expr, result_temp, result>>
  BY DEF WriteFiles, Goes
<1> QED BY <1>3, <1>4 DEF SPTypeOK, process

\* Each step of a run keeps the types.
LEMMA StepTypes ==
  ASSUME SPTypeOK, NEW r \in Runs, RunStep(r)
  PROVE  SPTypeOK'
<1>1. CASE StartChild(r)
  <2>1. script[stamp[r]] \in Nat
    BY DEF SPTypeOK
  <2>2. CASE script[stamp[r]] = 0
    <3>1. pc' = [pc EXCEPT ![r] = "threw"] /\ UNCHANGED process
      BY <1>1, <2>2 DEF StartChild
    <3>2. UNCHANGED <<stamp, new_expr, files>>
      BY <1>1 DEF StartChild
    <3> QED BY <3>1, <3>2 DEF SPTypeOK, process, files
  <2>3. CASE script[stamp[r]] > 0
    <3> DEFINE n == script[stamp[r]]
    <3>1. lines' = [lines EXCEPT ![r] = n] /\ n \in Nat
      BY <1>1, <2>1, <2>3 DEF StartChild
    <3> HIDE DEF n
    <3>2. lines' \in [Runs -> Nat]
      BY <3>1 DEF SPTypeOK
    <3>3. /\ pc' = [pc EXCEPT ![r] = "waiting"]
          /\ timer' = [timer EXCEPT ![r] = "armed"]
          /\ child' = [child EXCEPT ![r] = "shell"]
          /\ UNCHANGED <<queue, problem, killed>>
      BY <1>1, <2>3 DEF StartChild
    <3>4. UNCHANGED <<stamp, new_expr, files>>
      BY <1>1 DEF StartChild
    <3> QED BY <3>2, <3>3, <3>4 DEF SPTypeOK, files
  <2> QED BY <2>1, <2>2, <2>3
<1>2. CASE Handle(r)
  <2>1. queue[r] \in Seq({"exit", "deadline"}) /\ queue[r] # <<>>
    BY <1>2 DEF SPTypeOK, Handle
  <2>2. Tail(queue[r]) \in Seq({"exit", "deadline"})
    BY <2>1
  <2>3. Append(Tail(queue[r]), "exit") \in Seq({"exit", "deadline"})
    BY <2>2
  <2>4. CASE on_exit(r)
    BY <1>2, <2>2, <2>4 DEF SPTypeOK, Handle, on_exit, files
  <2>5. CASE timeout_handler(r)
    <3>1. CASE child[r] = "reaped"
      <4>1. /\ pc' = [pc EXCEPT ![r] = "threw"]
            /\ queue' = [queue EXCEPT ![r] = <<>>]
            /\ UNCHANGED <<timer, child, lines, problem, killed>>
        BY <2>5, <3>1 DEF timeout_handler
      <4>2. UNCHANGED <<stamp, new_expr, files>>
        BY <1>2 DEF Handle
      <4> QED BY <4>1, <4>2 DEF SPTypeOK, files
    <3>2. CASE child[r] # "reaped"
      <4> DEFINE q == IF child[r] = "exited" THEN Tail(queue[r])
                                             ELSE Append(Tail(queue[r]), "exit")
      <4>1. q \in Seq({"exit", "deadline"})
        BY <2>2, <2>3
      <4>2. queue' = [queue EXCEPT ![r] = q]
        BY <2>5, <3>2 DEF timeout_handler
      <4> HIDE DEF q
      <4>3. /\ killed' = [killed EXCEPT ![r] = TRUE]
            /\ timer' = [timer EXCEPT ![r] = "off"]
            /\ child' = [child EXCEPT ![r] = "exited"]
            /\ UNCHANGED <<pc, lines, problem>>
        BY <2>5, <3>2 DEF timeout_handler
      <4>4. UNCHANGED <<stamp, new_expr, files>>
        BY <1>2 DEF Handle
      <4>5. queue' \in [Runs -> Seq({"exit", "deadline"})]
        BY <4>1, <4>2 DEF SPTypeOK
      <4>6. /\ killed' \in [Runs -> BOOLEAN]
            /\ timer' \in [Runs -> {"idle", "armed", "expired", "off"}]
            /\ child' \in [Runs -> {"none", "shell", "solving", "exited", "reaped"}]
        BY <4>3 DEF SPTypeOK
      <4> QED BY <4>3, <4>4, <4>5, <4>6 DEF SPTypeOK, files
    <3> QED BY <3>1, <3>2
  <2> QED BY <1>2, <2>4, <2>5 DEF Handle
<1>3. CASE LoopReturns(r)
  BY <1>3 DEF SPTypeOK, LoopReturns, Goes, process, files
<1>4. CASE CopyAnswer(r)
  <2>1. Second(r) \in Runs \cup {Blank, Part}
    BY FilesAreDistinct DEF SPTypeOK, Second
  <2>2. Append(result[stamp[r]], Second(r)) \in Seq(Runs \cup {Blank, Part})
    BY <2>1 DEF SPTypeOK
  <2> QED BY <1>4, <2>1, <2>2 DEF SPTypeOK, CopyAnswer, Goes, process
<1>5. CASE ParseAnswer(r)
  <2>1. \A i \in Definitions(stamp[r]) :
          Parses(stamp[r], i) => result[stamp[r]][i] \in Runs \cup {Blank}
    BY DEF SPTypeOK, Definitions, Parses
  <2>2. UNCHANGED <<stamp, process, files>>
    BY <1>5 DEF ParseAnswer
  <2>3. new_expr' \in [Runs -> Runs \cup {Blank}]
    BY <1>5, <2>1 DEF SPTypeOK, ParseAnswer
  <2>4. pc' = [pc EXCEPT ![r] = "cleaning"] \/ pc' = [pc EXCEPT ![r] = "aborted"]
    BY <1>5 DEF ParseAnswer
  <2>5. pc' \in [Runs -> {"idle", "written", "waiting", "reading", "parsing",
                         "cleaning", "returned", "threw", "aborted"}]
    BY <2>4 DEF SPTypeOK
  <2> QED BY <2>2, <2>3, <2>5 DEF SPTypeOK, process, files
<1>6. CASE RemoveFiles(r)
  BY <1>6 DEF SPTypeOK, RemoveFiles, Goes, process
<1>7. CASE ShellStartsSolver(r)
  <2>1. lines[r] \in Nat /\ lines[r] > 0
    BY <1>7 DEF SPTypeOK, ShellStartsSolver
  <2>2. lines[r] - 1 \in Nat
    BY <2>1
  <2>3. template[stamp[r]] \in Seq(Runs)
    BY DEF SPTypeOK
  <2>4. /\ child' = [child EXCEPT ![r] = "solving"]
        /\ lines' = [lines EXCEPT ![r] = lines[r] - 1]
        /\ problem' = [problem EXCEPT ![r] = template[stamp[r]]]
        /\ result_temp' = [result_temp EXCEPT ![stamp[r]] = Blank]
        /\ UNCHANGED <<pc, stamp, timer, queue, killed, new_expr, template, script, result>>
    BY <1>7 DEF ShellStartsSolver
  <2>5. lines' \in [Runs -> Nat]
    BY <2>2, <2>4 DEF SPTypeOK
  <2>6. problem' \in [Runs -> Seq(Runs)]
    BY <2>3, <2>4 DEF SPTypeOK
  <2>7. /\ child' \in [Runs -> {"none", "shell", "solving", "exited", "reaped"}]
        /\ result_temp' \in [Stamps -> Runs \cup {None, Blank, Part}]
    BY <2>4 DEF SPTypeOK
  <2> QED BY <2>4, <2>5, <2>6, <2>7 DEF SPTypeOK
<1>8. CASE SolverEnds(r)
  <2>0. problem[r] \in Seq(Runs)
    BY DEF SPTypeOK
  <2>1. Len(problem[r]) = 1 => problem[r][1] \in Runs
    BY <2>0
  <2>2. result_temp' \in [Stamps -> Runs \cup {None, Blank, Part}]
    BY <1>8, <2>1 DEF SPTypeOK, SolverEnds, CanAnswer
  <2>3. /\ child' = [child EXCEPT ![r] = "shell"]
        /\ UNCHANGED <<pc, stamp, timer, queue, lines, problem, killed, new_expr,
                       template, script, result>>
    BY <1>8 DEF SolverEnds
  <2>4. child' \in [Runs -> {"none", "shell", "solving", "exited", "reaped"}]
    BY <2>3 DEF SPTypeOK
  <2> QED BY <2>2, <2>3, <2>4 DEF SPTypeOK
<1>9. CASE ShellExits(r)
  BY <1>9 DEF SPTypeOK, ShellExits, files
<1>10. CASE DeadlinePasses(r)
  <2>1. Append(queue[r], "deadline") \in Seq({"exit", "deadline"})
    BY DEF SPTypeOK
  <2>2. /\ timer' = [timer EXCEPT ![r] = "expired"]
        /\ queue' = [queue EXCEPT ![r] = Append(queue[r], "deadline")]
        /\ UNCHANGED <<pc, stamp, child, lines, problem, killed, new_expr, files>>
    BY <1>10 DEF DeadlinePasses
  <2>3. queue' \in [Runs -> Seq({"exit", "deadline"})]
    BY <2>1, <2>2 DEF SPTypeOK
  <2>4. timer' \in [Runs -> {"idle", "armed", "expired", "off"}]
    BY <2>2 DEF SPTypeOK
  <2> QED BY <2>2, <2>3, <2>4 DEF SPTypeOK, files
<1>11. CASE SolverWrites(r)
  BY <1>11 DEF SPTypeOK, SolverWrites, process
<1> QED BY <1>1, <1>2, <1>3, <1>4, <1>5, <1>6, <1>7, <1>8, <1>9, <1>10, <1>11
        DEF RunStep, Progress, Solver
-----------------------------------------------------------------------------
LEMMA InitIInv == Init => IInv
<1> SUFFICES ASSUME Init PROVE IInv
  OBVIOUS
<1>1. SPTypeOK
  BY InitTypes
<1>2. Childless /\ OneAtATime /\ Clean
  BY DEF Init, Childless, OneAtATime, Clean, Free
<1>3. Private
  BY DEF Init, Private, Files
<1> QED BY <1>1, <1>2, <1>3 DEF IInv

\* What a step of r leaves alone: the other runs, and the files of the other
\* timestamps.
Own(r) ==
  /\ UNCHANGED <<overlap, stamp>>
  /\ \A q \in Runs \ {r} : /\ pc'[q] = pc[q] /\ child'[q] = child[q]
                           /\ problem'[q] = problem[q] /\ new_expr'[q] = new_expr[q]
  /\ \A s \in Stamps \ {stamp[r]} :
       /\ template'[s] = template[s]
       /\ result_temp'[s] = result_temp[s] /\ result'[s] = result[s]

\* A run whose child is at work, or that makes a step, has begun and not ended.
LEMMA StepsAreActive ==
  ASSUME IInv, NEW r \in Runs, RunStep(r)
  PROVE  Active(r)
BY DEF IInv, Childless, RunStep, Progress, Solver, DeadlinePasses, StartChild, Handle,
       LoopReturns, CopyAnswer, ParseAnswer, RemoveFiles, ShellStartsSolver,
       SolverWrites, SolverEnds, ShellExits, Goes, Active

LEMMA StepsAreOwn ==
  ASSUME SPTypeOK, NEW r \in Runs, RunStep(r), Active(r)
  PROVE  Own(r) /\ pc'[r] # "idle"
<1>1. CASE StartChild(r)
  BY <1>1 DEF SPTypeOK, StartChild, process, files, Own
<1>2. CASE Handle(r)
  BY <1>2 DEF SPTypeOK, Handle, on_exit, timeout_handler, files, Own
<1>3. CASE LoopReturns(r)
  BY <1>3 DEF SPTypeOK, LoopReturns, Goes, process, files, Own
<1>4. CASE CopyAnswer(r)
  BY <1>4 DEF SPTypeOK, CopyAnswer, Goes, process, Own
<1>5. CASE ParseAnswer(r)
  BY <1>5 DEF SPTypeOK, ParseAnswer, process, files, Own
<1>6. CASE RemoveFiles(r)
  BY <1>6 DEF SPTypeOK, RemoveFiles, Goes, process, Own
<1>7. CASE ShellStartsSolver(r)
  BY <1>7 DEF SPTypeOK, Active, ShellStartsSolver, Own
<1>8. CASE SolverEnds(r)
  BY <1>8 DEF SPTypeOK, Active, SolverEnds, Own
<1>9. CASE ShellExits(r)
  BY <1>9 DEF SPTypeOK, Active, ShellExits, files, Own
<1>10. CASE DeadlinePasses(r)
  BY <1>10 DEF SPTypeOK, Active, DeadlinePasses, files, Own
<1>11. CASE SolverWrites(r)
  BY <1>11 DEF SPTypeOK, Active, SolverWrites, process, Own
<1> QED BY <1>1, <1>2, <1>3, <1>4, <1>5, <1>6, <1>7, <1>8, <1>9, <1>10, <1>11
        DEF RunStep, Progress, Solver

\* A step of r does not disturb the files of another run that is alone.
LEMMA OthersKeep ==
  ASSUME IInv, NEW r \in Runs, Active(r), Own(r), pc'[r] # "idle",
         NEW q \in Runs \ {r}, Alone(q)'
  PROVE  Files(q)'
<1>1. Files(q)
  <2>1. Alone(q)
    BY DEF Alone, Own, Active
  <2> QED BY <2>1 DEF IInv, Private
<1>2. CASE stamp[q] = stamp[r]
  <2>1. ~overlap
    BY <1>2 DEF Alone, Own
  <2>2. pc[q] \in {"idle", "returned"}
    BY <1>2, <2>1 DEF IInv, OneAtATime, Active, Ended
  <2>3. child[q] # "solving"
    BY <2>2 DEF IInv, Childless
  <2> QED BY <1>1, <2>2, <2>3 DEF Files, Own
<1>3. CASE stamp[q] # stamp[r]
  <2>1. stamp[q] \in Stamps \ {stamp[r]}
    BY <1>3 DEF IInv, SPTypeOK
  <2> QED BY <1>1, <2>1 DEF Files, Own
<1> QED BY <1>2, <1>3

\* Nor the files of another timestamp.
LEMMA OthersClean ==
  ASSUME IInv, NEW r \in Runs, Active(r), Own(r),
         NEW s \in Stamps \ {stamp[r]}, Free(s)'
  PROVE  result_temp'[s] = None /\ result'[s] = <<>> /\ (overlap' => template'[s] = <<>>)
<1>1. Free(s)
  BY DEF Free, Own
<1> QED BY <1>1 DEF IInv, Clean, Own

\* Runs of one program take turns.
LEMMA TurnsKept ==
  ASSUME IInv, NEW r \in Runs, Active(r), Own(r)
  PROVE  OneAtATime'
BY DEF IInv, OneAtATime, Own, Active, Ended

\* What is left to show of a step of r: its own child and files, and its
\* timestamp where another run may take it.
LEMMA StepKeeps ==
  ASSUME IInv, NEW r \in Runs, RunStep(r),
         pc'[r] # "waiting" => child'[r] \in {"none", "reaped"},
         Files(r) => Files(r)',
         Free(stamp[r])' => result_temp'[stamp[r]] = None /\ result'[stamp[r]] = <<>>
  PROVE  IInv'
<1>1. Active(r) /\ Own(r) /\ pc'[r] # "idle" /\ SPTypeOK'
  BY StepsAreActive, StepsAreOwn, StepTypes DEF IInv
<1>2. Childless'
  BY <1>1 DEF IInv, Childless, Own
<1>3. OneAtATime'
  BY <1>1, TurnsKept
<1>4. Clean'
  <2>1. Free(stamp[r])' => ~overlap'
    BY <1>1 DEF Free, Own
  <2>2. ASSUME NEW s \in Stamps, Free(s)'
        PROVE  result_temp'[s] = None /\ result'[s] = <<>> /\ (overlap' => template'[s] = <<>>)
    <3>1. CASE s = stamp[r]
      <4>1. stamp'[r] = s
        BY <1>1, <3>1 DEF Own
      <4>2. Free(stamp[r])'
        BY <2>2, <4>1
      <4> QED BY <2>1, <3>1, <4>2
    <3>2. CASE s # stamp[r]
      BY <1>1, <2>2, <3>2, OthersClean
    <3> QED BY <3>1, <3>2
  <2> QED BY <2>2 DEF Clean
<1>5. Private'
  <2>1. Alone(r)' => Files(r)'
    <3>1. Alone(r)' => Alone(r)
      BY <1>1 DEF Alone, Own
    <3> QED BY <3>1 DEF IInv, Private
  <2>2. ASSUME NEW q \in Runs, Alone(q)' PROVE Files(q)'
    BY <1>1, <2>1, <2>2, OthersKeep
  <2> QED BY <2>2 DEF Private
<1> QED BY <1>1, <1>2, <1>3, <1>4, <1>5 DEF IInv
-----------------------------------------------------------------------------
\* No run may take the timestamp of one that has not returned.
LEMMA TakenUntilReturned ==
  ASSUME NEW r \in Runs, pc'[r] # "idle", pc'[r] # "returned"
  PROVE  ~Free(stamp[r])'
BY DEF Free

LEMMA StartKeeps ==
  ASSUME IInv, NEW r \in Runs, StartChild(r)
  PROVE  IInv'
<1>1. pc'[r] \in {"threw", "waiting"}
  BY DEF IInv, SPTypeOK, StartChild
<1>2. pc'[r] # "waiting" => child'[r] \in {"none", "reaped"}
  BY DEF IInv, SPTypeOK, Childless, StartChild, process
<1>3. Files(r) => Files(r)'
  <2>1. UNCHANGED <<stamp, new_expr, files, problem>> /\ pc[r] = "written"
    BY DEF StartChild, process
  <2>2. child'[r] # "solving"
    BY DEF IInv, SPTypeOK, Childless, StartChild, process
  <2> QED BY <1>1, <2>1, <2>2 DEF Files, files
<1>4. ~Free(stamp[r])'
  BY <1>1, TakenUntilReturned
<1> QED BY <1>2, <1>3, <1>4, StepKeeps DEF RunStep, Progress

LEMMA HandleKeeps ==
  ASSUME IInv, NEW r \in Runs, Handle(r)
  PROVE  IInv'
<1>1. UNCHANGED <<stamp, new_expr, files>> /\ pc[r] = "waiting"
  BY DEF Handle
<1>2. /\ pc'[r] \in {"threw", "waiting"}
      /\ pc'[r] # "waiting" => child'[r] \in {"none", "reaped"}
      /\ child'[r] # "solving"
      /\ UNCHANGED problem
  BY DEF IInv, SPTypeOK, Handle, on_exit, timeout_handler
<1>3. Files(r) => Files(r)'
  BY <1>1, <1>2 DEF Files, files
<1>4. ~Free(stamp[r])'
  BY <1>2, TakenUntilReturned
<1> QED BY <1>2, <1>3, <1>4, StepKeeps DEF RunStep, Progress

LEMMA ReturnKeeps ==
  ASSUME IInv, NEW r \in Runs, LoopReturns(r)
  PROVE  IInv'
<1>1. pc'[r] = "reading" /\ pc[r] = "waiting" /\ child[r] = "reaped"
  BY DEF IInv, SPTypeOK, LoopReturns, Goes, OutOfWork
<1>2. UNCHANGED <<stamp, child, problem, new_expr, files>>
  BY DEF LoopReturns, process
<1>3. Files(r) => Files(r)'
  BY <1>1, <1>2 DEF Files, files
<1>4. ~Free(stamp[r])'
  BY <1>1, TakenUntilReturned
<1> QED BY <1>1, <1>2, <1>3, <1>4, StepKeeps DEF RunStep, Progress

\* What is copied is the run's own answer, or nothing.
LEMMA CopyKeeps ==
  ASSUME IInv, NEW r \in Runs, CopyAnswer(r)
  PROVE  IInv'
<1>1. pc[r] = "reading" /\ UNCHANGED <<stamp, child, problem, template, result_temp>>
  BY DEF CopyAnswer, Goes, process
<1>2. pc'[r] = IF Second(r) = Blank THEN "cleaning" ELSE "parsing"
  BY DEF IInv, SPTypeOK, CopyAnswer, Goes
<1>3. child[r] \in {"none", "reaped"}
  BY <1>1 DEF IInv, Childless
<1>4. Files(r) => Files(r)'
  <2> SUFFICES ASSUME Files(r) PROVE Files(r)'
    OBVIOUS
  <2> DEFINE s == stamp[r]
  <2>1. s \in Stamps /\ result[s] = <<>> /\ result_temp[s] \in {None, Blank, Part, r}
    BY <1>1 DEF IInv, SPTypeOK, Files
  <2>2. Second(r) \in {Blank, r} \/ (Second(r) = Part /\ result_temp[s] = Part)
    BY <2>1 DEF Second
  <2>3. result'[s] = <<Second(r)>> /\ new_expr'[r] = Blank
    BY <2>1 DEF IInv, SPTypeOK, CopyAnswer
  <2> HIDE DEF s
  <2>4. stamp'[r] = s
    BY <1>1 DEF s
  <2>5. pc'[r] = "parsing" => Second(r) = r \/ (Second(r) = Part /\ result_temp[s] = Part)
    BY <1>2, <2>2
  <2> QED BY <1>1, <1>2, <1>3, <2>3, <2>4, <2>5 DEF Files
<1>5. ~Free(stamp[r])'
  BY <1>2, TakenUntilReturned
<1> QED BY <1>1, <1>3, <1>4, <1>5, StepKeeps DEF RunStep, Progress

\* One definition is there to be parsed, and it is the run's own or a part of one.
LEMMA ParseKeeps ==
  ASSUME IInv, NEW r \in Runs, ParseAnswer(r)
  PROVE  IInv'
<1>1. pc[r] = "parsing" /\ UNCHANGED <<stamp, child, problem, files>>
  BY DEF ParseAnswer, process
<1>2. pc'[r] \in {"cleaning", "aborted"}
  BY DEF IInv, SPTypeOK, ParseAnswer
<1>3. child[r] \in {"none", "reaped"}
  BY <1>1 DEF IInv, Childless
<1>4. Files(r) => Files(r)'
  <2> SUFFICES ASSUME Files(r) PROVE Files(r)'
    OBVIOUS
  <2>1. CASE result[stamp[r]] = <<r>>
    <3>1. Definitions(stamp[r]) = {1} /\ Parses(stamp[r], 1)
      BY <2>1, FilesAreDistinct DEF Definitions, Parses
    <3>2. pc'[r] = "cleaning" /\ new_expr'[r] = r
      BY <2>1, <3>1 DEF IInv, SPTypeOK, ParseAnswer
    <3> QED BY <1>1, <1>3, <3>2 DEF Files
  <2>2. CASE result[stamp[r]] = <<Part>> /\ result_temp[stamp[r]] = Part
    <3>1. Definitions(stamp[r]) = {1} /\ ~Parses(stamp[r], 1)
      BY <2>2, FilesAreDistinct DEF Definitions, Parses
    <3>2. pc'[r] = "aborted"
      BY <3>1 DEF IInv, SPTypeOK, ParseAnswer
    <3> QED BY <1>1, <1>3, <2>2, <3>2 DEF Files, files
  <2> QED BY <1>1, <2>1, <2>2 DEF Files
<1>5. ~Free(stamp[r])'
  BY <1>2, TakenUntilReturned
<1> QED BY <1>1, <1>2, <1>3, <1>4, <1>5, StepKeeps DEF RunStep, Progress

\* The files are gone when another run may take the timestamp.
LEMMA RemoveKeeps ==
  ASSUME IInv, NEW r \in Runs, RemoveFiles(r)
  PROVE  IInv'
<1>1. /\ pc[r] = "cleaning" /\ pc'[r] = "returned"
      /\ UNCHANGED <<stamp, child, problem, new_expr>>
  BY DEF IInv, SPTypeOK, RemoveFiles, Goes, process
<1>2. child[r] \in {"none", "reaped"}
  BY <1>1 DEF IInv, Childless
<1>3. Files(r) => Files(r)'
  BY <1>1, <1>2 DEF Files
<1>4. result_temp'[stamp[r]] = None /\ result'[stamp[r]] = <<>>
  BY DEF IInv, SPTypeOK, RemoveFiles
<1> QED BY <1>1, <1>2, <1>3, <1>4, StepKeeps DEF RunStep, Progress
-----------------------------------------------------------------------------
\* A child at work has a run that waits for it.
LEMMA ShellStartsKeeps ==
  ASSUME IInv, NEW r \in Runs, ShellStartsSolver(r)
  PROVE  IInv'
<1>1. pc[r] = "waiting" /\ UNCHANGED <<pc, stamp, new_expr, template, result>>
  BY DEF IInv, Childless, ShellStartsSolver
<1>2. Files(r) => Files(r)'
  <2>1. /\ problem'[r] = template[stamp[r]] /\ result_temp'[stamp[r]] = Blank
    BY DEF IInv, SPTypeOK, ShellStartsSolver
  <2> QED BY <1>1, <2>1 DEF Files
<1>3. ~Free(stamp[r])'
  BY <1>1, TakenUntilReturned
<1> QED BY <1>1, <1>2, <1>3, StepKeeps DEF RunStep, Solver

LEMMA SolverWritesKeeps ==
  ASSUME IInv, NEW r \in Runs, SolverWrites(r)
  PROVE  IInv'
<1>1. /\ pc[r] = "waiting" /\ child'[r] = child[r]
      /\ UNCHANGED <<pc, stamp, problem, new_expr, template, result>>
  BY DEF IInv, Childless, SolverWrites, process
<1>2. Files(r) => Files(r)'
  <2>1. result_temp'[stamp[r]] = Part
    BY DEF IInv, SPTypeOK, SolverWrites
  <2> QED BY <1>1, <2>1 DEF Files
<1>3. ~Free(stamp[r])'
  BY <1>1, TakenUntilReturned
<1> QED BY <1>1, <1>2, <1>3, StepKeeps DEF RunStep, Solver

LEMMA SolverEndsKeeps ==
  ASSUME IInv, NEW r \in Runs, SolverEnds(r)
  PROVE  IInv'
<1>1. /\ pc[r] = "waiting"
      /\ UNCHANGED <<pc, stamp, problem, new_expr, template, result>>
  BY DEF IInv, Childless, SolverEnds
<1>2. child[r] = "solving" /\ child'[r] = "shell"
  BY DEF IInv, SPTypeOK, SolverEnds
<1>3. Files(r) => Files(r)'
  <2> SUFFICES ASSUME Files(r) PROVE Files(r)'
    OBVIOUS
  <2>1. result_temp'[stamp[r]] \in {result_temp[stamp[r]], r}
    BY <1>2 DEF IInv, SPTypeOK, SolverEnds, CanAnswer, Files, Problems
  <2> QED BY <1>1, <1>2, <2>1 DEF Files
<1>4. ~Free(stamp[r])'
  BY <1>1, TakenUntilReturned
<1> QED BY <1>1, <1>3, <1>4, StepKeeps DEF RunStep, Solver

LEMMA ShellExitsKeeps ==
  ASSUME IInv, NEW r \in Runs, ShellExits(r)
  PROVE  IInv'
<1>1. /\ pc[r] = "waiting" /\ child'[r] = "exited"
      /\ UNCHANGED <<pc, stamp, problem, new_expr, files>>
  BY DEF IInv, SPTypeOK, Childless, ShellExits
<1>2. Files(r) => Files(r)'
  BY <1>1 DEF Files, files
<1>3. ~Free(stamp[r])'
  BY <1>1, TakenUntilReturned
<1> QED BY <1>1, <1>2, <1>3, StepKeeps DEF RunStep, Solver

LEMMA DeadlineKeeps ==
  ASSUME IInv, NEW r \in Runs, DeadlinePasses(r)
  PROVE  IInv'
<1>1. pc[r] = "waiting" /\ UNCHANGED <<pc, stamp, child, problem, new_expr, files>>
  BY DEF DeadlinePasses
<1>2. Files(r) => Files(r)'
  BY <1>1 DEF Files, files
<1>3. ~Free(stamp[r])'
  BY <1>1, TakenUntilReturned
<1> QED BY <1>1, <1>2, <1>3, StepKeeps DEF RunStep
-----------------------------------------------------------------------------
\* A run that begins takes a timestamp no run uses, or is not alone with it.
LEMMA WriteKeeps ==
  ASSUME IInv, NEW r \in Runs, WriteFiles(r)
  PROVE  IInv'
<1>1. PICK s \in Stamps :
        /\ overlap \/ InTurn(s)
        /\ stamp' = [stamp EXCEPT ![r] = s]
        /\ template' = [template EXCEPT ![s] = Append(@, r)]
  BY DEF WriteFiles
<1>2. /\ pc[r] = "idle" /\ pc' = [pc EXCEPT ![r] = "written"]
      /\ UNCHANGED <<overlap, child, problem, new_expr, result_temp, result>>
  BY DEF WriteFiles, Goes, process
<1>3. /\ stamp'[r] = s /\ pc'[r] = "written"
      /\ \A q \in Runs \ {r} : stamp'[q] = stamp[q] /\ pc'[q] = pc[q]
      /\ template'[s] = Append(template[s], r)
      /\ \A u \in Stamps \ {s} : template'[u] = template[u]
  BY <1>1, <1>2 DEF IInv, SPTypeOK
<1>4. SPTypeOK'
  BY WriteTypes DEF IInv
<1>5. Childless'
  BY <1>2, <1>3 DEF IInv, Childless
<1>6. ~overlap => \A q \in Runs : pc[q] = "idle" \/ Ended(q)
  BY <1>1 DEF InTurn
<1>7. OneAtATime'
  <2>1. ~overlap => \A q \in Runs \ {r} : pc[q] # "idle" /\ stamp[q] = s => pc[q] = "returned"
    BY <1>1 DEF InTurn
  <2> QED BY <1>2, <1>3, <1>6, <2>1 DEF OneAtATime, Ended
<1>8. Clean'
  <2>1. ASSUME NEW u \in Stamps, Free(u)'
        PROVE  result_temp'[u] = None /\ result'[u] = <<>> /\ (overlap' => template'[u] = <<>>)
    <3>1. u # s
      BY <1>3, <2>1 DEF Free
    <3>2. Free(u)
      BY <1>2, <1>3, <2>1 DEF Free
    <3> QED BY <1>2, <1>3, <3>1, <3>2 DEF IInv, Clean
  <2> QED BY <2>1 DEF Clean
<1>9. Private'
  <2>1. Alone(r)' => Files(r)'
    <3> SUFFICES ASSUME Alone(r)' PROVE Files(r)'
      OBVIOUS
    <3>1. Free(s)
      BY <1>1, <1>2, <1>3 DEF Alone, Free, InTurn
    <3>2. result_temp[s] = None /\ result[s] = <<>> /\ (overlap => template[s] = <<>>)
      BY <3>1 DEF IInv, Clean
    <3>3. Problems(r, template'[s])
      <4>1. template[s] \in Seq(Runs)
        BY DEF IInv, SPTypeOK
      <4>2. Len(Append(template[s], r)) = 1 => Append(template[s], r)[1] = r
        BY <4>1
      <4> QED BY <1>3, <4>2 DEF Problems
    <3>4. child[r] # "solving"
      BY <1>2 DEF IInv, Childless
    <3> QED BY <1>2, <1>3, <3>2, <3>3, <3>4 DEF Files
  <2>2. ASSUME NEW q \in Runs \ {r}, Alone(q)' PROVE Files(q)'
    <3>1. CASE stamp[q] = s
      <4>1. ~overlap
        BY <1>2, <1>3, <2>2, <3>1 DEF Alone
      <4>2. pc[q] \in {"idle", "returned"}
        BY <1>1, <3>1, <4>1 DEF InTurn
      <4>3. Alone(q) /\ child[q] # "solving"
        BY <4>1, <4>2 DEF Alone, IInv, Childless
      <4>4. Files(q)
        BY <4>3 DEF IInv, Private
      <4> QED BY <1>2, <1>3, <4>2, <4>3, <4>4 DEF Files
    <3>2. CASE stamp[q] # s
      <4>1. Alone(q)
        BY <1>2, <1>3, <2>2 DEF Alone
      <4>2. Files(q) /\ stamp[q] \in Stamps \ {s}
        BY <3>2, <4>1 DEF IInv, Private, SPTypeOK
      <4> QED BY <1>2, <1>3, <4>2 DEF Files
    <3> QED BY <3>1, <3>2
  <2> QED BY <2>1, <2>2 DEF Private
<1> QED BY <1>4, <1>5, <1>7, <1>8, <1>9 DEF IInv

LEMMA NextKeeps == IInv /\ [Next]_spvars => IInv'
<1> SUFFICES ASSUME IInv, [Next]_spvars PROVE IInv'
  OBVIOUS
<1>1. CASE Next
  <2>1. PICK r \in Runs :
          WriteFiles(r) \/ Progress(r) \/ Solver(r) \/ DeadlinePasses(r)
    BY <1>1 DEF Next
  <2>2. CASE WriteFiles(r)
    BY <2>2, WriteKeeps
  <2>3. CASE Progress(r)
    BY <2>3, StartKeeps, HandleKeeps, ReturnKeeps, CopyKeeps, ParseKeeps, RemoveKeeps
       DEF Progress
  <2>4. CASE Solver(r)
    BY <2>4, ShellStartsKeeps, SolverWritesKeeps, SolverEndsKeeps, ShellExitsKeeps
       DEF Solver
  <2>5. CASE DeadlinePasses(r)
    BY <2>5, DeadlineKeeps
  <2> QED BY <2>1, <2>2, <2>3, <2>4, <2>5
<1>2. CASE UNCHANGED spvars
  BY <1>2 DEF spvars, IInv, SPTypeOK, Childless, OneAtATime, Clean, Private, Free, Files,
              Alone, Ended
<1> QED BY <1>1, <1>2

LEMMA Invariance == Spec => []IInv
<1> QED BY InitIInv, NextKeeps, PTL DEF Spec

\* No child outlives its run: run_sygus never leaves Process::run, by return or by
\* what terminate() throws, while the child is there.
THEOREM ChildrenEnd == Spec => []NoChildOutlivesRun
<1>1. IInv => NoChildOutlivesRun
  BY DEF IInv, Childless, NoChildOutlivesRun
<1> QED BY <1>1, Invariance, PTL

\* The answer run_sygus returns is that to its own problem, although files of runs
\* with one timestamp are appended to.
THEOREM AnswersStayOwn == Spec => []AnswersAreOwn
<1>1. IInv => AnswersAreOwn
  BY DEF IInv, Private, Alone, Files, AnswersAreOwn
<1> QED BY <1>1, Invariance, PTL
=============================================================================

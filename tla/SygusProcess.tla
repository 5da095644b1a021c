---------------------------- MODULE SygusProcess ----------------------------
(***************************************************************************)
(* run_sygus: writes a synthesis problem and a script to files, runs cvc5  *)
(* on them in a child process with a deadline, and reads the answer from   *)
(* the file to which the script sends the output.                          *)
(*                                                                         *)
(* The files of a run are named after a timestamp in milliseconds.  What   *)
(* Process::run does with the child is driven by an event loop: the end of *)
(* the deadline and the signal of the child are queued as they happen and  *)
(* handled one by one.  cvc5 may take any time and need not answer; only   *)
(* whether its output has a second line, for which problem that line is    *)
(* the answer, and whether all of it was written, matters.                 *)
(***************************************************************************)
EXTENDS Naturals, Sequences

CONSTANTS
  Runs,      \* the runs, each with a problem of its own
  Stamps,    \* timestamps
  None,      \* no such file
  Blank,     \* a file without a second line
  Part       \* a file whose second line is the beginning of an answer

ASSUME FilesAreDistinct ==
  None # Blank /\ None # Part /\ Blank # Part /\ {None, Blank, Part} \cap Runs = {}

\* The clock shows some time.
ASSUME ClockAssumption == Stamps # {}

VARIABLES
  pc,        \* where run_sygus is
  stamp,     \* time_stamp
  timer,     \* deadline_timer: "idle", "armed", "expired" or "off"
  queue,     \* the handlers that are ready to be called
  child,     \* "none", "shell", "solving", "exited" or "reaped"
  lines,     \* the commands of its script the shell has not run
  problem,   \* the problems cvc5 has read
  killed,    \* killed
  new_expr,  \* the run whose problem was answered, or Blank for no_file
  template, script, result_temp, result, \* the files of each timestamp
  overlap    \* runs of several programs in one directory may overlap

spvars == <<overlap, pc, stamp, timer, queue, child, lines, problem, killed, new_expr,
            template, script, result_temp, result>>
process == <<timer, queue, child, lines, problem, killed>>
files == <<template, script, result_temp, result>>

Ended(r) == pc[r] \in {"returned", "threw", "aborted"}
Goes(r, from, to) == pc[r] = from /\ pc' = [pc EXCEPT ![r] = to]
-----------------------------------------------------------------------------
\* One program makes its runs one after the other, and the clock has gone on
\* when a run has lasted until its deadline.
InTurn(s) ==
  /\ \A q \in Runs : pc[q] = "idle" \/ Ended(q)
  /\ \A q \in Runs : pc[q] # "idle" /\ stamp[q] = s => pc[q] = "returned" /\ ~killed[q]

\* The template and the script are opened to append.
WriteFiles(r) ==
  /\ Goes(r, "idle", "written")
  /\ \E s \in Stamps :
       /\ overlap \/ InTurn(s)
       /\ stamp' = [stamp EXCEPT ![r] = s]
       /\ template' = [template EXCEPT ![s] = Append(@, r)]
       /\ script' = [script EXCEPT ![s] = @ + 1]
  /\ UNCHANGED <<overlap, process, new_expr, result_temp, result>>

\* Process::run up to the event loop; a missing script cannot be run.
StartChild(r) ==
  /\ pc[r] = "written"
  /\ \/ /\ script[stamp[r]] = 0
        /\ pc' = [pc EXCEPT ![r] = "threw"]
        /\ UNCHANGED process
     \/ /\ script[stamp[r]] > 0
        /\ pc' = [pc EXCEPT ![r] = "waiting"]
        /\ timer' = [timer EXCEPT ![r] = "armed"]
        /\ child' = [child EXCEPT ![r] = "shell"]
        /\ lines' = [lines EXCEPT ![r] = script[stamp[r]]]
        /\ UNCHANGED <<queue, problem, killed>>
  /\ UNCHANGED <<overlap, stamp, new_expr, files>>
-----------------------------------------------------------------------------
\* The shell empties the file and cvc5 reads the problems.
ShellStartsSolver(r) ==
  /\ child[r] = "shell" /\ lines[r] > 0
  /\ child' = [child EXCEPT ![r] = "solving"]
  /\ lines' = [lines EXCEPT ![r] = @ - 1]
  /\ problem' = [problem EXCEPT ![r] = template[stamp[r]]]
  /\ result_temp' = [result_temp EXCEPT ![stamp[r]] = Blank]
  /\ UNCHANGED <<overlap, pc, stamp, timer, queue, killed, new_expr, template, script, result>>

\* cvc5 answers one problem, and refuses a second definition of FunNew; what
\* it writes to a file that was removed is lost.  A long answer is not written at
\* once.
CanAnswer(r) == Len(problem[r]) = 1 /\ result_temp[stamp[r]] # None

SolverWrites(r) ==
  /\ child[r] = "solving"
  /\ CanAnswer(r)
  /\ result_temp' = [result_temp EXCEPT ![stamp[r]] = Part]
  /\ UNCHANGED <<overlap, pc, stamp, process, new_expr, template, script, result>>

SolverEnds(r) ==
  /\ child[r] = "solving"
  /\ child' = [child EXCEPT ![r] = "shell"]
  /\ \/ UNCHANGED result_temp
     \/ /\ CanAnswer(r)
        /\ result_temp' = [result_temp EXCEPT ![stamp[r]] = problem[r][1]]
  /\ UNCHANGED <<overlap, pc, stamp, timer, queue, lines, problem, killed, new_expr,
                 template, script, result>>

ShellExits(r) ==
  /\ child[r] = "shell" /\ lines[r] = 0
  /\ child' = [child EXCEPT ![r] = "exited"]
  /\ queue' = [queue EXCEPT ![r] = Append(@, "exit")]
  /\ UNCHANGED <<overlap, pc, stamp, timer, lines, problem, killed, new_expr, files>>
-----------------------------------------------------------------------------
DeadlinePasses(r) ==
  /\ pc[r] = "waiting" /\ timer[r] = "armed"
  /\ timer' = [timer EXCEPT ![r] = "expired"]
  /\ queue' = [queue EXCEPT ![r] = Append(@, "deadline")]
  /\ UNCHANGED <<overlap, pc, stamp, child, lines, problem, killed, new_expr, files>>

\* on_exit: cancel() no longer reaches a handler that is queued.
on_exit(r) ==
  /\ child' = [child EXCEPT ![r] = "reaped"]
  /\ timer' = [timer EXCEPT ![r] = IF @ = "armed" THEN "off" ELSE @]
  /\ queue' = [queue EXCEPT ![r] = Tail(@)]
  /\ UNCHANGED <<pc, lines, problem, killed>>

\* Slip: the process is marked as killed and left alone.
MarksOnly(r) ==
  /\ killed' = [killed EXCEPT ![r] = TRUE]
  /\ timer' = [timer EXCEPT ![r] = "off"]
  /\ queue' = [queue EXCEPT ![r] = Tail(@)]
  /\ UNCHANGED <<pc, child, lines, problem>>

\* Slip: the event loop is stopped and the child is left alone.
StopsLoop(r) ==
  /\ pc' = [pc EXCEPT ![r] = "reading"]
  /\ killed' = [killed EXCEPT ![r] = TRUE]
  /\ timer' = [timer EXCEPT ![r] = "off"]
  /\ queue' = [queue EXCEPT ![r] = <<>>]
  /\ UNCHANGED <<child, lines, problem>>

\* timeout_handler: terminate() throws when no process of the group is left,
\* and what it throws leaves run_sygus.
timeout_handler(r) ==
  IF child[r] = "reaped"
    THEN /\ pc' = [pc EXCEPT ![r] = "threw"]
         /\ queue' = [queue EXCEPT ![r] = <<>>]
         /\ UNCHANGED <<timer, child, lines, problem, killed>>
    ELSE /\ killed' = [killed EXCEPT ![r] = TRUE]
         /\ timer' = [timer EXCEPT ![r] = "off"]
         /\ child' = [child EXCEPT ![r] = "exited"]
         /\ queue' = [queue EXCEPT ![r] =
                        IF child[r] = "exited" THEN Tail(@) ELSE Append(Tail(@), "exit")]
         /\ UNCHANGED <<pc, lines, problem>>

Handle(r) ==
  /\ pc[r] = "waiting" /\ queue[r] # <<>>
  /\ \/ Head(queue[r]) = "exit" /\ on_exit(r)
     \/ Head(queue[r]) = "deadline" /\ timeout_handler(r)
  /\ UNCHANGED <<overlap, stamp, new_expr, files>>

\* ios.run returns when no handler is waiting for anything.
OutOfWork(r) == queue[r] = <<>> /\ timer[r] # "armed" /\ child[r] = "reaped"

LoopReturns(r) ==
  /\ Goes(r, "waiting", "reading")
  /\ OutOfWork(r)
  /\ UNCHANGED <<overlap, stamp, process, new_expr, files>>
-----------------------------------------------------------------------------
\* The second line, which is appended to the result file.
Second(r) == IF result_temp[stamp[r]] = None THEN Blank ELSE result_temp[stamp[r]]

CopyAnswer(r) ==
  /\ Goes(r, "reading", IF Second(r) = Blank THEN "cleaning" ELSE "parsing")
  /\ result' = [result EXCEPT ![stamp[r]] = Append(@, Second(r))]
  /\ new_expr' = [new_expr EXCEPT ![r] = Blank]
  /\ UNCHANGED <<overlap, stamp, process, template, script, result_temp>>

\* The lines of the file, if there is one and all of it is there.
Definitions(s) == {i \in DOMAIN result[s] : result[s][i] # Blank}
Parses(s, i) == Definitions(s) = {i} /\ result[s][i] # Part

\* The parser's result is only asserted; it takes one definition.
ParseAnswer(r) ==
  /\ pc[r] = "parsing"
  /\ \/ /\ \E i \in Definitions(stamp[r]) :
             /\ Parses(stamp[r], i)
             /\ new_expr' = [new_expr EXCEPT ![r] = result[stamp[r]][i]]
        /\ pc' = [pc EXCEPT ![r] = "cleaning"]
     \/ /\ \A i \in Definitions(stamp[r]) : ~Parses(stamp[r], i)
        /\ pc' = [pc EXCEPT ![r] = "aborted"]
        /\ UNCHANGED new_expr
  /\ UNCHANGED <<overlap, stamp, process, files>>

\* Slip: the output of the script is not removed.
RemovesTooLittle(r) ==
  /\ Goes(r, "cleaning", "returned")
  /\ result' = [result EXCEPT ![stamp[r]] = <<>>]
  /\ script' = [script EXCEPT ![stamp[r]] = 0]
  /\ UNCHANGED <<overlap, stamp, process, new_expr, template, result_temp>>

\* The template stays: its removal is commented out.
RemoveFiles(r) ==
  /\ Goes(r, "cleaning", "returned")
  /\ result' = [result EXCEPT ![stamp[r]] = <<>>]
  /\ result_temp' = [result_temp EXCEPT ![stamp[r]] = None]
  /\ script' = [script EXCEPT ![stamp[r]] = 0]
  /\ UNCHANGED <<overlap, stamp, process, new_expr, template>>
-----------------------------------------------------------------------------
Init ==
  /\ overlap \in BOOLEAN
  /\ pc = [r \in Runs |-> "idle"]
  /\ stamp \in [Runs -> {CHOOSE s \in Stamps : TRUE}]
  /\ timer = [r \in Runs |-> "idle"]
  /\ queue = [r \in Runs |-> <<>>]
  /\ child = [r \in Runs |-> "none"]
  /\ lines = [r \in Runs |-> 0]
  /\ problem = [r \in Runs |-> <<>>]
  /\ killed = [r \in Runs |-> FALSE]
  /\ new_expr = [r \in Runs |-> Blank]
  /\ template = [s \in Stamps |-> <<>>]
  /\ script = [s \in Stamps |-> 0]
  /\ result_temp = [s \in Stamps |-> None]
  /\ result = [s \in Stamps |-> <<>>]

\* What the program, the event loop and the clock do.
Progress(r) ==
  \/ StartChild(r) \/ Handle(r) \/ LoopReturns(r)
  \/ CopyAnswer(r) \/ ParseAnswer(r) \/ RemoveFiles(r)

Solver(r) ==
  ShellStartsSolver(r) \/ SolverWrites(r) \/ SolverEnds(r) \/ ShellExits(r)

Next ==
  \E r \in Runs : WriteFiles(r) \/ Progress(r) \/ Solver(r) \/ DeadlinePasses(r)

\* The program runs and time passes; nothing is assumed of the child, which may
\* hang before it runs a command, in cvc5, or before it exits.
Fairness == \A r \in Runs : WF_spvars(Progress(r)) /\ WF_spvars(DeadlinePasses(r))

Spec == Init /\ [][Next]_spvars /\ Fairness
-----------------------------------------------------------------------------
SPTypeOK ==
  /\ pc \in [Runs -> {"idle", "written", "waiting", "reading", "parsing",
                      "cleaning", "returned", "threw", "aborted"}]
  /\ stamp \in [Runs -> Stamps]
  /\ timer \in [Runs -> {"idle", "armed", "expired", "off"}]
  /\ queue \in [Runs -> Seq({"exit", "deadline"})]
  /\ child \in [Runs -> {"none", "shell", "solving", "exited", "reaped"}]
  /\ lines \in [Runs -> Nat] /\ killed \in [Runs -> BOOLEAN]
  /\ problem \in [Runs -> Seq(Runs)]
  /\ new_expr \in [Runs -> Runs \cup {Blank}]
  /\ template \in [Stamps -> Seq(Runs)] /\ script \in [Stamps -> Nat]
  /\ result_temp \in [Stamps -> Runs \cup {None, Blank, Part}]
  /\ result \in [Stamps -> Seq(Runs \cup {Blank, Part})]

\* A run takes no answer but that to its own problem, nor does it stumble over
\* another run's files, also when an earlier run had the same timestamp (append to
\* the template, script and result; removal of all but the template).  Programs
\* that start runs in one directory within a millisecond are the exception.  The
\* parser can fail on an answer only if cvc5 ended in the middle of it: the run was
\* killed then, or cvc5 failed.
AnswersAreOwn ==
  \A r \in Runs :
    ~overlap \/ (\A q \in Runs \ {r} : stamp[q] = stamp[r] => pc[q] = "idle")
      => /\ pc[r] = "returned" => new_expr[r] \in {r, Blank}
         /\ pc[r] = "aborted" => result_temp[stamp[r]] = Part

\* No child outlives its run, however the run ends and whether or not it was
\* killed ("Killed the process and all its decendants").
NoChildOutlivesRun ==
  /\ SPTypeOK
  /\ \A r \in Runs : pc[r] \notin {"idle", "written", "waiting"} => child[r] \in {"none", "reaped"}

\* Whatever cvc5 does, run_sygus comes to an end: at the latest the deadline ends
\* the child, and with it the event loop.
EveryRunEnds == \A r \in Runs : pc[r] = "written" ~> Ended(r)
=============================================================================

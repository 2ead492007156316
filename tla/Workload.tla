------------------------------ MODULE Workload ------------------------------
(***************************************************************************)
(* A scenario and its Workload (python/stormweaver/workload.py): cycles    *)
(* that construct, start, join and report a number of RandomWorkers, in    *)
(* the context that starts and stops the server (scenario.py).             *)
(*                                                                         *)
(* The main thread runs Python code.  Each worker has a std::thread that   *)
(* attaches to the interpreter for a Python action (bindings/py_action.hpp),*)
(* for its connector, a Python callable, and for a message that the log    *)
(* hands to Python's (log.py, logging.cpp), its last one among them.  The  *)
(* interpreter is free-threaded (__init__.py): attached threads run in     *)
(* parallel, but a collection stops the world, that is, it waits until     *)
(* every other attached thread runs Python code, and lets no thread attach *)
(* in the meantime.  A thread that blocks while it is attached never       *)
(* answers.                                                                *)
(*                                                                         *)
(* The worker's own loop is the subject of RandomWorker.                   *)
(***************************************************************************)
EXTENDS Naturals, Sequences

CONSTANTS NumWorkers, Repeat,     \* workers and repeat of the Workload
          NoOne,                  \* nobody stops the world
          MaxCycles, MaxActions, MaxInterrupts, MaxCollections, MaxRestarts

ASSUME WorkloadAssumption ==
  /\ {NumWorkers, Repeat} \subseteq Nat \ {0}
  /\ {MaxCycles, MaxActions, MaxInterrupts, MaxCollections, MaxRestarts}
       \subseteq Nat
  /\ NoOne \notin Nat

VARIABLES objects,    \* the RandomWorkers in the order of their construction
          cycle,      \* _cycle
          live,       \* _live
          reports,    \* _reports and _worker_stats
          csv,        \* the rows of the statistics files
          pc,         \* where the main thread is
          workers,    \* the call's list of workers
          started,    \* how many of them start() has launched
          done,       \* how many the loop at pc has gone through
          left,       \* the cycles run() has left
          leaving,    \* is the scenario's context being left?
          serverUp,
          collector,  \* the thread that stops the world
          resetAt,    \* history: the last cycle whose reports a run() reset
          failed,     \* history: the cycles whose start() raised
          provoked,   \* history: "interrupt", "abandon", "outage"
          interrupts, collections, restarts   \* counters of the bounds

counters == <<interrupts, collections, restarts>>
history  == <<resetAt, failed>>
results  == <<reports, csv>>
local    == <<workers, started, done, left>>
vars == <<objects, cycle, live, results, pc, local, leaving, serverUp,
          collector, history, provoked, counters>>

-----------------------------------------------------------------------------
(* Worker objects, by their place in objects.  A thread is "none" before   *)
(* run_thread() and after join(); "gone" is a destroyed worker.            *)

Object(name) == [name |-> name, thread |-> "none", ran |-> FALSE, made |-> 0]

Attached == {"python", "connect", "log"}
ToAttach == {"toPython", "toConnect", "toLog"}
Threads  == {"native"} \cup ToAttach \cup Attached
Places   == Threads \cup {"none", "finished", "gone"}

Thread(id)  == objects[id].thread
Running(id) == Thread(id) \in Threads

Becomes(id, place) == objects' = [objects EXCEPT ![id].thread = place]

Elements(list) == {list[i] : i \in DOMAIN list}

Init ==
  /\ objects = << >> /\ cycle = 0 /\ live = << >> /\ reports = << >>
  /\ csv = {} /\ pc = "idle" /\ workers = << >> /\ started = 0 /\ done = 0
  /\ left = 0 /\ leaving = FALSE /\ serverUp = TRUE /\ collector = NoOne
  /\ resetAt = 0 /\ failed = {} /\ provoked = {}
  /\ interrupts = 0 /\ collections = 0 /\ restarts = 0

\* The main thread runs Python code at place, or attaches again to run it.
At(place) == pc = place /\ collector = NoOne

Goto(place) == pc' = place

\* The next worker of the loop at pc.
Next1 == workers[done + 1]

-----------------------------------------------------------------------------
(* start() *)

\* Mutant of NextCycle: a cycle that failed to start does not count.
SuccessfulCycle == cycle + 1 - (IF cycle \in failed THEN 1 ELSE 0)

NextCycle == cycle + 1

\* start() refuses while a cycle is live.
EnterStart ==
  IF live # << >>
  THEN Goto("raised") /\ left' = 0 /\ UNCHANGED <<cycle, workers, started>>
  ELSE /\ cycle' = NextCycle /\ workers' = << >> /\ started' = 0
       /\ Goto("construct") /\ UNCHANGED left

CallStart ==
  /\ At("idle") /\ cycle < MaxCycles
  /\ EnterStart
  /\ UNCHANGED <<objects, live, results, done, leaving, serverUp, collector,
                 history, provoked, counters>>

\* An exception inside start()'s try block.
FailStart ==
  /\ Goto("unwind") /\ done' = 0 /\ failed' = failed \cup {cycle}
  /\ UNCHANGED <<objects, cycle, live, results, workers, started, left,
                 leaving, serverUp, collector, resetAt>>

\* Mutant of NextWorker: the call's list gets the worker before.
SameWorker == Len(objects)

NextWorker == Len(objects) + 1

\* The constructor connects, by a callable of the scenario.
Construct ==
  /\ At("construct") /\ serverUp
  /\ objects' = Append(objects, Object(<<cycle, Len(workers) + 1>>))
  /\ workers' = Append(workers, NextWorker)
  /\ Goto(IF Len(workers') = NumWorkers THEN "setup" ELSE "construct")
  /\ UNCHANGED <<cycle, live, results, started, done, left, leaving, serverUp,
                 collector, history, provoked, counters>>

\* worker_setup() of every worker.
Setup ==
  /\ At("setup") /\ Goto("launch")
  /\ UNCHANGED <<objects, cycle, live, results, local, leaving, serverUp,
                 collector, history, provoked, counters>>

\* run_thread() resets the statistics.
Launch ==
  /\ At("launch") /\ Goto("append")
  /\ objects' = [objects EXCEPT ![workers[started + 1]].thread = "native",
                                ![workers[started + 1]].ran = TRUE]
  /\ UNCHANGED <<cycle, live, results, local, leaving, serverUp, collector,
                 history, provoked, counters>>

AppendStarted ==
  /\ At("append")
  /\ started' = started + 1
  /\ Goto(IF started' = NumWorkers THEN "publish" ELSE "launch")
  /\ UNCHANGED <<objects, cycle, live, results, workers, done, left, leaving,
                 serverUp, collector, history, provoked, counters>>

\* The connector, worker_setup() or the creation of a thread fails.
StepFails ==
  /\ At("construct") \/ At("setup") \/ At("launch")
  /\ FailStart
  /\ UNCHANGED <<provoked, counters>>

Publish ==
  /\ At("publish")
  /\ live' = workers /\ workers' = << >> /\ started' = 0
  /\ Goto(IF left > 0 THEN "wait" ELSE "idle")
  /\ UNCHANGED <<objects, cycle, results, done, left, leaving, serverUp,
                 collector, history, provoked, counters>>

\* Mutant of ToJoin: the workers are left running.
JoinNone == 0

\* "workers cannot be cancelled, wait for them before unwinding"
ToJoin == started

Unwind ==
  /\ At("unwind")
  /\ IF done < ToJoin
     THEN /\ ~Running(Next1)
          /\ Becomes(Next1, "none") /\ done' = done + 1
          /\ UNCHANGED <<pc, left>>
     ELSE Goto("raised") /\ left' = 0 /\ UNCHANGED <<objects, done>>
  /\ UNCHANGED <<cycle, live, results, workers, started, leaving, serverUp,
                 collector, history, provoked, counters>>

-----------------------------------------------------------------------------
(* wait() and run() *)

CallWait ==
  /\ At("idle") /\ Goto("wait")
  /\ UNCHANGED <<objects, cycle, live, results, local, leaving, serverUp,
                 collector, history, provoked, counters>>

EnterWait ==
  /\ At("wait")
  /\ workers' = live /\ live' = << >> /\ done' = 0
  /\ IF live = << >> THEN Goto("raised") /\ left' = 0
                     ELSE Goto("join") /\ UNCHANGED left
  /\ UNCHANGED <<objects, cycle, results, started, leaving, serverUp,
                 collector, history, provoked, counters>>

\* Mutant of Waited: an off-by-one leaves the last worker out.
AllButLast == Len(workers) - 1

\* wait() joins all of them before it reads any statistics.
Waited == Len(workers)

Join ==
  /\ At("join")
  /\ IF done < Waited
     THEN /\ ~Running(Next1)
          /\ Becomes(Next1, "none") /\ done' = done + 1
          /\ UNCHANGED pc
     ELSE Goto("capture") /\ done' = 0 /\ UNCHANGED objects
  /\ UNCHANGED <<cycle, live, results, workers, started, left, leaving,
                 serverUp, collector, history, provoked, counters>>

Report(id) == [id |-> id, made |-> objects[id].made]

Capture ==
  /\ At("capture")
  /\ IF done < Len(workers)
     THEN /\ reports' = Append(reports, Report(Next1)) /\ done' = done + 1
          /\ UNCHANGED pc
     ELSE Goto("csv") /\ UNCHANGED <<reports, done>>
  /\ UNCHANGED <<objects, cycle, live, csv, workers, started, left, leaving,
                 serverUp, collector, history, provoked, counters>>

\* An OSError is logged; without a log directory nothing is written.
WriteCsv ==
  /\ At("csv")
  /\ \/ csv' = csv \cup {[id |-> id, cycle |-> cycle] : id \in Elements(workers)}
     \/ UNCHANGED csv
  /\ workers' = << >>
  /\ IF left > 0 THEN Goto("loop") /\ left' = left - 1
                 ELSE Goto("idle") /\ UNCHANGED left
  /\ UNCHANGED <<objects, cycle, live, reports, started, done, leaving,
                 serverUp, collector, history, provoked, counters>>

\* The reports are reset before start() refuses.
CallRun ==
  /\ At("idle") /\ cycle + Repeat <= MaxCycles
  /\ reports' = << >>
  /\ resetAt' = IF live = << >> THEN cycle ELSE cycle - 1
  /\ left' = Repeat /\ Goto("loop")
  /\ UNCHANGED <<objects, cycle, live, csv, workers, started, done, leaving,
                 serverUp, collector, failed, provoked, counters>>

Loop ==
  /\ At("loop")
  /\ IF left > 0 THEN EnterStart
     ELSE Goto("idle") /\ UNCHANGED <<cycle, workers, started, left>>
  /\ UNCHANGED <<objects, live, results, done, leaving, serverUp, collector,
                 history, provoked, counters>>

-----------------------------------------------------------------------------
(* The scenario around the calls. *)

TryBlock == {"construct", "setup", "launch", "append"}
Calls == TryBlock \cup {"publish", "unwind", "wait", "join", "capture", "csv",
                        "loop"}

\* KeyboardInterrupt, between two steps of the main thread's Python code.
Interrupt ==
  /\ interrupts < MaxInterrupts /\ interrupts' = interrupts + 1
  /\ provoked' = provoked \cup {"interrupt"}
  /\ UNCHANGED <<collections, restarts>>
  /\ \/ \E place \in TryBlock : At(place) /\ FailStart
     \/ /\ \E place \in Calls \ TryBlock : At(place)
        /\ Goto("raised") /\ left' = 0
        /\ UNCHANGED <<objects, cycle, live, results, workers, started, done,
                       leaving, serverUp, collector, history>>

\* The scenario handles the exception: the frames that raised it are gone.
Handle ==
  /\ At("raised") /\ Goto("destroy") /\ done' = 0
  /\ UNCHANGED <<objects, cycle, live, results, workers, started, left,
                 leaving, serverUp, collector, history, provoked, counters>>

\* The context is left, at its end or by an exception: the server is stopped,
\* then the context's objects go.
Leave ==
  /\ At("idle") \/ At("raised")
  /\ Goto("destroy") /\ done' = 0 /\ leaving' = TRUE /\ serverUp' = FALSE
  /\ workers' = workers \o live /\ live' = << >>
  /\ provoked' = IF live # << >> THEN provoked \cup {"abandon"} ELSE provoked
  /\ UNCHANGED <<objects, cycle, results, started, left, collector, history,
                 counters>>

\* ~RandomWorker() joins, and Python calls it attached.
Destroy ==
  /\ At("destroy")
  /\ IF done < Len(workers)
     THEN /\ ~Running(Next1)
          /\ Becomes(Next1, "gone") /\ done' = done + 1
          /\ UNCHANGED <<pc, workers>>
     ELSE /\ Goto(IF leaving THEN "end" ELSE "idle") /\ workers' = << >>
          /\ UNCHANGED <<objects, done>>
  /\ UNCHANGED <<cycle, live, results, started, left, leaving, serverUp,
                 collector, history, provoked, counters>>

\* restart_and_wait()
StopServer ==
  /\ At("idle") /\ restarts < MaxRestarts
  /\ serverUp' = FALSE /\ restarts' = restarts + 1 /\ Goto("restarting")
  /\ provoked' = IF \E id \in DOMAIN objects : Running(id)
                 THEN provoked \cup {"outage"} ELSE provoked
  /\ UNCHANGED <<objects, cycle, live, results, local, leaving, collector,
                 history, interrupts, collections>>

StartServer ==
  /\ At("restarting")
  /\ \/ serverUp' = TRUE /\ Goto("idle")
     \/ Goto("raised") /\ UNCHANGED serverUp
  /\ UNCHANGED <<objects, cycle, live, results, local, leaving, collector,
                 history, provoked, counters>>

-----------------------------------------------------------------------------
(* The threads of the workers. *)

Alive == pc # "terminated"

workerFrame == <<cycle, live, results, local, leaving, serverUp, history,
                 provoked, interrupts, restarts>>

Acting(id) == objects[id].made < MaxActions

\* An action of the C++ core.
Act(id) ==
  /\ Alive /\ Thread(id) = "native" /\ Acting(id)
  /\ objects' = [objects EXCEPT ![id].made = @ + 1]
  /\ UNCHANGED <<pc, collector, collections, workerFrame>>

\* A Python action, a message for Python's log, or a lost connection.
WantPython(id) ==
  /\ Alive /\ Thread(id) = "native" /\ Acting(id)
  /\ \E place \in {"toPython", "toConnect"} :
       objects' = [objects EXCEPT ![id].thread = place, ![id].made = @ + 1]
  /\ UNCHANGED <<pc, collector, collections, workerFrame>>

Attach(id) ==
  /\ Alive /\ collector = NoOne
  /\ \/ Thread(id) = "toPython" /\ Becomes(id, "python")
     \/ Thread(id) = "toConnect" /\ Becomes(id, "connect")
     \/ Thread(id) = "toLog" /\ Becomes(id, "log")
  /\ UNCHANGED <<pc, collector, collections, workerFrame>>

\* What a Python action raises is counted; what the connector raises ends the
\* process.
Detach(id) ==
  /\ Alive /\ Thread(id) \in Attached /\ collector = NoOne
  /\ IF Thread(id) = "connect" /\ ~serverUp
     THEN Goto("terminated") /\ UNCHANGED objects
     ELSE /\ Becomes(id, IF Thread(id) = "log" THEN "finished" ELSE "native")
          /\ UNCHANGED pc
  /\ UNCHANGED <<collector, collections, workerFrame>>

\* The duration is over.  The thread's last message goes to Python's log if a
\* sink is installed and does not filter it.
Finish(id) ==
  /\ Alive /\ Thread(id) = "native"
  /\ \E place \in {"finished", "toLog"} : Becomes(id, place)
  /\ UNCHANGED <<pc, collector, collections, workerFrame>>

-----------------------------------------------------------------------------
(* The interpreter. *)

\* Mutant of Released: join() keeps the thread attached.
ReleasedByNone == {}

\* Where the main thread waits for a worker's thread detached.
Released == {"unwind", "join"}

MainBlocked ==
  /\ pc \in {"unwind", "join", "destroy"} \ Released
  /\ done < Len(workers) /\ Running(Next1)

StopTheWorld(id) ==
  /\ Alive /\ Thread(id) \in Attached /\ collector = NoOne
  /\ collections < MaxCollections /\ collections' = collections + 1
  /\ collector' = id
  /\ UNCHANGED <<objects, pc, workerFrame>>

ResumeTheWorld ==
  /\ Alive /\ collector # NoOne /\ ~MainBlocked
  /\ collector' = NoOne
  /\ UNCHANGED <<objects, pc, collections, workerFrame>>

-----------------------------------------------------------------------------
InCall == \/ Construct \/ Setup \/ Launch \/ AppendStarted \/ StepFails
          \/ Publish \/ Unwind \/ EnterWait \/ Join \/ Capture \/ WriteCsv
          \/ Loop

Worker(id) == Attach(id) \/ Detach(id) \/ Finish(id)

Next ==
  \/ InCall \/ CallStart \/ CallWait \/ CallRun \/ Interrupt
  \/ Handle \/ Leave \/ Destroy \/ StopServer \/ StartServer
  \/ \E id \in DOMAIN objects : \/ Act(id) \/ WantPython(id) \/ Worker(id)
                                \/ StopTheWorld(id)
  \/ ResumeTheWorld

\* Threads are scheduled, a worker's time passes, a Python action returns, the
\* connector gets an answer, and a collection ends once every thread answers.
Spec ==
  /\ Init /\ [][Next]_vars
  /\ WF_vars(InCall) /\ WF_vars(Destroy) /\ WF_vars(ResumeTheWorld)
  /\ \A id \in 1 .. NumWorkers * MaxCycles :
       WF_vars(id \in DOMAIN objects /\ Worker(id))

-----------------------------------------------------------------------------
(* Properties. *)

\* Types; a list of workers names objects, each once.
TypeOK ==
  /\ objects \in Seq([name : (1 .. MaxCycles) \X (1 .. NumWorkers),
                      thread : Places, ran : BOOLEAN, made : Nat])
  /\ cycle \in 0 .. MaxCycles
  /\ \A list \in {live, workers} :
       /\ list \in Seq(DOMAIN objects)
       /\ \A i, j \in DOMAIN list : list[i] = list[j] => i = j
  /\ reports \in Seq([id : DOMAIN objects, made : Nat])
  /\ csv \subseteq [id : DOMAIN objects, cycle : 1 .. MaxCycles]
  /\ pc \in Calls \cup {"idle", "raised", "destroy", "restarting", "end",
                       "terminated"}
  /\ started \in 0 .. NumWorkers /\ done \in 0 .. NumWorkers
  /\ left \in 0 .. Repeat
  /\ collector = NoOne \/ collector \in DOMAIN objects

Excepted(causes) == provoked \cap causes # {}

\* A thread runs only for the call in progress or for the live cycle: no
\* exception leaves start() before what it launched is joined
\* (workload.py:118-128), wait() returns with every thread joined, and no two
\* cycles overlap.  A KeyboardInterrupt between two steps, or a scenario that
\* leaves its context without wait(), is the exception.
NothingLeftRunning ==
  Alive =>
  /\ \A id \in DOMAIN objects :
       Running(id) => \/ id \in Elements(live)
                      \/ pc \in Calls /\ id \in Elements(workers)
                      \/ Excepted({"interrupt", "abandon"})
  /\ \A i, j \in DOMAIN objects :
       Running(i) /\ Running(j) => objects[i].name[1] = objects[j].name[1]

Reported == {reports[i].id : i \in DOMAIN reports}

\* What a cycle should have reported since the last run().
Due == {id \in DOMAIN objects : /\ objects[id].ran
                                /\ objects[id].name[1] > resetAt
                                /\ objects[id].name[1] \notin failed
                                /\ id \notin Elements(live)}

\* The statistics are read after the threads have stopped, so what a report
\* says is final; a worker is reported once; between calls every worker of
\* every finished cycle is, and of no other; and the statistics files name
\* the worker's own cycle (workload.py:140-159; docs/writing-scenarios.md:103).
ReportsTruthful ==
  /\ \A i \in DOMAIN reports :
       /\ Thread(reports[i].id) \in {"none", "gone"}
       /\ reports[i].made = objects[reports[i].id].made
  /\ \A i, j \in DOMAIN reports : reports[i].id = reports[j].id => i = j
  /\ pc = "idle" /\ ~Excepted({"interrupt"}) => Reported = Due
  /\ \A row \in csv : row.cycle = objects[row.id].name[1]

\* Names are never used twice, also after a cycle that failed to start: a
\* logger is found by its name, and would write to the other's file
\* (workload.py:43-52).
NamesUnique ==
  \A i, j \in DOMAIN objects : objects[i].name = objects[j].name => i = j

\* The world cannot stop, for the main thread waits, attached, for a thread
\* that waits for it.
Deadlocked ==
  /\ collector # NoOne /\ MainBlocked
  /\ Next1 = collector \/ Thread(Next1) \in ToAttach

\* A worker ends the process only when the server was taken from a running
\* cycle, and the interpreter stops for good only when a scenario lets a
\* running worker be destroyed: start(), wait(), a failed start and what comes
\* after them never do either.
FailuresHaveCause ==
  /\ pc = "terminated" => provoked # {}
  /\ Deadlocked => Excepted({"interrupt", "abandon"})

\* start(), wait() and run() return or raise, whatever the threads and the
\* collector do (workload.py; module.cpp:696-703).
CallsReturn == pc \in Calls ~> pc \notin Calls

\* "blocking (or thread-starting) calls must release the thread state ... an
\* attached thread parked in pthread_join would deadlock against workers that
\* need to attach for python actions" (bindings/module.cpp:696-699).
NoDeadlock == ~Deadlocked
=============================================================================

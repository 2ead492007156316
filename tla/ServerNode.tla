------------------------------ MODULE ServerNode ------------------------------
(***************************************************************************)
(* The lifecycle of one database server under test: the backend classes    *)
(* (python/stormweaver/backends), the test node on top of them             *)
(* (testing/node.py) and the scenario contexts (scenario.py).              *)
(*                                                                         *)
(* One thread, the harness, calls start, stop, kill, restart and           *)
(* poll_start.  Around it run a server process per session and, under a    *)
(* tracing wrapper, a tool process per session, which come up, hang, crash *)
(* and end whenever they like.  What the harness knows of them is a Popen  *)
(* handle, a pid file and a port.                                          *)
(***************************************************************************)
EXTENDS Naturals, Sequences, FiniteSets

CONSTANTS
    Configs,      \* the set-ups to check, see Config
    MaxSessions,  \* bound: how often a server is launched
    MaxCalls      \* bound: how many calls the harness makes before it closes

(***************************************************************************)
(* family:  what a stop request needs, a pid file or an open socket.       *)
(* driver:  a TestNode, or a scenario's context manager.                   *)
(* wrapper: none; "exec", a prefix that becomes the server (numactl, env,  *)
(*          valgrind); "tracer", a tool with the server as its child (rr). *)
(***************************************************************************)
Config == [family  : {"postgres", "mysql"},
           driver  : {"node", "scenario"},
           wrapper : {"none", "exec", "tracer"}]

ASSUME ConfigsAssumption == Configs \subseteq Config
ASSUME BoundsAssumption == MaxSessions \in Nat \ {0} /\ MaxCalls \in Nat \ {0}

Sessions == 1..MaxSessions
None == 0

VARIABLES
    config,
    session,   \* DatabaseBackend._session
    proc,      \* DatabaseBackend._proc, as the session it was spawned for
    pidfile,   \* the session named by postmaster.pid or mysqld.pid
    server,    \* per session: the server process
    code,      \* per session: the exit of the Popen child, "none" while it runs
    outcomes,  \* the lines of logs/<run>/outcome
    default,   \* TestNode._default, as the session it is connected to
    op,        \* the harness's current call, and
    at,        \* where in it the harness is
    due,       \* the deadlines of the current call that have passed
    collected, \* Popen.poll() has met the child's exit: its pid is gone
    calls,     \* how many calls were made
    asked,     \* history: per session, what the harness called for
    died,      \* history: the sessions whose server ended on its own
    severed,   \* history: the sessions whose tool was killed, not their server
    answered,  \* history: whose server the last successful wait_ready() met
    again      \* history: poll_start() retries after a launch that failed

harness == <<session, proc, outcomes, default, op, at, due, collected, calls,
             asked, answered, again>>
processes == <<pidfile, server, code, died, severed>>
vars == <<config, harness, processes>>

Alive(s) == server[s] \in {"booting", "up", "stopping"}
Up == {s \in Sessions : server[s] = "up"}
Tracing == config.wrapper = "tracer"
Exits == {"exited", "failed"}   \* with status 0, with another or by a signal

Init ==
    /\ config \in Configs
    /\ session = 0 /\ proc = None /\ pidfile = None
    /\ server = [s \in Sessions |-> "unborn"]
    /\ code = [s \in Sessions |-> "none"]
    /\ outcomes = <<>>
    /\ default = None
    /\ op = "none" /\ at = "idle" /\ due = {} /\ calls = 0 /\ collected = FALSE
    /\ asked = [s \in Sessions |-> {}]
    /\ died = {} /\ severed = {} /\ answered = None /\ again = FALSE

-------------------------------------------------------------------------------
(* The server processes and, under a tracer, the tools. *)

\* A process that ends takes its Popen handle's child with it, except under a
\* tracer, which follows later (ToolEnds).
Ends(s, how) ==
    /\ server' = [server EXCEPT ![s] = how]
    /\ code' = IF Tracing THEN code ELSE [code EXCEPT ![s] = how]

\* The owner of the data directory's lock, if it is still running.
Locked(s) == \E p \in Sessions \ {s} : Alive(p) /\ pidfile = p

WritePid(s) ==
    /\ server[s] = "booting" /\ pidfile # s /\ ~Locked(s)
    /\ pidfile' = s
    /\ UNCHANGED <<config, harness, server, code, died, severed>>

ComeUp(s) ==
    /\ server[s] = "booting" /\ pidfile = s
    /\ server' = [server EXCEPT ![s] = "up"]
    /\ UNCHANGED <<config, harness, pidfile, code, died, severed>>

\* A start that is refused by another server's lock, or that fails for a reason
\* which may be gone a moment later.
FailToStart(s) ==
    /\ server[s] = "booting"
    /\ Ends(s, "failed")
    /\ pidfile' = IF pidfile = s THEN None ELSE pidfile
    /\ died' = died \cup {s}
    /\ UNCHANGED <<config, harness, severed>>

\* A crash leaves the pid file behind.
Crash(s) ==
    /\ Alive(s)
    /\ Ends(s, "failed")
    /\ died' = died \cup {s}
    /\ UNCHANGED <<config, harness, pidfile, severed>>

\* The shutdown that was asked for.  Nothing says that it ever completes.
ShutDown(s) ==
    /\ server[s] = "stopping"
    /\ Ends(s, "exited")
    /\ pidfile' = IF pidfile = s THEN None ELSE pidfile
    /\ UNCHANGED <<config, harness, died, severed>>

ToolEnds(s) ==
    /\ Tracing /\ code[s] = "none" /\ server[s] \in Exits
    /\ code' = [code EXCEPT ![s] = server[s]]
    /\ UNCHANGED <<config, harness, pidfile, server, died, severed>>

Process(s) == \/ WritePid(s) \/ ComeUp(s) \/ FailToStart(s) \/ Crash(s)
              \/ ShutDown(s) \/ ToolEnds(s)

\* SIGKILL for a server: unlike a crash, somebody's doing.
KillServer(s) ==
    /\ Ends(s, "failed")
    /\ UNCHANGED <<pidfile, died, severed>>

\* Mutant of KillChild: _reap() gives up on a child that does not end.
KillNothing == UNCHANGED processes

\* SIGKILL for the child of the handle.  A tracer's server may survive it.
KillChild ==
    IF code[proc] # "none" THEN UNCHANGED processes
    ELSE IF ~Tracing THEN KillServer(proc)
    ELSE /\ code' = [code EXCEPT ![proc] = "failed"]
         /\ \/ /\ Alive(proc)
               /\ severed' = severed \cup {proc}
               /\ UNCHANGED server
            \/ /\ server' = [server EXCEPT ![proc] = IF Alive(proc) THEN "failed" ELSE @]
               /\ UNCHANGED severed
         /\ UNCHANGED <<pidfile, died>>

-------------------------------------------------------------------------------
(* How a call of the harness ends. *)

\* Mutant of Return: the call is not marked as finished.
ReturnBusy ==
    /\ at' = "idle" /\ again' = FALSE /\ UNCHANGED op

Return ==
    /\ op' = "none" /\ at' = "idle" /\ again' = FALSE

\* poll_start() catches what start() raises and tries again until its deadline;
\* the bound on launches ends it like the deadline does.
Retries == op = "poll_start" /\ "poll_start" \notin due /\ session' < MaxSessions

Raise(launched) ==
    IF Retries
    THEN /\ at' = "launch" /\ again' = (again \/ launched)
         /\ UNCHANGED op
    ELSE Return

\* After the stop that a restart or the closing of a context begins with.
Stopped ==
    \/ op = "restart" /\ at' = "launch" /\ UNCHANGED <<op, again>>
    \/ op = "close" /\ at' = "closed" /\ op' = "none" /\ UNCHANGED again
    \/ op \notin {"restart", "close"} /\ Return

\* Mutant of ForgetsDefault: a transition keeps the default connection.
KeepsDefault == default

ForgetsDefault == IF config.driver = "node" THEN None ELSE default

-------------------------------------------------------------------------------
(* Calls. *)

Launching == {"start", "restart", "poll_start"}
Ops(c) == {"start", "stop", "kill", "restart"}
          \cup IF c.driver = "node" /\ c.family = "postgres" THEN {"poll_start"} ELSE {}

FirstStep(o) ==
    CASE o \in {"start", "poll_start"} -> "launch"
      [] o = "kill" -> "kill"
      [] OTHER      -> "ask"

\* Every transition of a TestNode drops its default connection first.
Call(o) ==
    /\ at = "idle" /\ calls < MaxCalls
    /\ o \in Launching => session < MaxSessions
    /\ op' = o /\ at' = FirstStep(o) /\ calls' = calls + 1
    /\ due' = {} /\ default' = ForgetsDefault
    /\ UNCHANGED <<config, processes, session, proc, outcomes, collected, asked,
                   answered, again>>

\* TestNode._conn(): a new connection goes to whoever listens on the port.
Connect ==
    /\ at = "idle" /\ config.driver = "node" /\ default = None
    /\ default' \in Up
    /\ UNCHANGED <<config, processes, session, proc, outcomes, op, at, due, collected,
                   calls, asked, answered, again>>

\* Mutant of IsRunning: poll() is read the wrong way round.
IsRunningInverted == proc # None /\ code[proc] # "none"

IsRunning == proc # None /\ code[proc] = "none"

\* The end of the with block: a node stops what still runs, a scenario's
\* finally clause calls stop() in any case.
Close ==
    /\ at = "idle"
    /\ default' = ForgetsDefault
    /\ IF config.driver = "scenario" \/ IsRunning
       THEN op' = "close" /\ at' = "ask"
       ELSE op' = "none" /\ at' = "closed"
    /\ due' = {}
    /\ UNCHANGED <<config, processes, session, proc, outcomes, collected, calls,
                   asked, answered, again>>

\* is_running() at any other time.
Check ==
    /\ at = "idle" /\ proc # None /\ code[proc] # "none" /\ ~collected
    /\ collected' = TRUE
    /\ UNCHANGED <<config, processes, session, proc, outcomes, default, op, at, due,
                   calls, asked, answered, again>>

-------------------------------------------------------------------------------
(* start() and wait_ready(). *)

AlreadyStarted ==
    /\ at = "launch" /\ proc # None
    /\ UNCHANGED session
    /\ Raise(FALSE)
    /\ UNCHANGED <<config, processes, proc, outcomes, default, due, collected, calls,
                   asked, answered>>

Spawn ==
    /\ at = "launch" /\ proc = None
    /\ session' = session + 1
    /\ proc' = session'
    /\ server' = [server EXCEPT ![session'] = "booting"]
    /\ at' = "probe" /\ due' = due \ {"wait_ready"}
    /\ collected' = FALSE /\ answered' = None
    /\ UNCHANGED <<config, pidfile, code, died, severed, outcomes, default, op, calls,
                   asked, again>>

\* An OSError of Popen: the session number is used up.
SpawnFails ==
    /\ at = "launch" /\ proc = None
    /\ session' = session + 1
    /\ Raise(FALSE)
    /\ answered' = None
    /\ UNCHANGED <<config, processes, proc, outcomes, default, due, collected, calls,
                   asked>>

\* is_ready() asks the port (pg_isready) or the socket (mysqladmin ping).
Ready ==
    /\ at = "probe" /\ "wait_ready" \notin due
    /\ answered' \in Up
    /\ Return
    /\ UNCHANGED <<config, processes, session, proc, outcomes, default, due, collected,
                   calls, asked>>

NotReady ==
    /\ at = "probe" /\ "wait_ready" \notin due
    /\ Up = {}
    /\ at' = "poll"
    /\ UNCHANGED <<config, processes, session, proc, outcomes, default, op, due,
                   collected, calls, asked, answered, again>>

StillRuns ==
    /\ at = "poll" /\ code[proc] = "none"
    /\ at' = "probe"
    /\ UNCHANGED <<config, processes, session, proc, outcomes, default, op, due,
                   collected, calls, asked, answered, again>>

\* wait_ready() returns False and start() raises: the handle stays.
ServerExited ==
    /\ at = "poll" /\ code[proc] # "none"
    /\ UNCHANGED session
    /\ Raise(TRUE)
    /\ collected' = TRUE
    /\ UNCHANGED <<config, processes, proc, outcomes, default, due, calls, asked,
                   answered>>

NotReadyInTime ==
    /\ at = "probe" /\ "wait_ready" \in due
    /\ UNCHANGED session
    /\ Raise(TRUE)
    /\ UNCHANGED <<config, processes, proc, outcomes, default, due, collected, calls,
                   asked, answered>>

-------------------------------------------------------------------------------
(* stop(), kill() and _reap(). *)

\* Whom a stop request reaches: pg_ctl signals the pid in the pid file ...
PgCtlTargets == {s \in Sessions : Alive(s) /\ pidfile = s}

\* ... and mysqladmin the server that accepts connections.
MysqladminTargets == Up

StopTargets == IF config.family = "postgres" THEN PgCtlTargets ELSE MysqladminTargets

AskedFor(request) == IF session = 0 THEN asked
                     ELSE [asked EXCEPT ![session] = @ \cup {request}]

\* _reap() returns at once if there is no handle.
ReapUnlessNone == IF proc = None THEN Stopped
                  ELSE at' = "reap" /\ UNCHANGED <<op, again>>

AskToStop ==
    /\ at = "ask"
    /\ server' = [s \in Sessions |-> IF s \in StopTargets THEN "stopping" ELSE server[s]]
    /\ asked' = AskedFor("stop")
    /\ ReapUnlessNone
    /\ UNCHANGED <<config, pidfile, code, died, severed, session, proc, outcomes, default,
                   due, collected, calls, answered>>

\* A mode that the backend does not know.
RefuseMode ==
    /\ at = "ask" /\ op = "stop"
    /\ Return
    /\ UNCHANGED <<config, processes, session, proc, outcomes, default, due, collected,
                   calls, asked, answered>>

\* Unwrapped, the child is the server; otherwise the pid file is asked, and the
\* child is what is left to kill when there is none.
KillsChild == proc # None /\ (config.wrapper = "none" \/ pidfile = None)

\* The pid that kill() signals is nobody's: the file is stale, or poll() has
\* collected the child.  An ended child that nobody collected still has its pid.
NoSuchProcess ==
    IF KillsChild THEN code[proc] # "none" /\ collected
    ELSE /\ pidfile # None /\ ~Alive(pidfile)
         /\ ~(config.wrapper = "exec" /\ pidfile = proc /\ ~collected)

Kill ==
    /\ at = "kill" /\ ~NoSuchProcess
    /\ IF KillsChild THEN KillChild
       ELSE IF pidfile # None /\ Alive(pidfile) THEN KillServer(pidfile)
       ELSE UNCHANGED processes
    /\ asked' = AskedFor("kill")
    /\ ReapUnlessNone
    /\ UNCHANGED <<config, session, proc, outcomes, default, due, collected, calls,
                   answered>>

\* os.kill() raises, and _reap() is not reached.
KillFails ==
    /\ at = "kill" /\ NoSuchProcess
    /\ asked' = AskedFor("kill")
    /\ Return
    /\ UNCHANGED <<config, processes, session, proc, outcomes, default, due, collected,
                   calls, answered>>

\* Mutant of SessionResult: the exit code is not looked at.
ResultOfRequest(requested, rc) ==
    CASE requested = "kill" -> "killed"
      [] requested = "stop" -> "clean"
      [] OTHER -> "crashed"

SessionResult(requested, rc) ==
    CASE requested = "kill" -> "killed"
      [] requested = "stop" /\ rc = "exited" -> "clean"
      [] OTHER -> "crashed"

Record(rc) ==
    /\ outcomes' = Append(outcomes,
                         [session |-> session,
                          result  |-> SessionResult(IF op = "kill" THEN op ELSE "stop", rc)])
    /\ proc' = None
    /\ Stopped
    /\ UNCHANGED <<config, session, default, due, collected, calls, asked, answered>>

Reap ==
    /\ at = "reap" /\ code[proc] # "none"
    /\ Record(code[proc])
    /\ UNCHANGED processes

\* The child did not end in time: it is killed and waited for.
ReapByForce ==
    /\ at = "reap" /\ "reap" \in due
    /\ KillChild
    /\ Record(code'[proc])

Deadlines == {"wait_ready", "reap", "poll_start"}
\* Mutant of Pending: _reap() waits for as long as it takes.
PendingNoReap(d) == CASE d = "wait_ready" -> at \in {"probe", "poll"}
                      [] d = "reap"       -> FALSE
                      [] d = "poll_start" -> op = "poll_start"

Pending(d) == CASE d = "wait_ready" -> at \in {"probe", "poll"}
                [] d = "reap"       -> at = "reap"
                [] d = "poll_start" -> op = "poll_start"

Expire(d) ==
    /\ Pending(d) /\ d \notin due
    /\ due' = due \cup {d}
    /\ UNCHANGED <<config, processes, session, proc, outcomes, default, op, at, collected,
                   calls, asked, answered, again>>

\* What the harness does once it is inside a call.
Proceed == \/ AlreadyStarted \/ Spawn \/ SpawnFails
           \/ Ready \/ NotReady \/ StillRuns \/ ServerExited \/ NotReadyInTime
           \/ AskToStop \/ RefuseMode \/ Kill \/ KillFails \/ Reap \/ ReapByForce

Next == \/ \E o \in Ops(config) : Call(o)
        \/ Connect \/ Close \/ Check
        \/ Proceed
        \/ \E d \in Deadlines : Expire(d)
        \/ \E s \in Sessions : Process(s)

\* The harness's thread runs and clocks advance.  Servers and tools promise
\* nothing, not even to end once they were asked to.
Fairness == WF_vars(Proceed) /\ \A d \in Deadlines : WF_vars(Expire(d))

Spec == Init /\ [][Next]_vars /\ Fairness

-------------------------------------------------------------------------------
(* Properties. *)

TypeOK ==
    /\ config \in Configs
    /\ session \in 0..MaxSessions /\ proc \in {None, session}
    /\ pidfile \in 0..session
    /\ server \in [Sessions -> {"unborn", "booting", "up", "stopping"} \cup Exits]
    /\ code \in [Sessions -> {"none"} \cup Exits]
    /\ outcomes \in Seq([session : 1..session, result : {"clean", "killed", "crashed"}])
    /\ default \in 0..session /\ answered \in 0..session
    /\ op \in {"none", "stop", "kill", "start", "restart", "poll_start", "close"}
    /\ at \in {"idle", "launch", "probe", "poll", "ask", "kill", "reap", "closed"}
    /\ (op = "none") <=> (at \in {"idle", "closed"})
    /\ due \subseteq Deadlines /\ calls \in 0..MaxCalls
    /\ collected \in BOOLEAN /\ again \in BOOLEAN
    /\ asked \in [Sessions -> SUBSET {"stop", "kill"}]
    /\ died \subseteq 1..session /\ severed \subseteq 1..session

Recorded == {outcomes[i].session : i \in DOMAIN outcomes}

\* Every server that was launched has its line in the outcome file, once and in
\* order, or is still held; and only a test node closes on one it holds, which
\* then ended on its own (close() calls stop() only if is_running()).
SessionsAccounted ==
    /\ \A s \in Sessions :
          server[s] # "unborn" => (s \in Recorded) # (s = proc)
    /\ \A i, j \in DOMAIN outcomes : i < j => outcomes[i].session < outcomes[j].session
    /\ at = "closed" /\ proc # None => config.driver = "node" /\ proc \in died

\* The outcome file is what a batch of runs is searched for crashes with
\* (docs/wrappers.md): a server that ended on its own is "crashed" unless the
\* harness called kill() on that session, whatever was called when and however
\* long the tool took; "clean" and "killed" were asked for.
OutcomesTruthful ==
    \A i \in DOMAIN outcomes :
        LET s == outcomes[i].session
            r == outcomes[i].result
        IN  /\ s \in died /\ "kill" \notin asked[s] => r = "crashed"
            /\ r = "clean" => s \notin died /\ "stop" \in asked[s]
            /\ r = "killed" => "kill" \in asked[s]

\* No call forgets a running server: all that run besides the one held are
\* those whose tracer was killed, by force in _reap() or by kill() before the
\* server had its pid file.
NoServerLeftBehind ==
    \A s \in Sessions : Alive(s) /\ s # proc => s \in severed

\* A successful start() was answered by the server it launched, and a default
\* connection belongs to the current session, through every failed start, kill
\* and retry; a server left behind by its tracer is the exception.
AnsweredByOurs ==
    \A s \in {answered, default} \ {None} : s = session \/ s \in severed

\* Every call of the harness comes back, though the server may hang in its
\* start or in its shutdown and the tool may never finish.
CallsReturn == at \notin {"idle", "closed"} ~> at \in {"idle", "closed"}

\* testing/node.py, poll_start(): "retrying transient start failures [...] keep
\* trying until the node is ready or timeout".  A retry after a launch that
\* failed launches the server once more.
PollStartRelaunches == again /\ at = "launch" => proc = None
===============================================================================

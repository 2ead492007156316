--------------------------- MODULE ServerNode_proofs ---------------------------
(***************************************************************************)
(* Proofs about ServerNode, for any number of sessions and calls and any   *)
(* mix of set-ups.                                                         *)
(***************************************************************************)
EXTENDS ServerNode, TLAPS

(***************************************************************************)
(* The inductive invariant, in named parts.                                *)
(***************************************************************************)

\* A session that was not reached has no process; a child that ended has no
\* server, unless its tracer was killed; what exited was not a crash.
Lifecycles ==
    /\ \A s \in Sessions :
          /\ server[s] # "unborn" => s <= session
          /\ code[s] # "none" => server[s] # "unborn"
          /\ code[s] # "none" => (~Alive(s) \/ s \in severed)
          /\ code[s] = "exited" => server[s] = "exited"
          /\ s \in died => server[s] = "failed"
    /\ pidfile # None => server[pidfile] # "unborn"

\* Between calls, and in every step but the reap, the server that is held
\* runs, or has ended on its own: nobody asked it to.
Untouched ==
    /\ proc # None => server[proc] # "unborn"
    /\ at \in {"probe", "poll", "reap"} => proc # None
    /\ (proc # None /\ at # "reap") =>
          \/ proc \in died
          \/ server[proc] \in {"booting", "up"} /\ code[proc] = "none"

\* A stop or a kill knows whose it is, and the reap what was asked for.
Requested ==
    /\ at = "ask" => op \in {"stop", "restart", "close"}
    /\ at = "kill" => op = "kill"
    /\ at = "reap" => /\ op \in {"stop", "kill", "restart", "close"}
                      /\ op = "kill" => "kill" \in asked[session]
                      /\ op # "kill" => "stop" \in asked[session]

\* Sessions are recorded in order, the one that is held not yet.
Ordered ==
    /\ \A i, j \in DOMAIN outcomes : i < j => outcomes[i].session < outcomes[j].session
    /\ proc # None => \A i \in DOMAIN outcomes : outcomes[i].session < session

\* A launched session is held or has its line.
Accounted ==
    /\ \A s \in Sessions : server[s] # "unborn" =>
          s = proc \/ \E i \in DOMAIN outcomes : outcomes[i].session = s
    /\ at = "closed" /\ proc # None => config.driver = "node" /\ proc \in died

\* What a line says of its session stays true.
Truthful ==
    \A i \in DOMAIN outcomes :
        LET s == outcomes[i].session
            r == outcomes[i].result
        IN  /\ r = "clean" => server[s] = "exited" /\ "stop" \in asked[s]
            /\ r = "killed" => "kill" \in asked[s]

\* The default connection exists between the calls of a node only.
DefaultBetweenCalls ==
    default # None => at = "idle" /\ config.driver = "node"

\* A call that will launch the server was let in below the bound.
WithinBound ==
    /\ at = "launch" => session < MaxSessions
    /\ op = "restart" /\ at \in {"ask", "reap"} => session < MaxSessions

IInv == /\ TypeOK /\ Lifecycles /\ Untouched /\ Requested /\ Ordered
        /\ Accounted /\ Truthful /\ WithinBound
        /\ NoServerLeftBehind /\ AnsweredByOurs /\ DefaultBetweenCalls

-------------------------------------------------------------------------------
(* What the helpers do. *)

\* The requests made of a session only grow.
LEMMA Asking ==
    ASSUME TypeOK, NEW r \in {"stop", "kill"}
    PROVE  /\ AskedFor(r) \in [Sessions -> SUBSET {"stop", "kill"}]
           /\ session # 0 => r \in AskedFor(r)[session]
           /\ \A s \in Sessions : asked[s] \subseteq AskedFor(r)[s]
<1>1. CASE session = 0
  BY <1>1 DEF AskedFor, TypeOK
<1>2. CASE session # 0
  <2>1. session \in Sessions
    BY <1>2, BoundsAssumption DEF TypeOK, Sessions
  <2> QED BY <1>2, <2>1 DEF AskedFor, TypeOK
<1> QED BY <1>1, <1>2

\* A handle stands for a session of the range.
LEMMA HeldSession ==
    ASSUME TypeOK, proc # None
    PROVE  proc = session /\ session \in Sessions
BY BoundsAssumption DEF TypeOK, Sessions, None

\* A line stays well-formed as the session number grows.
LEMMA OutcomesKept ==
    ASSUME TypeOK, session' \in Nat, session <= session', outcomes' = outcomes
    PROVE  outcomes' \in Seq([session : 1..session', result : {"clean", "killed", "crashed"}])
<1>1. session \in Nat /\ 1..session \subseteq 1..session'
  BY BoundsAssumption DEF TypeOK
<1>2. [session : 1..session, result : {"clean", "killed", "crashed"}]
        \subseteq [session : 1..session', result : {"clean", "killed", "crashed"}]
  BY <1>1
<1>3. outcomes \in Seq([session : 1..session, result : {"clean", "killed", "crashed"}])
  BY DEF TypeOK
<1>4. ASSUME NEW S, NEW T, S \subseteq T, NEW q \in Seq(S) PROVE q \in Seq(T)
  BY <1>4
<1> QED BY <1>2, <1>3, <1>4

\* What a line says is within the range of the sessions launched so far.
LEMMA OutcomeTypes ==
    ASSUME TypeOK
    PROVE  /\ session \in Nat /\ session <= MaxSessions
           /\ Len(outcomes) \in Nat /\ DOMAIN outcomes = 1..Len(outcomes)
           /\ \A i \in DOMAIN outcomes : outcomes[i].session \in 1..session
<1>1. session \in Nat /\ session <= MaxSessions
  BY BoundsAssumption DEF TypeOK
<1>2. outcomes \in Seq([session : 1..session, result : {"clean", "killed", "crashed"}])
  BY DEF TypeOK
<1>3. Len(outcomes) \in Nat /\ DOMAIN outcomes = 1..Len(outcomes)
  BY <1>2
<1>4. ASSUME NEW S, NEW q \in Seq(S), NEW i \in DOMAIN q PROVE q[i] \in S
  BY <1>4
<1>5. \A i \in DOMAIN outcomes :
        outcomes[i] \in [session : 1..session, result : {"clean", "killed", "crashed"}]
  BY <1>2, <1>4
<1> QED BY <1>1, <1>3, <1>5

\* A call that raises ends, unless poll_start() goes on with it.
LEMMA Raising ==
    ASSUME TypeOK, NEW launched \in BOOLEAN, Raise(launched)
    PROVE  /\ \/ op' = "none" /\ at' = "idle"
              \/ op' = op /\ op = "poll_start" /\ at' = "launch" /\ session' < MaxSessions
           /\ again' \in BOOLEAN
BY DEF Raise, Return, Retries, TypeOK

LEMMA Stopping ==
    ASSUME TypeOK, Stopped
    PROVE  /\ \/ op' = "none" /\ at' = "idle" /\ op \notin {"restart", "close"}
              \/ op' = op /\ op = "restart" /\ at' = "launch"
              \/ op' = "none" /\ op = "close" /\ at' = "closed"
           /\ again' \in BOOLEAN
BY DEF Stopped, Return, TypeOK

\* What a kill may do to the processes, whomever it meets.
Killed ==
    /\ server' \in [Sessions -> {"unborn", "booting", "up", "stopping"} \cup Exits]
    /\ code' \in [Sessions -> {"none"} \cup Exits]
    /\ \A s \in Sessions :
          /\ server'[s] # server[s] => server'[s] = "failed" /\ (s = proc \/ Alive(s))
          /\ server'[s] = "unborn" <=> server[s] = "unborn"
          /\ code'[s] # code[s] => code'[s] = "failed"
          /\ code'[s] # "none" => /\ server'[s] # "unborn"
                                  /\ server'[s] \in Exits \/ s \in severed'
          /\ code'[s] = "exited" => server'[s] = "exited"
    /\ severed' = severed \/ (proc # None /\ severed' = severed \cup {proc})
    /\ pidfile' = pidfile /\ died' = died

\* An ended child has no server, unless it is a tool that was killed.
LEMMA EndedChild ==
    ASSUME IInv
    PROVE  /\ server \in [Sessions -> {"unborn", "booting", "up", "stopping"} \cup Exits]
           /\ code \in [Sessions -> {"none"} \cup Exits]
           /\ \A s \in Sessions :
                 /\ code[s] # "none" => /\ server[s] # "unborn"
                                        /\ server[s] \in Exits \/ s \in severed
                 /\ code[s] = "exited" => server[s] = "exited"
<1>1. /\ server \in [Sessions -> {"unborn", "booting", "up", "stopping"} \cup Exits]
      /\ code \in [Sessions -> {"none"} \cup Exits]
  BY DEF IInv, TypeOK
<1>2. Lifecycles
  BY DEF IInv
<1> QED BY <1>1, <1>2 DEF Lifecycles, Alive, Exits

LEMMA KillingNobody == ASSUME IInv, UNCHANGED processes PROVE Killed
<1>1. UNCHANGED <<server, code, severed, pidfile, died>>
  BY DEF processes
<1> QED BY <1>1, EndedChild DEF Killed

LEMMA KillingServer ==
    ASSUME IInv, NEW p \in Sessions, Alive(p), KillServer(p)
    PROVE  Killed
<1>1. /\ server \in [Sessions -> {"unborn", "booting", "up", "stopping"} \cup Exits]
      /\ code \in [Sessions -> {"none"} \cup Exits]
      /\ \A s \in Sessions :
            /\ code[s] # "none" => /\ server[s] # "unborn"
                                   /\ server[s] \in Exits \/ s \in severed
            /\ code[s] = "exited" => server[s] = "exited"
  BY EndedChild
<1>2. /\ server' = [server EXCEPT ![p] = "failed"]
      /\ code' = code \/ code' = [code EXCEPT ![p] = "failed"]
      /\ UNCHANGED <<pidfile, died, severed>>
  BY DEF KillServer, Ends
<1> QED BY <1>1, <1>2 DEF Killed, Alive, Exits

\* The child that is killed has an exit status, and its server, unless it
\* outlives its tracer, is gone.
LEMMA KillingChild ==
    ASSUME IInv, proc # None, KillChild
    PROVE  Killed /\ code'[proc] # "none"
<1>1. proc \in Sessions /\ server[proc] # "unborn"
  BY HeldSession DEF IInv, Untouched
<1>2. CASE code[proc] # "none"
  BY <1>1, <1>2, KillingNobody DEF KillChild, processes
<1>3. CASE code[proc] = "none"
  <2>1. /\ server \in [Sessions -> {"unborn", "booting", "up", "stopping"} \cup Exits]
        /\ code \in [Sessions -> {"none"} \cup Exits]
        /\ \A s \in Sessions :
              /\ code[s] # "none" => /\ server[s] # "unborn"
                                     /\ server[s] \in Exits \/ s \in severed
              /\ code[s] = "exited" => server[s] = "exited"
    BY EndedChild
  <2>2. /\ code' = [code EXCEPT ![proc] = "failed"]
        /\ UNCHANGED <<pidfile, died>>
    BY <1>3 DEF KillChild, KillServer, Ends
  <2>3. \/ server' = [server EXCEPT ![proc] = "failed"] /\ severed' = severed
        \/ server' = server /\ severed' = severed \cup {proc}
        \/ server' = server /\ severed' = severed /\ server[proc] \in Exits
    BY <1>1, <1>3, <2>1 DEF KillChild, KillServer, Ends, Alive
  <2> QED BY <1>1, <1>3, <2>1, <2>2, <2>3 DEF Killed, Alive, Exits
<1> QED BY <1>2, <1>3

-------------------------------------------------------------------------------
(* IInv is preserved by the server processes and the tools, *)

LEMMA WritePidStep ==
    ASSUME IInv, NEW s \in Sessions, WritePid(s) PROVE IInv'
  BY BoundsAssumption DEF IInv, TypeOK, Lifecycles, Untouched, Requested,
       Ordered, Accounted, Truthful, WithinBound, NoServerLeftBehind,
       AnsweredByOurs, DefaultBetweenCalls, Alive, Exits, None, Sessions,
       WritePid, harness

LEMMA ComeUpStep ==
    ASSUME IInv, NEW s \in Sessions, ComeUp(s) PROVE IInv'
  BY BoundsAssumption DEF IInv, TypeOK, Lifecycles, Untouched, Requested,
       Ordered, Accounted, Truthful, WithinBound, NoServerLeftBehind,
       AnsweredByOurs, DefaultBetweenCalls, Alive, Exits, None, Sessions,
       ComeUp, harness

LEMMA FailToStartStep ==
    ASSUME IInv, NEW s \in Sessions, FailToStart(s) PROVE IInv'
  BY BoundsAssumption DEF IInv, TypeOK, Lifecycles, Untouched, Requested,
       Ordered, Accounted, Truthful, WithinBound, NoServerLeftBehind,
       AnsweredByOurs, DefaultBetweenCalls, Alive, Exits, None, Sessions,
       FailToStart, Ends, Tracing, harness

LEMMA CrashStep ==
    ASSUME IInv, NEW s \in Sessions, Crash(s) PROVE IInv'
  BY BoundsAssumption DEF IInv, TypeOK, Lifecycles, Untouched, Requested,
       Ordered, Accounted, Truthful, WithinBound, NoServerLeftBehind,
       AnsweredByOurs, DefaultBetweenCalls, Alive, Exits, None, Sessions,
       Crash, Ends, Tracing, harness

LEMMA ShutDownStep ==
    ASSUME IInv, NEW s \in Sessions, ShutDown(s) PROVE IInv'
  BY BoundsAssumption DEF IInv, TypeOK, Lifecycles, Untouched, Requested,
       Ordered, Accounted, Truthful, WithinBound, NoServerLeftBehind,
       AnsweredByOurs, DefaultBetweenCalls, Alive, Exits, None, Sessions,
       ShutDown, Ends, Tracing, harness

LEMMA ToolEndsStep ==
    ASSUME IInv, NEW s \in Sessions, ToolEnds(s) PROVE IInv'
  BY BoundsAssumption DEF IInv, TypeOK, Lifecycles, Untouched, Requested,
       Ordered, Accounted, Truthful, WithinBound, NoServerLeftBehind,
       AnsweredByOurs, DefaultBetweenCalls, Alive, Exits, None, Sessions,
       ToolEnds, Tracing, harness

-------------------------------------------------------------------------------
(* by the calls between which the harness is idle, *)

LEMMA CallStep ==
    ASSUME IInv, NEW o \in Ops(config), Call(o) PROVE IInv'
  BY BoundsAssumption DEF IInv, TypeOK, Lifecycles, Untouched, Requested,
       Ordered, Accounted, Truthful, WithinBound, NoServerLeftBehind,
       AnsweredByOurs, DefaultBetweenCalls, Alive, Exits, None, Sessions,
       Call, FirstStep, ForgetsDefault, processes, Ops, Launching

LEMMA ConnectStep ==
    ASSUME IInv, Connect PROVE IInv'
  BY BoundsAssumption DEF IInv, TypeOK, Lifecycles, Untouched, Requested,
       Ordered, Accounted, Truthful, WithinBound, NoServerLeftBehind,
       AnsweredByOurs, DefaultBetweenCalls, Alive, Exits, None, Sessions,
       Connect, Up, processes

LEMMA CheckStep ==
    ASSUME IInv, Check PROVE IInv'
  BY BoundsAssumption DEF IInv, TypeOK, Lifecycles, Untouched, Requested,
       Ordered, Accounted, Truthful, WithinBound, NoServerLeftBehind,
       AnsweredByOurs, DefaultBetweenCalls, Alive, Exits, None, Sessions,
       Check, processes

LEMMA CloseStep ==
    ASSUME IInv, Close PROVE IInv'
<1>1. Accounted'
  <2>1. at' = "closed" /\ proc' # None => config.driver = "node" /\ code[proc] # "none"
    <3>1. config.driver \in {"node", "scenario"}
      BY ConfigsAssumption DEF IInv, TypeOK, Config
    <3> QED BY <3>1 DEF Close, IsRunning, processes
  <2>2. at' = "closed" /\ proc' # None => proc' \in died'
    BY <2>1 DEF Close, IInv, Untouched, processes
  <2> QED BY <2>1, <2>2 DEF Close, IInv, Accounted, Sessions, processes
<1>2. TypeOK' /\ Lifecycles' /\ Untouched' /\ Requested' /\ Ordered' /\ Truthful'
  BY DEF IInv, TypeOK, Lifecycles, Untouched, Requested, Ordered, Accounted,
       Truthful, WithinBound, NoServerLeftBehind, AnsweredByOurs,
       DefaultBetweenCalls, Alive, Exits, None, Sessions, Close,
       ForgetsDefault, processes
<1>3. WithinBound' /\ NoServerLeftBehind' /\ AnsweredByOurs' /\ DefaultBetweenCalls'
  BY DEF IInv, TypeOK, Lifecycles, Untouched, Requested, Ordered, Accounted,
       Truthful, WithinBound, NoServerLeftBehind, AnsweredByOurs,
       DefaultBetweenCalls, Alive, Exits, None, Sessions, Close,
       ForgetsDefault, processes
<1> QED BY <1>1, <1>2, <1>3 DEF IInv

-------------------------------------------------------------------------------
(* by start() and wait_ready(), *)

LEMMA AlreadyStartedStep ==
    ASSUME IInv, AlreadyStarted PROVE IInv'
<1>1. /\ UNCHANGED <<config, processes, session, proc, outcomes, default, due, collected,
                     calls, asked, answered>>
      /\ at = "launch"
  BY DEF AlreadyStarted
<1>2. /\ \/ op' = "none" /\ at' = "idle"
         \/ op' = op /\ op = "poll_start" /\ at' = "launch" /\ session' < MaxSessions
      /\ again' \in BOOLEAN
  BY Raising DEF AlreadyStarted, IInv
<1>3. TypeOK'
  BY <1>1, <1>2 DEF IInv, TypeOK, processes
<1>4. Lifecycles' /\ Untouched' /\ Requested' /\ Ordered' /\ Accounted' /\ Truthful'
  BY <1>1, <1>2 DEF IInv, Lifecycles, Untouched, Requested, Ordered, Accounted,
       Truthful, Alive, processes
<1>5. WithinBound' /\ NoServerLeftBehind' /\ AnsweredByOurs' /\ DefaultBetweenCalls'
  BY <1>1, <1>2 DEF IInv, WithinBound, NoServerLeftBehind, AnsweredByOurs,
       DefaultBetweenCalls, Alive, processes
<1> QED BY <1>3, <1>4, <1>5 DEF IInv

LEMMA SpawnStep ==
    ASSUME IInv, Spawn PROVE IInv'
<1>1. /\ session \in Nat /\ session' = session + 1 /\ session' \in Sessions
      /\ proc = None /\ proc' = session' /\ at' = "probe"
  BY BoundsAssumption DEF Spawn, IInv, TypeOK, WithinBound, Sessions
<1>2. /\ server' = [server EXCEPT ![session'] = "booting"]
      /\ server[session'] = "unborn" /\ code[session'] = "none"
  BY <1>1 DEF Spawn, IInv, TypeOK, Lifecycles, Sessions
<1>3. TypeOK'
  <2>1. /\ server' \in [Sessions -> {"unborn", "booting", "up", "stopping"} \cup Exits]
        /\ (op' = "none") <=> (at' \in {"idle", "closed"})
    BY <1>2 DEF Spawn, IInv, TypeOK
  <2>2. outcomes' \in Seq([session : 1..session', result : {"clean", "killed", "crashed"}])
    BY <1>1, OutcomesKept DEF Spawn, IInv
  <2>3. /\ 0..session \subseteq 0..session' /\ 1..session \subseteq 1..session'
        /\ session' \in 0..MaxSessions /\ session' \in 0..session'
    BY <1>1, BoundsAssumption DEF Sessions
  <2>4. /\ pidfile' \in 0..session' /\ default' \in 0..session' /\ answered' \in 0..session'
        /\ died' \subseteq 1..session' /\ severed' \subseteq 1..session'
    BY <1>1, <2>3 DEF Spawn, IInv, TypeOK, None
  <2>5. /\ op' = op /\ at' = "probe" /\ due' \subseteq Deadlines /\ calls' \in 0..MaxCalls
        /\ op \in {"none", "stop", "kill", "start", "restart", "poll_start", "close"}
        /\ collected' = FALSE /\ again' \in BOOLEAN /\ config' \in Configs
        /\ asked' \in [Sessions -> SUBSET {"stop", "kill"}]
        /\ code' \in [Sessions -> {"none"} \cup Exits]
    BY DEF Spawn, IInv, TypeOK
  <2> QED BY <1>1, <2>1, <2>2, <2>3, <2>4, <2>5 DEF TypeOK
<1>4. Lifecycles' /\ Untouched'
  BY <1>1, <1>2 DEF Spawn, IInv, TypeOK, Lifecycles, Untouched, Alive, Sessions, None, Exits
<1>5. Requested' /\ WithinBound' /\ DefaultBetweenCalls'
  BY <1>1 DEF Spawn, IInv, Requested, WithinBound, DefaultBetweenCalls
<1>6. Ordered'
  BY <1>1, OutcomeTypes DEF Spawn, IInv, Ordered
<1>7. Accounted' /\ Truthful'
  <2>1. \A i \in DOMAIN outcomes : outcomes[i].session # session'
    BY <1>1, OutcomeTypes DEF IInv
  <2>2. \A s \in Sessions : s # session' => server'[s] = server[s]
    BY <1>2 DEF IInv, TypeOK
  <2>3. outcomes' = outcomes /\ asked' = asked
    BY DEF Spawn
  <2>4. Accounted'
    BY <1>1, <2>2, <2>3 DEF IInv, Accounted, None, Sessions
  <2>5. \A i \in DOMAIN outcomes : outcomes[i].session \in Sessions
    BY OutcomeTypes, BoundsAssumption DEF IInv, Sessions
  <2>6. Truthful'
    BY <2>1, <2>2, <2>3, <2>5 DEF IInv, Truthful
  <2> QED BY <2>4, <2>6
<1>8. NoServerLeftBehind' /\ AnsweredByOurs'
  BY <1>1, <1>2 DEF Spawn, IInv, TypeOK, NoServerLeftBehind, AnsweredByOurs, Alive,
       DefaultBetweenCalls, None, Sessions
<1> QED BY <1>3, <1>4, <1>5, <1>6, <1>7, <1>8 DEF IInv

LEMMA SpawnFailsStep ==
    ASSUME IInv, SpawnFails PROVE IInv'
<1>1. /\ UNCHANGED <<config, processes, proc, outcomes, default, due, collected, calls, asked>>
      /\ session \in Nat /\ session' = session + 1 /\ session' \in Sessions
      /\ at = "launch" /\ answered' = None /\ proc = None
  BY BoundsAssumption DEF SpawnFails, IInv, TypeOK, WithinBound, Sessions
<1>2. /\ \/ op' = "none" /\ at' = "idle"
         \/ op' = op /\ op = "poll_start" /\ at' = "launch" /\ session' < MaxSessions
      /\ again' \in BOOLEAN
  BY Raising DEF SpawnFails, IInv
<1>3. TypeOK'
  <2>1. outcomes' \in Seq([session : 1..session', result : {"clean", "killed", "crashed"}])
    BY <1>1, OutcomesKept DEF IInv
  <2>2. /\ 0..session \subseteq 0..session' /\ 1..session \subseteq 1..session'
        /\ session' \in 0..MaxSessions /\ session' \in 0..session'
    BY <1>1, BoundsAssumption DEF Sessions
  <2>3. /\ pidfile' \in 0..session' /\ default' \in 0..session' /\ answered' \in 0..session'
        /\ died' \subseteq 1..session' /\ severed' \subseteq 1..session'
    BY <1>1, <2>2 DEF IInv, TypeOK, None, processes
  <2>4. /\ due' \subseteq Deadlines /\ calls' \in 0..MaxCalls
        /\ op' \in {"none", "stop", "kill", "start", "restart", "poll_start", "close"}
        /\ collected' \in BOOLEAN /\ config' \in Configs
        /\ asked' \in [Sessions -> SUBSET {"stop", "kill"}]
        /\ code' \in [Sessions -> {"none"} \cup Exits]
        /\ server' \in [Sessions -> {"unborn", "booting", "up", "stopping"} \cup Exits]
    BY <1>1, <1>2 DEF IInv, TypeOK, processes
  <2> QED BY <1>1, <1>2, <2>1, <2>2, <2>3, <2>4 DEF TypeOK, None
<1>4. Lifecycles' /\ Untouched' /\ Requested' /\ Ordered' /\ Accounted' /\ Truthful'
  BY <1>1, <1>2 DEF IInv, TypeOK, Lifecycles, Untouched, Requested, Ordered, Accounted,
       Truthful, Alive, processes
<1>5. WithinBound' /\ NoServerLeftBehind' /\ DefaultBetweenCalls'
  BY <1>1, <1>2 DEF IInv, WithinBound, NoServerLeftBehind, DefaultBetweenCalls, Alive,
       processes
<1>6. AnsweredByOurs'
  BY <1>1, <1>2 DEF IInv, AnsweredByOurs, DefaultBetweenCalls, None, processes
<1> QED BY <1>3, <1>4, <1>5, <1>6 DEF IInv

LEMMA ReadyStep ==
    ASSUME IInv, Ready PROVE IInv'
<1>1. /\ UNCHANGED <<config, processes, session, proc, outcomes, default, due, collected,
                     calls, asked>>
      /\ op' = "none" /\ at' = "idle" /\ again' = FALSE /\ at = "probe"
      /\ answered' \in Sessions /\ server[answered'] = "up"
  BY DEF Ready, Return, Up
<1>2. answered' \in 0..session /\ session \in Nat
  BY <1>1, BoundsAssumption DEF IInv, TypeOK, Lifecycles, Sessions
<1>3. TypeOK'
  BY <1>1, <1>2 DEF IInv, TypeOK, processes
<1>4. Lifecycles' /\ Untouched' /\ Requested' /\ Ordered' /\ Accounted' /\ Truthful'
  BY <1>1 DEF IInv, Lifecycles, Untouched, Requested, Ordered, Accounted, Truthful,
       Alive, processes
<1>5. WithinBound' /\ NoServerLeftBehind' /\ DefaultBetweenCalls'
  BY <1>1 DEF IInv, WithinBound, NoServerLeftBehind, DefaultBetweenCalls, Alive,
       processes
<1>6. AnsweredByOurs'
  BY <1>1 DEF IInv, TypeOK, Untouched, AnsweredByOurs, NoServerLeftBehind,
       DefaultBetweenCalls, Alive, None, processes
<1> QED BY <1>3, <1>4, <1>5, <1>6 DEF IInv

LEMMA NotReadyStep ==
    ASSUME IInv, NotReady PROVE IInv'
  BY BoundsAssumption DEF IInv, TypeOK, Lifecycles, Untouched, Requested,
       Ordered, Accounted, Truthful, WithinBound, NoServerLeftBehind,
       AnsweredByOurs, DefaultBetweenCalls, Alive, Exits, None, Sessions,
       NotReady, processes

LEMMA StillRunsStep ==
    ASSUME IInv, StillRuns PROVE IInv'
  BY BoundsAssumption DEF IInv, TypeOK, Lifecycles, Untouched, Requested,
       Ordered, Accounted, Truthful, WithinBound, NoServerLeftBehind,
       AnsweredByOurs, DefaultBetweenCalls, Alive, Exits, None, Sessions,
       StillRuns, processes

LEMMA ServerExitedStep ==
    ASSUME IInv, ServerExited PROVE IInv'
<1>1. /\ UNCHANGED <<config, processes, session, proc, outcomes, default, due, calls, asked,
                     answered>>
      /\ collected' \in BOOLEAN
      /\ at \in {"probe", "poll"}
  BY DEF ServerExited, processes, IInv, TypeOK
<1>2. /\ \/ op' = "none" /\ at' = "idle"
         \/ op' = op /\ op = "poll_start" /\ at' = "launch" /\ session' < MaxSessions
      /\ again' \in BOOLEAN
  BY Raising DEF ServerExited, IInv
<1>3. TypeOK'
  BY <1>1, <1>2 DEF IInv, TypeOK, processes
<1>4. Lifecycles' /\ Untouched' /\ Requested' /\ Ordered' /\ Accounted' /\ Truthful'
  BY <1>1, <1>2 DEF IInv, Lifecycles, Untouched, Requested, Ordered, Accounted,
       Truthful, Alive, processes
<1>5. WithinBound' /\ NoServerLeftBehind' /\ AnsweredByOurs' /\ DefaultBetweenCalls'
  BY <1>1, <1>2 DEF IInv, WithinBound, NoServerLeftBehind, AnsweredByOurs,
       DefaultBetweenCalls, Alive, processes
<1> QED BY <1>3, <1>4, <1>5 DEF IInv

LEMMA NotReadyInTimeStep ==
    ASSUME IInv, NotReadyInTime PROVE IInv'
<1>1. /\ UNCHANGED <<config, processes, session, proc, outcomes, default, due, calls, asked,
                     answered>>
      /\ collected' \in BOOLEAN
      /\ at \in {"probe", "poll"}
  BY DEF NotReadyInTime, processes, IInv, TypeOK
<1>2. /\ \/ op' = "none" /\ at' = "idle"
         \/ op' = op /\ op = "poll_start" /\ at' = "launch" /\ session' < MaxSessions
      /\ again' \in BOOLEAN
  BY Raising DEF NotReadyInTime, IInv
<1>3. TypeOK'
  BY <1>1, <1>2 DEF IInv, TypeOK, processes
<1>4. Lifecycles' /\ Untouched' /\ Requested' /\ Ordered' /\ Accounted' /\ Truthful'
  BY <1>1, <1>2 DEF IInv, Lifecycles, Untouched, Requested, Ordered, Accounted,
       Truthful, Alive, processes
<1>5. WithinBound' /\ NoServerLeftBehind' /\ AnsweredByOurs' /\ DefaultBetweenCalls'
  BY <1>1, <1>2 DEF IInv, WithinBound, NoServerLeftBehind, AnsweredByOurs,
       DefaultBetweenCalls, Alive, processes
<1> QED BY <1>3, <1>4, <1>5 DEF IInv

-------------------------------------------------------------------------------
(* and by stop(), kill() and _reap(). *)

LEMMA RefuseModeStep ==
    ASSUME IInv, RefuseMode PROVE IInv'
<1>1. /\ UNCHANGED <<config, processes, session, proc, outcomes, default, due, collected,
                     calls, asked, answered>>
      /\ at = "ask"
  BY DEF RefuseMode
<1>2. op' = "none" /\ at' = "idle" /\ again' = FALSE
  BY DEF RefuseMode, Return
<1>3. TypeOK'
  BY <1>1, <1>2 DEF IInv, TypeOK, processes
<1>4. Lifecycles' /\ Untouched' /\ Requested' /\ Ordered' /\ Accounted' /\ Truthful'
  BY <1>1, <1>2 DEF IInv, Lifecycles, Untouched, Requested, Ordered, Accounted,
       Truthful, Alive, processes
<1>5. WithinBound' /\ NoServerLeftBehind' /\ AnsweredByOurs' /\ DefaultBetweenCalls'
  BY <1>1, <1>2 DEF IInv, WithinBound, NoServerLeftBehind, AnsweredByOurs,
       DefaultBetweenCalls, Alive, processes
<1> QED BY <1>3, <1>4, <1>5 DEF IInv

LEMMA KillFailsStep ==
    ASSUME IInv, KillFails PROVE IInv'
<1>1. /\ UNCHANGED <<config, processes, session, proc, outcomes, default, due, collected,
                     calls, answered>>
      /\ at = "kill" /\ asked' = AskedFor("kill") /\ TypeOK
  BY DEF KillFails, IInv
<1>2. op' = "none" /\ at' = "idle" /\ again' = FALSE
  BY DEF KillFails, Return
<1>3. /\ asked' \in [Sessions -> SUBSET {"stop", "kill"}]
      /\ \A s \in Sessions : asked[s] \subseteq asked'[s]
  BY <1>1, Asking
<1>4. TypeOK'
  BY <1>1, <1>2, <1>3 DEF TypeOK, processes
<1>5. Lifecycles' /\ Untouched' /\ Requested' /\ Ordered' /\ Accounted'
  BY <1>1, <1>2 DEF IInv, Lifecycles, Untouched, Requested, Ordered, Accounted,
       Alive, processes
<1>6. Truthful'
  <2>1. \A i \in DOMAIN outcomes : outcomes[i].session \in Sessions
    BY <1>1, OutcomeTypes, BoundsAssumption DEF Sessions
  <2> QED BY <1>1, <1>3, <2>1 DEF IInv, Truthful, processes
<1>7. WithinBound' /\ NoServerLeftBehind' /\ AnsweredByOurs' /\ DefaultBetweenCalls'
  BY <1>1, <1>2 DEF IInv, WithinBound, NoServerLeftBehind, AnsweredByOurs,
       DefaultBetweenCalls, Alive, processes
<1> QED BY <1>4, <1>5, <1>6, <1>7 DEF IInv

LEMMA ExpireStep ==
    ASSUME IInv, NEW d \in Deadlines, Expire(d) PROVE IInv'
  BY BoundsAssumption DEF IInv, TypeOK, Lifecycles, Untouched, Requested,
       Ordered, Accounted, Truthful, WithinBound, NoServerLeftBehind,
       AnsweredByOurs, DefaultBetweenCalls, Alive, Exits, None, Sessions,
       Expire, processes, Deadlines, Pending

\* What follows a request, with a handle to reap or without.
LEMMA Reaping ==
    ASSUME TypeOK, ReapUnlessNone
    PROVE  /\ \/ proc # None /\ op' = op /\ at' = "reap"
              \/ /\ proc = None
                 /\ \/ op' = "none" /\ at' = "idle"
                    \/ op' = op /\ op = "restart" /\ at' = "launch"
                    \/ op' = "none" /\ at' = "closed"
           /\ again' \in BOOLEAN
<1>1. CASE proc = None
  BY <1>1, Stopping DEF ReapUnlessNone
<1>2. CASE proc # None
  BY <1>2 DEF ReapUnlessNone, TypeOK
<1> QED BY <1>1, <1>2

LEMMA AskToStopStep ==
    ASSUME IInv, AskToStop PROVE IInv'
<1>1. /\ UNCHANGED <<config, pidfile, code, died, severed, session, proc, outcomes, default,
                     due, collected, calls, answered>>
      /\ server' = [s \in Sessions |-> IF s \in StopTargets THEN "stopping" ELSE server[s]]
      /\ asked' = AskedFor("stop") /\ at = "ask"
  BY DEF AskToStop
<1>2. TypeOK
  BY DEF IInv
<1>3. /\ \/ proc # None /\ op' = op /\ at' = "reap"
         \/ /\ proc = None
            /\ \/ op' = "none" /\ at' = "idle"
               \/ op' = op /\ op = "restart" /\ at' = "launch"
               \/ op' = "none" /\ at' = "closed"
      /\ again' \in BOOLEAN
  BY <1>2, Reaping DEF AskToStop
<1>4. /\ asked' \in [Sessions -> SUBSET {"stop", "kill"}]
      /\ session # 0 => "stop" \in asked'[session]
      /\ \A s \in Sessions : asked[s] \subseteq asked'[s]
  BY <1>1, <1>2, Asking
<1>5. \A s \in StopTargets : s \in Sessions /\ Alive(s)
  BY DEF StopTargets, PgCtlTargets, MysqladminTargets, Up, Alive
<1>6. /\ server' \in [Sessions -> {"unborn", "booting", "up", "stopping"} \cup Exits]
      /\ \A s \in Sessions : \/ server'[s] = server[s]
                             \/ server'[s] = "stopping" /\ Alive(s)
  BY <1>1, <1>2, <1>5 DEF TypeOK
<1>7. TypeOK'
  BY <1>1, <1>2, <1>3, <1>4, <1>6 DEF TypeOK
<1>8. Lifecycles'
  <2>1. \A s \in Sessions : /\ server'[s] = "unborn" <=> server[s] = "unborn"
                            /\ Alive(s)' <=> Alive(s)
                            /\ ~Alive(s) => server'[s] = server[s]
    BY <1>6 DEF Alive
  <2>2. \A s \in Sessions : Alive(s) => server[s] \notin Exits
    BY DEF Alive, Exits
  <2>3. pidfile # None => pidfile \in Sessions
    BY <1>2, BoundsAssumption DEF TypeOK, Sessions, None
  <2> QED BY <1>1, <2>1, <2>2, <2>3 DEF IInv, Lifecycles, Exits
<1>9. Untouched' /\ Requested' /\ WithinBound' /\ DefaultBetweenCalls'
  <2>1. proc # None => proc = session /\ session \in Sessions /\ session # 0
    BY <1>2, HeldSession DEF None
  <2> QED BY <1>1, <1>3, <1>4, <1>6, <2>1
          DEF IInv, Untouched, Requested, WithinBound, DefaultBetweenCalls, Alive
<1>10. Ordered' /\ Accounted'
  BY <1>1, <1>3, <1>6 DEF IInv, Ordered, Accounted, Alive
<1>11. Truthful'
  <2>1. \A i \in DOMAIN outcomes : outcomes[i].session \in Sessions
    BY <1>2, OutcomeTypes, BoundsAssumption DEF Sessions
  <2> QED BY <1>1, <1>4, <1>6, <2>1 DEF IInv, Truthful, Alive
<1>12. NoServerLeftBehind' /\ AnsweredByOurs'
  BY <1>1, <1>6 DEF IInv, NoServerLeftBehind, AnsweredByOurs, Alive
<1> QED BY <1>7, <1>8, <1>9, <1>10, <1>11, <1>12 DEF IInv

\* The parts that a kill leaves intact, while the harness is where it may kill.
LEMMA KilledKeeps ==
    ASSUME IInv, Killed, session' = session, at \in {"kill", "reap"}
    PROVE  /\ Lifecycles'
           /\ severed' \subseteq 1..session
           /\ \A s \in Sessions : server'[s] \notin {"unborn"} \cup Exits =>
                 s \in severed' \/ s = proc
           /\ \A i \in DOMAIN outcomes :
                 /\ outcomes[i].session \in Sessions
                 /\ outcomes[i].result = "clean" => server'[outcomes[i].session] = "exited"
<1>1. /\ TypeOK
      /\ proc # None => proc = session /\ session \in Sessions
  BY HeldSession DEF IInv
<1>2. \A i \in DOMAIN outcomes : outcomes[i].session \in Sessions
  BY <1>1, OutcomeTypes, BoundsAssumption DEF Sessions
<1>3. \A i \in DOMAIN outcomes :
        outcomes[i].result = "clean" => server'[outcomes[i].session] = "exited"
  <2>1. \A i \in DOMAIN outcomes : outcomes[i].session # proc
    BY <1>1, <1>2, OutcomeTypes DEF IInv, Ordered, Sessions, None
  <2> QED BY <1>2, <2>1 DEF IInv, Truthful, Killed, Alive
<1>4. severed' \subseteq 1..session
  <2>1. severed \subseteq 1..session
    BY <1>1 DEF TypeOK
  <2>2. proc # None => proc \in 1..session
    BY <1>1 DEF Sessions, None
  <2> QED BY <2>1, <2>2 DEF Killed
<1>5. \A s \in Sessions : server'[s] \notin {"unborn"} \cup Exits =>
                 s \in severed' \/ s = proc
  BY <1>1 DEF IInv, NoServerLeftBehind, Killed, Alive, Exits
<1>6. Lifecycles'
  <2>1. pidfile # None => pidfile \in Sessions
    BY <1>1, BoundsAssumption DEF TypeOK, Sessions, None
  <2>2. \A s \in Sessions : s \in died => server'[s] = "failed"
    BY DEF IInv, Lifecycles, Killed
  <2> QED BY <2>1, <2>2 DEF IInv, Lifecycles, Killed, Alive, Exits
<1> QED BY <1>2, <1>3, <1>4, <1>5, <1>6

LEMMA KillStep ==
    ASSUME IInv, Kill PROVE IInv'
<1>1. /\ UNCHANGED <<config, session, proc, outcomes, default, due, collected, calls, answered>>
      /\ asked' = AskedFor("kill") /\ at = "kill"
      /\ TypeOK
  BY DEF Kill, IInv
<1>2. Killed
  <2>1. CASE KillsChild
    BY <2>1, KillingChild DEF Kill, KillsChild
  <2>2. CASE ~KillsChild /\ pidfile # None /\ Alive(pidfile)
    <3>1. pidfile \in Sessions
      BY <1>1, <2>2, BoundsAssumption DEF TypeOK, Sessions, None
    <3> QED BY <2>2, <3>1, KillingServer DEF Kill
  <2>3. CASE ~KillsChild /\ ~(pidfile # None /\ Alive(pidfile))
    BY <2>3, KillingNobody DEF Kill
  <2> QED BY <2>1, <2>2, <2>3
<1>3. /\ \/ proc # None /\ op' = op /\ at' = "reap"
         \/ /\ proc = None
            /\ \/ op' = "none" /\ at' = "idle"
               \/ op' = op /\ op = "restart" /\ at' = "launch"
               \/ op' = "none" /\ at' = "closed"
      /\ again' \in BOOLEAN
  BY <1>1, Reaping DEF Kill
<1>4. /\ asked' \in [Sessions -> SUBSET {"stop", "kill"}]
      /\ session # 0 => "kill" \in asked'[session]
      /\ \A s \in Sessions : asked[s] \subseteq asked'[s]
  BY <1>1, Asking
<1>5. /\ Lifecycles'
      /\ severed' \subseteq 1..session
      /\ \A s \in Sessions : server'[s] \notin {"unborn"} \cup Exits =>
            s \in severed' \/ s = proc
      /\ \A i \in DOMAIN outcomes :
            /\ outcomes[i].session \in Sessions
            /\ outcomes[i].result = "clean" => server'[outcomes[i].session] = "exited"
  BY <1>1, <1>2, KilledKeeps
<1>6. op = "kill"
  BY <1>1 DEF IInv, Requested
<1>7. TypeOK'
  BY <1>1, <1>2, <1>3, <1>4, <1>5 DEF TypeOK, Killed
<1>8. Untouched' /\ Requested' /\ WithinBound' /\ DefaultBetweenCalls'
  <2>1. proc # None => proc = session /\ session \in Sessions /\ session # 0
    BY <1>1, HeldSession DEF None
  <2> QED BY <1>1, <1>2, <1>3, <1>4, <1>6, <2>1
          DEF IInv, Untouched, Requested, WithinBound, DefaultBetweenCalls, Killed
<1>9. Ordered' /\ Accounted'
  BY <1>1, <1>2, <1>3, <1>6 DEF IInv, Ordered, Accounted, Killed
<1>10. Truthful'
  BY <1>1, <1>4, <1>5 DEF IInv, Truthful
<1>11. NoServerLeftBehind' /\ AnsweredByOurs'
  BY <1>1, <1>2, <1>5 DEF IInv, NoServerLeftBehind, AnsweredByOurs, Killed, Alive, Exits
<1> QED BY <1>5, <1>7, <1>8, <1>9, <1>10, <1>11 DEF IInv

\* The line of the session that is reaped, by force or not.
LEMMA Recording ==
    ASSUME IInv, at = "reap", Killed, code'[proc] # "none", Record(code'[proc])
    PROVE  IInv'
<1>1. /\ UNCHANGED <<config, session, default, due, collected, calls, asked, answered>>
      /\ proc' = None /\ Stopped /\ TypeOK
      /\ pidfile' = pidfile /\ died' = died
  BY DEF Record, IInv, Killed
<1>2. proc = session /\ session \in Sessions
  BY HeldSession DEF IInv, Untouched
<1>3. /\ \/ op' = "none" /\ at' = "idle"
         \/ op' = op /\ op = "restart" /\ at' = "launch"
         \/ op' = "none" /\ at' = "closed"
      /\ again' \in BOOLEAN
  BY <1>1, Stopping
<1>4. /\ Lifecycles'
      /\ severed' \subseteq 1..session
      /\ \A s \in Sessions : server'[s] \notin {"unborn"} \cup Exits =>
            s \in severed' \/ s = proc
      /\ \A i \in DOMAIN outcomes :
            /\ outcomes[i].session \in Sessions
            /\ outcomes[i].result = "clean" => server'[outcomes[i].session] = "exited"
  BY <1>1, KilledKeeps
<1>5. PICK r \in {"clean", "killed", "crashed"} :
         /\ outcomes' = Append(outcomes, [session |-> session, result |-> r])
         /\ r = "clean" => op # "kill" /\ code'[proc] = "exited"
         /\ r = "killed" => op = "kill"
  BY DEF Record, SessionResult
<1>6. /\ Len(outcomes) \in Nat /\ DOMAIN outcomes = 1..Len(outcomes)
      /\ outcomes \in Seq([session : 1..session, result : {"clean", "killed", "crashed"}])
  BY <1>1, OutcomeTypes DEF TypeOK
<1>7. /\ outcomes' \in Seq([session : 1..session, result : {"clean", "killed", "crashed"}])
      /\ DOMAIN outcomes' = 1..(Len(outcomes) + 1)
      /\ \A i \in DOMAIN outcomes : i \in DOMAIN outcomes' /\ outcomes'[i] = outcomes[i]
      /\ Len(outcomes) + 1 \in DOMAIN outcomes'
      /\ outcomes'[Len(outcomes) + 1] = [session |-> session, result |-> r]
      /\ \A i \in DOMAIN outcomes' : i \in DOMAIN outcomes \/ i = Len(outcomes) + 1
  <2>1. [session |-> session, result |-> r]
          \in [session : 1..session, result : {"clean", "killed", "crashed"}]
    BY <1>2, <1>5 DEF Sessions
  <2>2. ASSUME NEW S, NEW q \in Seq(S), NEW e \in S
        PROVE  /\ Append(q, e) \in Seq(S)
               /\ DOMAIN Append(q, e) = 1..(Len(q) + 1)
               /\ \A i \in 1..Len(q) : Append(q, e)[i] = q[i]
               /\ Append(q, e)[Len(q) + 1] = e
    OBVIOUS
  <2> QED BY <1>5, <1>6, <2>1, <2>2
<1>8. TypeOK'
  BY <1>1, <1>3, <1>4, <1>7 DEF TypeOK, Killed, None
<1>9. Untouched' /\ Requested' /\ WithinBound' /\ DefaultBetweenCalls'
  BY <1>1, <1>3 DEF IInv, Untouched, Requested, WithinBound, DefaultBetweenCalls, None
<1>10. Ordered'
  <2>1. \A i \in DOMAIN outcomes : outcomes[i].session < session
    BY <1>2 DEF IInv, Ordered, Sessions, None
  <2>2. \A i, j \in DOMAIN outcomes : i < j => outcomes[i].session < outcomes[j].session
    BY DEF IInv, Ordered
  <2>3. ASSUME NEW i \in DOMAIN outcomes', NEW j \in DOMAIN outcomes', i < j
        PROVE  outcomes'[i].session < outcomes'[j].session
    <3>1. i \in DOMAIN outcomes
      BY <1>6, <1>7, <2>3
    <3>2. CASE j \in DOMAIN outcomes
      BY <1>7, <2>2, <2>3, <3>1, <3>2
    <3>3. CASE j = Len(outcomes) + 1
      BY <1>7, <2>1, <3>1, <3>3
    <3> QED BY <1>7, <3>2, <3>3
  <2> QED BY <1>1, <2>3 DEF Ordered
<1>11. Accounted'
  <2>1. ASSUME NEW s \in Sessions, server'[s] # "unborn"
        PROVE  \E i \in DOMAIN outcomes' : outcomes'[i].session = s
    <3>1. CASE s = proc
      BY <1>2, <1>7, <3>1
    <3>2. CASE s # proc
      BY <1>7, <2>1, <3>2 DEF IInv, Accounted, Killed
    <3> QED BY <3>1, <3>2
  <2> QED BY <1>1, <2>1 DEF Accounted
<1>12. Truthful'
  <2>1. r = "clean" => server'[session] = "exited" /\ "stop" \in asked[session]
    BY <1>2, <1>5 DEF IInv, Requested, Killed
  <2>2. r = "killed" => "kill" \in asked[session]
    BY <1>5 DEF IInv, Requested
  <2>3. \A i \in DOMAIN outcomes :
           /\ outcomes[i].result = "clean" => "stop" \in asked[outcomes[i].session]
           /\ outcomes[i].result = "killed" => "kill" \in asked[outcomes[i].session]
    BY DEF IInv, Truthful
  <2> QED BY <1>1, <1>4, <1>7, <2>1, <2>2, <2>3 DEF Truthful
<1>13. NoServerLeftBehind' /\ AnsweredByOurs'
  <2>1. server'[proc] \in Exits \cup {"unborn"} \/ proc \in severed'
    BY <1>2 DEF Killed
  <2>2. severed \subseteq severed'
    BY DEF Killed
  <2> QED BY <1>1, <1>4, <2>1, <2>2 DEF IInv, NoServerLeftBehind, AnsweredByOurs, Alive, Exits
<1> QED BY <1>4, <1>8, <1>9, <1>10, <1>11, <1>12, <1>13 DEF IInv

LEMMA ReapStep ==
    ASSUME IInv, Reap PROVE IInv'
<1>1. /\ at = "reap" /\ code' = code /\ code'[proc] # "none"
      /\ Record(code'[proc]) /\ UNCHANGED processes
  BY DEF Reap, processes
<1> QED BY <1>1, KillingNobody, Recording

LEMMA ReapByForceStep ==
    ASSUME IInv, ReapByForce PROVE IInv'
<1>1. at = "reap" /\ KillChild /\ Record(code'[proc]) /\ proc # None
  BY DEF ReapByForce, IInv, Untouched
<1> QED BY <1>1, KillingChild, Recording

-------------------------------------------------------------------------------
(* The theorems. *)

LEMMA InitHolds == ASSUME Init PROVE IInv
<1>1. TypeOK
  <2>1. outcomes \in Seq([session : 1..session, result : {"clean", "killed", "crashed"}])
    BY DEF Init
  <2>2. /\ session \in 0..MaxSessions /\ calls \in 0..MaxCalls
        /\ pidfile \in 0..session /\ default \in 0..session /\ answered \in 0..session
        /\ proc \in {None, session}
    BY BoundsAssumption DEF Init, None
  <2>3. /\ asked \in [Sessions -> SUBSET {"stop", "kill"}]
        /\ server \in [Sessions -> {"unborn", "booting", "up", "stopping"} \cup Exits]
        /\ code \in [Sessions -> {"none"} \cup Exits]
    BY DEF Init
  <2> QED BY <2>1, <2>2, <2>3 DEF Init, TypeOK, Deadlines
<1>2. /\ Lifecycles /\ Untouched /\ Requested /\ Ordered /\ Accounted /\ Truthful
      /\ WithinBound /\ NoServerLeftBehind /\ AnsweredByOurs /\ DefaultBetweenCalls
  BY DEF Init, Lifecycles, Untouched, Requested, Ordered, Accounted, Truthful,
         WithinBound, NoServerLeftBehind, AnsweredByOurs, DefaultBetweenCalls,
         Alive, None
<1> QED BY <1>1, <1>2 DEF IInv

LEMMA StutterHolds == ASSUME IInv, UNCHANGED vars PROVE IInv'
<1>1. TypeOK'
  BY DEF IInv, TypeOK, vars, harness, processes
<1>2. /\ Lifecycles' /\ Untouched' /\ Requested' /\ Ordered' /\ Accounted' /\ Truthful'
      /\ WithinBound' /\ NoServerLeftBehind' /\ AnsweredByOurs' /\ DefaultBetweenCalls'
  BY DEF IInv, Lifecycles, Untouched, Requested, Ordered, Accounted, Truthful,
         WithinBound, NoServerLeftBehind, AnsweredByOurs, DefaultBetweenCalls,
         Alive, vars, harness, processes
<1> QED BY <1>1, <1>2 DEF IInv

\* IInv is inductive: it holds of every state of every set-up, whatever the
\* servers and the tools do.
THEOREM InductiveInvariant == Spec => []IInv
<1>1. IInv /\ [Next]_vars => IInv'
  <2> SUFFICES ASSUME IInv, [Next]_vars PROVE IInv'
    OBVIOUS
  <2>1. CASE UNCHANGED vars
    BY <2>1, StutterHolds
  <2>2. ASSUME NEW o \in Ops(config), Call(o) PROVE IInv'
    BY <2>2, CallStep
  <2>3. CASE Connect \/ Close \/ Check
    BY <2>3, ConnectStep, CloseStep, CheckStep
  <2>4. CASE AlreadyStarted \/ Spawn \/ SpawnFails
    BY <2>4, AlreadyStartedStep, SpawnStep, SpawnFailsStep
  <2>5. CASE Ready \/ NotReady \/ StillRuns \/ ServerExited \/ NotReadyInTime
    BY <2>5, ReadyStep, NotReadyStep, StillRunsStep, ServerExitedStep, NotReadyInTimeStep
  <2>6. CASE AskToStop \/ RefuseMode \/ Kill \/ KillFails \/ Reap \/ ReapByForce
    BY <2>6, AskToStopStep, RefuseModeStep, KillStep, KillFailsStep, ReapStep,
       ReapByForceStep
  <2>7. ASSUME NEW d \in Deadlines, Expire(d) PROVE IInv'
    BY <2>7, ExpireStep
  <2>8. ASSUME NEW s \in Sessions, Process(s) PROVE IInv'
    BY <2>8, WritePidStep, ComeUpStep, FailToStartStep, CrashStep, ShutDownStep,
       ToolEndsStep DEF Process
  <2> QED BY <2>1, <2>2, <2>3, <2>4, <2>5, <2>6, <2>7, <2>8 DEF Next, Proceed
<1> QED BY <1>1, InitHolds, PTL DEF Spec

\* Every variable of the harness and of the processes keeps to its range.
THEOREM TypeCorrect == Spec => []TypeOK
<1>1. IInv => TypeOK
  BY DEF IInv
<1> QED BY <1>1, InductiveInvariant, PTL

\* _reap() writes one line for every session, in order, and none is lost: what
\* was launched is recorded or still held, and a node that closes on a handle
\* does so only because its server had ended on its own.
THEOREM SessionsRecorded == Spec => []SessionsAccounted
<1>1. IInv => SessionsAccounted
  <2> SUFFICES ASSUME IInv PROVE SessionsAccounted
    OBVIOUS
  <2>1. proc # None => proc = session
    BY HeldSession DEF IInv
  <2>2. \A i \in DOMAIN outcomes : outcomes[i].session \in Nat /\ outcomes[i].session # 0
    BY OutcomeTypes DEF IInv
  <2>3. \A i \in DOMAIN outcomes : outcomes[i].session # proc
    BY <2>1, <2>2, OutcomeTypes DEF IInv, Ordered, None
  <2>4. ASSUME NEW s \in Sessions, server[s] # "unborn" PROVE (s \in Recorded) # (s = proc)
    <3>1. s = proc \/ \E i \in DOMAIN outcomes : outcomes[i].session = s
      BY <2>4 DEF IInv, Accounted
    <3>2. s \in Recorded <=> \E i \in DOMAIN outcomes : outcomes[i].session = s
      BY DEF Recorded
    <3> QED BY <2>3, <3>1, <3>2
  <2> QED BY <2>4 DEF SessionsAccounted, IInv, Ordered, Accounted
<1> QED BY <1>1, InductiveInvariant, PTL

\* The outcome file tells the truth: a server that ended on its own and was not
\* killed is never "clean" or "killed", and neither is written unasked.
THEOREM OutcomesCorrect == Spec => []OutcomesTruthful
<1>1. IInv => OutcomesTruthful
  <2> SUFFICES ASSUME IInv, NEW i \in DOMAIN outcomes
      PROVE  LET s == outcomes[i].session
                 r == outcomes[i].result
             IN  /\ s \in died /\ "kill" \notin asked[s] => r = "crashed"
                 /\ r = "clean" => s \notin died /\ "stop" \in asked[s]
                 /\ r = "killed" => "kill" \in asked[s]
    BY DEF OutcomesTruthful
  <2>1. outcomes[i].session \in Sessions
    BY OutcomeTypes, BoundsAssumption DEF IInv, Sessions
  <2>2. outcomes[i].result \in {"clean", "killed", "crashed"}
    <3>1. outcomes \in Seq([session : 1..session, result : {"clean", "killed", "crashed"}])
      BY DEF IInv, TypeOK
    <3>2. ASSUME NEW S, NEW q \in Seq(S), NEW j \in DOMAIN q PROVE q[j] \in S
      BY <3>2
    <3>3. outcomes[i] \in [session : 1..session, result : {"clean", "killed", "crashed"}]
      BY <3>1, <3>2
    <3> QED BY <3>3
  <2>3. outcomes[i].session \in died => server[outcomes[i].session] # "exited"
    BY <2>1 DEF IInv, Lifecycles
  <2> QED BY <2>2, <2>3 DEF IInv, Truthful
<1> QED BY <1>1, InductiveInvariant, PTL

\* stop(), kill(), restart() and the ends of the contexts leave no server
\* running that they do not know of, but for one whose tracer was killed.
THEOREM NothingLeftBehind == Spec => []NoServerLeftBehind
<1>1. IInv => NoServerLeftBehind
  BY DEF IInv
<1> QED BY <1>1, InductiveInvariant, PTL

\* wait_ready() and the default connection were answered by the server of the
\* current session, but for one whose tracer was killed.
THEOREM AnswersCorrect == Spec => []AnsweredByOurs
<1>1. IInv => AnsweredByOurs
  BY DEF IInv
<1> QED BY <1>1, InductiveInvariant, PTL
===============================================================================

---------------------------- MODULE RandomWorker ----------------------------
(***************************************************************************)
(* A RandomWorker (core/src/workload.cpp): the thread that draws actions   *)
(* from its registry until its time is over, its connection with the       *)
(* observations it collects (core/src/sql_variant/generic.cpp), and its    *)
(* statistics (core/src/statistics.cpp).                                   *)
(*                                                                         *)
(* The scenario's thread owns the worker.  It starts and joins the thread, *)
(* runs utility queries on the connection in between, and may edit the     *)
(* registry (possible_actions()) at any time.  The server drops            *)
(* connections, or is down for a while.                                    *)
(*                                                                         *)
(* What an action does is the subject of Ddl and TransactionAction.  Here  *)
(* an action executes some statements, may record a transaction's outcome, *)
(* and ends in one of the ways the loop distinguishes.  An exception that  *)
(* leaves the thread's function ends the process: thread = "terminated".   *)
(***************************************************************************)
EXTENDS ActionRegistry, Functions

CONSTANTS Names,             \* of actions
          Weights,           \* the weights an edit may set
          Registry,          \* the worker's copy of the scenario's registry
          Replacement,       \* what use() may replace it with
          MaxReconnects,     \* WorkloadParams::max_reconnect_attempts
          ConnectorQueries,  \* does the connector query what it connected?
          Edits,             \* may the scenario edit the registry?
          Outages,           \* may the server be down for a while?
          StartTwice,        \* may run_thread() be called on a running worker?
          MaxActions, MaxStatements, MaxLosses, MaxEdits, MaxRuns  \* bounds

Untagged == ""
Tags     == Names \cup {Untagged}

ASSUME RegistryAssumption ==
  /\ Untagged \notin Names
  /\ Weights \subseteq Nat
  /\ Registry \in Seq([name : Names, weight : Nat]) /\ Registry # << >>
  /\ Replacement \in Seq([name : Names, weight : Nat]) /\ Replacement # << >>
  /\ \A reg \in {Registry, Replacement} :
       \A i, j \in DOMAIN reg : reg[i].name = reg[j].name => i = j

ASSUME BoundsAssumption ==
  /\ MaxReconnects \in Nat
  /\ {ConnectorQueries, Edits, Outages, StartTwice} \subseteq BOOLEAN
  /\ {MaxActions, MaxStatements, MaxLosses, MaxEdits, MaxRuns} \subseteq Nat

VARIABLES registry,   \* the worker's actions
          copying,    \* use() assigns them, without the lock
          serverUp,
          conn,       \* sql_conn: alive, its currentAction_ and what it holds
          thread,     \* where the worker's thread is
          offset,     \* the drawn weight offset
          action,     \* the drawn action
          steps,      \* the statements it executed
          attempts,   \* connectionAttempts
          expired,    \* the duration has passed
          stats,      \* the worker's statistics
          made,       \* history: what there is to count since the last reset
          provoked,   \* history: what the scenario did that may end the process:
                      \* "edit", "use", "restart"
          runs, edits, losses   \* counters of the bounds

workerVars == <<offset, action, steps, attempts>>
bounds == <<runs, edits, losses>>
vars == <<registry, copying, serverUp, conn, thread, workerVars, expired,
          stats, made, provoked, bounds>>

-----------------------------------------------------------------------------
(* The connection's observations and the statistics. *)

NoRows == [t \in Tags |-> 0]

\* begun: the actions whose start time is known.
NoStats == [begun |-> {}, results |-> NoRows, rows |-> NoRows, txns |-> 0]

Count(obs, tag) == Cardinality({i \in DOMAIN obs : obs[i] = tag})

\* A connector may query the connection it has just made: a row observation
\* of no action.
Fresh == [alive |-> TRUE, current |-> Untagged, txns |-> 0,
          obs |-> IF ConnectorQueries THEN <<Untagged>> ELSE << >>]

Cleared(c) == [c EXCEPT !.obs = << >>, !.txns = 0]

Recorded(s, c) ==
  [s EXCEPT !.rows = [t \in Tags |-> @[t] + Count(c.obs, t)],
            !.txns = @ + c.txns]

\* drainIntoStats.
Drained == /\ stats' = Recorded(stats, conn)
           /\ conn' = Cleared(conn)

Init ==
  /\ registry = Registry /\ copying = FALSE /\ serverUp = TRUE
  /\ conn = Fresh
  /\ thread = "none"
  /\ offset = 0 /\ action = Untagged /\ steps = 0 /\ attempts = 0
  /\ expired = FALSE
  /\ stats = NoStats /\ made = NoStats /\ provoked = {}
  /\ runs = 0 /\ edits = 0 /\ losses = 0

Alive == thread # "terminated"

\* thread.joinable()
Joinable == Alive /\ thread # "none"

Running == Joinable /\ thread # "finished"

-----------------------------------------------------------------------------
(* The scenario's thread, between two runs of the worker's thread. *)

\* run_thread on a worker without a thread.
RunThread ==
  /\ thread = "none" /\ runs < MaxRuns /\ ~copying
  /\ thread' = "begin" /\ runs' = runs + 1
  /\ stats' = NoStats /\ made' = NoStats
  /\ UNCHANGED <<registry, copying, serverUp, conn, workerVars, expired,
                 provoked, edits, losses>>

\* What a run's actions have made and the statistics do not have yet.
Pending ==
  LET c == IF Running /\ thread # "begin" THEN conn ELSE Cleared(conn) IN
  [NoStats EXCEPT
     !.rows = [t \in Tags |-> Count(c.obs, t)],
     !.txns = c.txns,
     !.results = [NoRows EXCEPT ![action] = IF thread = "run" THEN 1 ELSE 0]]

\* run_thread on a worker with a thread resets the statistics, then refuses.
RunThreadAgain ==
  /\ StartTwice /\ Joinable /\ runs < MaxRuns /\ ~copying
  /\ runs' = runs + 1
  /\ stats' = NoStats /\ made' = Pending
  /\ provoked' = provoked \cup {"restart"}
  /\ UNCHANGED <<registry, copying, serverUp, conn, thread, workerVars,
                 expired, edits, losses>>

\* join() waits for the thread; its locals and its clock are gone.
Join ==
  /\ thread = "finished" /\ ~copying
  /\ thread' = "none"
  /\ attempts' = 0 /\ expired' = FALSE
  /\ UNCHANGED <<registry, copying, serverUp, conn, offset, action, steps,
                 stats, made, provoked, bounds>>

\* A query of the scenario: create_random_tables(), validate_metadata(), ...
\* At most one is on the connection in this model.
Utility ==
  /\ thread = "none" /\ conn.alive /\ conn.obs = << >> /\ ~copying
  /\ conn' = [conn EXCEPT !.obs = <<conn.current>>]
  /\ UNCHANGED <<registry, copying, serverUp, thread, workerVars, expired,
                 stats, made, provoked, bounds>>

\* Worker::reconnect() called by the scenario; it throws when the server is
\* down, and changes nothing.
ReconnectBetweenRuns ==
  /\ thread = "none" /\ serverUp /\ ~copying
  /\ conn' = Fresh
  /\ UNCHANGED <<registry, copying, serverUp, thread, workerVars, expired,
                 stats, made, provoked, bounds>>

\* An edit between the draw of an offset and its lookup, or of the last
\* action, may leave the offset out of range.
Edit(reg) ==
  /\ Edits /\ Alive /\ edits < MaxEdits /\ ~copying
  /\ registry' = reg
  /\ provoked' = IF thread = "lookup" \/ reg = << >> THEN provoked \cup {"edit"}
                 ELSE provoked
  /\ edits' = edits + 1
  /\ UNCHANGED <<copying, serverUp, conn, thread, workerVars, expired, stats,
                 made, runs, losses>>

Insert(name, weight) ==
  ~Has(registry, name) /\ Edit(Inserted(registry, Factory(name, weight)))

Remove(name) == Has(registry, name) /\ Edit(Removed(registry, name))

SetWeight(name, weight) ==
  Has(registry, name) /\ Edit(Reweighted(registry, name, weight))

\* use() assigns vector to vector and takes neither lock.
UseBegin ==
  /\ Edits /\ Alive /\ edits < MaxEdits /\ ~copying
  /\ copying' = TRUE /\ edits' = edits + 1
  /\ UNCHANGED <<registry, serverUp, conn, thread, workerVars, expired, stats,
                 made, provoked, runs, losses>>

\* An offset drawn before may be out of range.
UseEnd ==
  /\ copying /\ Alive
  /\ copying' = FALSE /\ registry' = Replacement
  /\ provoked' = IF thread = "lookup" THEN provoked \cup {"use"} ELSE provoked
  /\ UNCHANGED <<serverUp, conn, thread, workerVars, expired, stats, made,
                 bounds>>

-----------------------------------------------------------------------------
(* The environment: the clock and the server. *)

Expire ==
  /\ Running /\ ~expired
  /\ expired' = TRUE
  /\ UNCHANGED <<registry, copying, serverUp, conn, thread, workerVars, stats,
                 made, provoked, bounds>>

\* The server drops the connection, and accepts a new one at once.
LoseConnection ==
  /\ Alive /\ conn.alive /\ losses < MaxLosses
  /\ conn' = [conn EXCEPT !.alive = FALSE]
  /\ losses' = losses + 1
  /\ UNCHANGED <<registry, copying, serverUp, thread, workerVars, expired,
                 stats, made, provoked, runs, edits>>

StopServer ==
  /\ Outages /\ Alive /\ serverUp /\ losses < MaxLosses
  /\ serverUp' = FALSE /\ conn' = [conn EXCEPT !.alive = FALSE]
  /\ losses' = losses + 1
  /\ UNCHANGED <<registry, copying, thread, workerVars, expired, stats, made,
                 provoked, runs, edits>>

StartServer ==
  /\ ~serverUp /\ Alive
  /\ serverUp' = TRUE
  /\ UNCHANGED <<registry, copying, conn, thread, workerVars, expired, stats,
                 made, provoked, bounds>>

-----------------------------------------------------------------------------
(* The worker's thread. *)

At(place)   == thread = place
Goto(place) == thread' = place

\* The connection as the loop finds it.
Forgotten(c) == Cleared(c)

Begin ==
  /\ At("begin") /\ Goto("draw")
  /\ conn' = Forgotten(conn)
  /\ UNCHANGED <<registry, copying, serverUp, workerVars, expired, stats, made,
                 provoked, bounds>>

\* Mutant of TimeIsUp: the loop does not look at the clock.
NeverUp == FALSE

TimeIsUp == expired

\* Mutant of Offsets: one too many.
OffsetsAndOne == 0 .. TotalWeight(registry) + 1

\* Both bounds are included.
Offsets == 0 .. TotalWeight(registry)

\* The loop's condition and the draw of an offset.
Draw ==
  /\ At("draw")
  /\ IF TimeIsUp
     THEN Goto("epilogue") /\ UNCHANGED offset
     ELSE /\ SumFunction(made.results) < MaxActions
          /\ offset' \in Offsets
          /\ Goto("lookup")
  /\ UNCHANGED <<registry, copying, serverUp, conn, action, steps, attempts,
                 expired, stats, made, provoked, bounds>>

\* The lookup is outside the try block.
FindAction ==
  /\ At("lookup")
  /\ IF InRange(registry, offset)
     THEN LET name == Lookup(registry, offset).name IN
          /\ action' = name
          /\ stats' = [stats EXCEPT !.begun = @ \cup {name}]
          /\ made' = [made EXCEPT !.results[name] = @ + 1]
          /\ conn' = [conn EXCEPT !.current = name]
          /\ Goto("run")
     ELSE Goto("terminated") /\ UNCHANGED <<conn, action, stats, made>>
  /\ offset' = 0
  /\ UNCHANGED <<registry, copying, serverUp, steps, attempts, expired,
                 provoked, bounds>>

\* totalWeight() or the lookup reads the vector while use() assigns it.  That is
\* undefined: it finds what was there before (Draw, FindAction), what comes (the
\* same after UseEnd), or the process ends.
TornRead ==
  /\ At("draw") \/ At("lookup")
  /\ copying
  /\ Goto("terminated")
  /\ provoked' = provoked \cup {"use"}
  /\ offset' = 0
  /\ UNCHANGED <<registry, copying, serverUp, conn, action, steps, attempts,
                 expired, stats, made, bounds>>

\* A statement that returns rows or a number of rows.  A sub-action runs under
\* its own name for a while (ActionNameScope).
Statement ==
  /\ At("run") /\ conn.alive /\ steps < MaxStatements
  /\ \E tag \in Names :
       /\ conn' = [conn EXCEPT !.obs = Append(@, tag)]
       /\ made' = [made EXCEPT !.rows[tag] = @ + 1]
  /\ steps' = steps + 1
  /\ UNCHANGED <<registry, copying, serverUp, thread, offset, action, attempts,
                 expired, stats, provoked, bounds>>

\* An action ends with a result that the loop only counts (success, or an
\* ActionException, an SqlException, another exception), or with an
\* SqlException of a lost connection.
Outcomes == {"counted"} \cup (IF conn.alive THEN {} ELSE {"gone"})

\* record..() refuses, by an exception that no handler is left for, when the
\* start of the action is not known.
Finish ==
  /\ At("run")
  /\ \E outcome \in Outcomes, txns \in 0 .. 1 :
       /\ conn' = [conn EXCEPT !.txns = @ + txns]
       /\ made' = [made EXCEPT !.txns = @ + txns]
       /\ IF action \in stats.begun
          THEN /\ stats' = [stats EXCEPT !.results[action] = @ + 1]
               /\ Goto(IF outcome = "gone" THEN "gone" ELSE "drain")
          ELSE Goto("terminated") /\ UNCHANGED stats
  /\ action' = Untagged /\ steps' = 0
  /\ UNCHANGED <<registry, copying, serverUp, offset, attempts, expired,
                 provoked, bounds>>

MayReconnect(n) == n <= MaxReconnects

\* Mutant of DrainOfLost: the observations are left to the connection.
DrainNothing == UNCHANGED <<stats, conn>>

\* The connection is about to be replaced, or the loop to be left.
DrainOfLost == Drained

HandleGone ==
  /\ At("gone")
  /\ attempts' = attempts + 1
  /\ DrainOfLost
  /\ Goto(IF MayReconnect(attempts') THEN "reconnect" ELSE "epilogue")
  /\ UNCHANGED <<registry, copying, serverUp, offset, action, steps, expired,
                 made, provoked, bounds>>

\* The connector throws when the server is down, out of the handler.
Reconnect ==
  /\ At("reconnect")
  /\ IF serverUp
     THEN /\ conn' = Fresh
          /\ made' = [made EXCEPT !.rows[Untagged] = @ + Count(Fresh.obs, Untagged)]
          /\ Goto("drain")
     ELSE Goto("terminated") /\ UNCHANGED <<conn, made>>
  /\ UNCHANGED <<registry, copying, serverUp, workerVars, expired, stats,
                 provoked, bounds>>

Drain ==
  /\ At("drain") /\ Goto("draw")
  /\ Drained
  /\ UNCHANGED <<registry, copying, serverUp, workerVars, expired, made,
                 provoked, bounds>>

\* Mutant of Released: the last action's name stays on the connection.
StillTagged(c) == Cleared(c)

Released(c) == [Cleared(c) EXCEPT !.current = Untagged]

Epilogue ==
  /\ At("epilogue") /\ Goto("finished")
  /\ conn' = Released(conn)
  /\ UNCHANGED <<registry, copying, serverUp, workerVars, expired, stats, made,
                 provoked, bounds>>

ThreadStep == Begin \/ Draw \/ FindAction \/ TornRead \/ Finish \/ HandleGone
                \/ Reconnect \/ Drain \/ Epilogue

Next ==
  \/ ThreadStep \/ Statement
  \/ RunThread \/ RunThreadAgain \/ Join \/ Utility \/ ReconnectBetweenRuns
  \/ \E name \in Names : \/ Remove(name)
                         \/ \E weight \in Weights :
                              Insert(name, weight) \/ SetWeight(name, weight)
  \/ UseBegin \/ UseEnd
  \/ Expire \/ LoseConnection \/ StopServer \/ StartServer

\* The operating system runs the thread, every statement of an action returns,
\* and time passes.
Spec == Init /\ [][Next]_vars /\ WF_vars(ThreadStep) /\ WF_vars(Expire)

-----------------------------------------------------------------------------
(* Properties. *)

\* Types, and the registry's names stay distinct.
TypeOK ==
  /\ registry \in Seq([name : Names, weight : Nat])
  /\ \A i, j \in DOMAIN registry : registry[i].name = registry[j].name => i = j
  /\ conn.alive => serverUp
  /\ conn.current \in Tags
  /\ \A i \in DOMAIN conn.obs : conn.obs[i] \in Tags
  /\ thread \in {"none", "begin", "draw", "lookup", "run", "gone", "reconnect",
                 "drain", "epilogue", "finished", "terminated"}
  /\ thread = "run" <=> action \in Names
  /\ offset \in Nat /\ steps \in 0 .. MaxStatements
  /\ attempts \in 0 .. MaxReconnects + 1
  /\ {expired, copying} \subseteq BOOLEAN
  /\ provoked \subseteq {"edit", "use", "restart"}

\* Everything a run's actions did is in the statistics or on its way there,
\* once: every result, every row observation under the tag it was made with,
\* every transaction's outcome, across lost connections, reconnects and the
\* way out of the loop; and no query of the scenario is (workload.cpp:165-176,
\* 231-238, 248).  A connector's own query counts after a reconnect, as a row
\* of no action.
StatsComplete ==
  Alive =>
    /\ \A t \in Tags : stats.rows[t] + Pending.rows[t] = made.rows[t]
    /\ stats.txns + Pending.txns = made.txns
    /\ \A t \in Tags : stats.results[t] + Pending.results[t] = made.results[t]

\* A query of the scenario is never observed under the name of an action that
\* ran before it (workload.cpp:254-257).
UtilityUntagged ==
  thread = "none" => \A i \in DOMAIN conn.obs : conn.obs[i] = Untagged

\* A run that ends before its time has used up its reconnects: "the only clean
\* mid-run exit is reconnect exhaustion" (scenarios/ci/determinism.py:58-59).
CleanExit ==
  thread = "finished" /\ ~expired => attempts > MaxReconnects

\* What ends the process: an edit of the registry between a draw and its lookup
\* or of the last action, use() during or between the two, a reconnect while the
\* server is down, or run_thread() on a running worker.
CrashesHaveCause == thread = "terminated" => ~serverUp \/ provoked # {}

\* Nothing else ends a run before its time, or the process.
EndsHaveCause == CleanExit /\ CrashesHaveCause

\* Of the offsets the loop may draw, an action gets as many as its weight, the
\* first one more: none is out of range, none belongs to no one
\* (action_registry.cpp, lookupByWeightOffset, for every registry an edit of
\* the scenario may produce).
WeightsRespected ==
  \A i \in DOMAIN registry :
    Cardinality({w \in 0 .. TotalWeight(registry) :
                   InRange(registry, w) /\ Lookup(registry, w) = registry[i]})
      = registry[i].weight + (IF i = 1 THEN 1 ELSE 0)

\* A run ends: join() does not wait forever.
RunEnds == Running ~> ~Running

\* "registries can be modified while the worker runs"
\* (scenarios/demo/basic.py:84), and "mid-cycle restarts would be survived
\* too" (scenarios/demo/basic.py:88-89): no such thing ends the process.
Survives == thread # "terminated"
=============================================================================

------------------------ MODULE RandomWorker_proofs -------------------------
(***************************************************************************)
(* Proofs about RandomWorker: for every registry, every bound and every    *)
(* behaviour of the scenario and the server, what may end the process and  *)
(* what may end a run early.                                               *)
(***************************************************************************)
EXTENDS RandomWorker, FiniteSetTheorems, SequenceTheorems,
        WellFoundedInduction, TLAPS

\* The crash argument: a drawn offset is in range unless an edit came between,
\* and a running action is begun unless the statistics were reset under it.
DrawnInRange ==
  thread = "lookup" =>
    offset \in Offsets \/ "edit" \in provoked \/ "use" \in provoked

NeverEmptied == registry = << >> => "edit" \in provoked

Begun == thread = "run" => action \in stats.begun \/ "restart" \in provoked

CrashInv ==
  /\ registry \in Seq([name : Names, weight : Nat])
  /\ stats = [begun |-> stats.begun, results |-> stats.results,
              rows |-> stats.rows, txns |-> stats.txns]
  /\ DrawnInRange /\ NeverEmptied /\ Begun /\ CrashesHaveCause

\* The exit argument: a thread past its loop ran out of time or reconnects.
ExitInv ==
  /\ attempts \in Nat
  /\ thread \in {"epilogue", "finished"} => expired \/ attempts > MaxReconnects

\* Where an offset that may be drawn falls: the last factory reaches it.
LEMMA OffsetInRange ==
  ASSUME NEW reg \in Seq([name : Names, weight : Nat]), reg # << >>,
         NEW w \in 0 .. TotalWeight(reg)
  PROVE  InRange(reg, w)
<1>1. Len(reg) \in DOMAIN reg
  OBVIOUS
<1>2. Accumulated(reg, Len(reg)) >= w
  BY DEF TotalWeight
<1>3. QED
  BY <1>1, <1>2 DEF InRange, Reaching

\* A sequence without one of its elements.
LEMMA SubSeqsTyped ==
  ASSUME NEW S, NEW s \in Seq(S), NEW i \in 1 .. Len(s)
  PROVE  /\ SubSeq(s, 1, i - 1) \in Seq(S)
         /\ SubSeq(s, i + 1, Len(s)) \in Seq(S)
<1>1. \A k \in 1 .. i - 1 : s[k] \in S
  OBVIOUS
<1>2. \A k \in i + 1 .. Len(s) : s[k] \in S
  OBVIOUS
<1>3. SubSeq(s, 1, i - 1) \in Seq(S)
  BY <1>1, SubSeqProperties
<1>4. SubSeq(s, i + 1, Len(s)) \in Seq(S)
  BY <1>2, SubSeqProperties
<1>5. QED
  BY <1>3, <1>4

LEMMA RemovedTyped ==
  ASSUME registry \in Seq([name : Names, weight : Nat]),
         NEW name \in Names, Has(registry, name)
  PROVE  Removed(registry, name) \in Seq([name : Names, weight : Nat])
<1>1. PICK i \in DOMAIN registry :
        Removed(registry, name)
          = SubSeq(registry, 1, i - 1) \o SubSeq(registry, i + 1, Len(registry))
  BY Zenon DEF Removed, Has
<1>2. i \in 1 .. Len(registry)
  OBVIOUS
<1>3. /\ SubSeq(registry, 1, i - 1) \in Seq([name : Names, weight : Nat])
      /\ SubSeq(registry, i + 1, Len(registry))
           \in Seq([name : Names, weight : Nat])
  BY <1>2, SubSeqsTyped
<1>4. QED
  BY <1>1, <1>3

LEMMA InsertedTyped ==
  ASSUME registry \in Seq([name : Names, weight : Nat]),
         NEW name \in Names, NEW weight \in Nat
  PROVE  Inserted(registry, Factory(name, weight))
           \in Seq([name : Names, weight : Nat])
BY DEF Inserted, Factory

LEMMA ReweightedTyped ==
  ASSUME registry \in Seq([name : Names, weight : Nat]),
         NEW name \in Names, NEW weight \in Nat
  PROVE  Reweighted(registry, name, weight)
           \in Seq([name : Names, weight : Nat])
<1>1. Factory(name, weight) \in [name : Names, weight : Nat]
  BY DEF Factory
<1>2. QED
  BY <1>1 DEF Reweighted

-----------------------------------------------------------------------------
(* What may end the process. *)

LEMMA CrashInit == Init => CrashInv
BY RegistryAssumption DEF Init, NoStats, CrashInv, DrawnInRange, NeverEmptied,
   Begun, CrashesHaveCause

\* An edit between a draw and its lookup, or one that leaves no action, is
\* remembered; any other keeps what was drawn in range.
LEMMA CrashEdit ==
  ASSUME CrashInv, NEW reg \in Seq([name : Names, weight : Nat]), Edit(reg)
  PROVE  CrashInv'
<1>1. /\ registry' = reg /\ UNCHANGED <<thread, offset, action, stats, serverUp>>
      /\ Alive
  BY DEF Edit, workerVars, Alive
<1>2. provoked' = IF thread = "lookup" \/ reg = << >> THEN provoked \cup {"edit"}
                  ELSE provoked
  BY DEF Edit
<1>3. DrawnInRange'
  BY <1>1, <1>2 DEF DrawnInRange
<1>4. NeverEmptied' /\ Begun' /\ CrashesHaveCause'
  BY <1>1, <1>2 DEF CrashInv, NeverEmptied, Begun, CrashesHaveCause, Alive
<1>5. QED
  BY <1>1, <1>3, <1>4 DEF CrashInv

LEMMA CrashStep == CrashInv /\ [Next]_vars => CrashInv'
<1> SUFFICES ASSUME CrashInv, [Next]_vars
             PROVE  CrashInv'
  OBVIOUS
<1> USE DEF CrashInv, Offsets, Goto, At
<1>1. CASE Begin
  BY <1>1 DEF Begin, workerVars, bounds, DrawnInRange, NeverEmptied, Begun,
     CrashesHaveCause
<1>2. CASE Draw
  BY <1>2 DEF Draw, workerVars, bounds, DrawnInRange, NeverEmptied, Begun,
     CrashesHaveCause
<1>3. CASE FindAction
  <2>1. CASE InRange(registry, offset)
    BY <1>3, <2>1 DEF FindAction, bounds, DrawnInRange, NeverEmptied, Begun,
       CrashesHaveCause
  <2>2. CASE ~InRange(registry, offset)
    <3>1. provoked # {}
      BY <1>3, <2>2, OffsetInRange DEF FindAction, DrawnInRange, NeverEmptied
    <3>2. QED
      BY <1>3, <2>2, <3>1 DEF FindAction, bounds, DrawnInRange, NeverEmptied,
         Begun, CrashesHaveCause
  <2>3. QED
    BY <2>1, <2>2
<1>4. CASE Finish
  BY <1>4 DEF Finish, bounds, DrawnInRange, NeverEmptied, Begun,
     CrashesHaveCause
<1>5. CASE HandleGone
  BY <1>5 DEF HandleGone, DrainOfLost, Drained, Recorded, bounds, DrawnInRange,
     NeverEmptied, Begun, CrashesHaveCause
<1>6. CASE Reconnect
  BY <1>6 DEF Reconnect, workerVars, bounds, DrawnInRange, NeverEmptied, Begun,
     CrashesHaveCause
<1>7. CASE Drain
  BY <1>7 DEF Drain, Drained, Recorded, workerVars, bounds, DrawnInRange,
     NeverEmptied, Begun, CrashesHaveCause
<1>8. CASE Epilogue
  BY <1>8 DEF Epilogue, workerVars, bounds, DrawnInRange, NeverEmptied, Begun,
     CrashesHaveCause
<1>9. CASE Statement
  BY <1>9 DEF Statement, bounds, DrawnInRange, NeverEmptied, Begun,
     CrashesHaveCause
<1>10. CASE RunThread
  BY <1>10 DEF RunThread, NoStats, workerVars, DrawnInRange, NeverEmptied,
     Begun, CrashesHaveCause
<1>11. CASE RunThreadAgain
  BY <1>11 DEF RunThreadAgain, NoStats, workerVars, DrawnInRange, NeverEmptied,
     Begun, CrashesHaveCause
<1>12. CASE Join
  BY <1>12 DEF Join, bounds, DrawnInRange, NeverEmptied, Begun,
     CrashesHaveCause
<1>13. CASE Utility
  BY <1>13 DEF Utility, workerVars, bounds, DrawnInRange, NeverEmptied, Begun,
     CrashesHaveCause
<1>14. CASE ReconnectBetweenRuns
  BY <1>14 DEF ReconnectBetweenRuns, workerVars, bounds, DrawnInRange,
     NeverEmptied, Begun, CrashesHaveCause
<1>15. ASSUME NEW name \in Names,
              \/ Remove(name)
              \/ \E weight \in Weights :
                   Insert(name, weight) \/ SetWeight(name, weight)
       PROVE  CrashInv'
  <2>1. CASE Remove(name)
    BY <2>1, RemovedTyped, CrashEdit DEF Remove
  <2>2. ASSUME NEW weight \in Weights, Insert(name, weight)
        PROVE  CrashInv'
    BY <2>2, InsertedTyped, RegistryAssumption, CrashEdit DEF Insert
  <2>3. ASSUME NEW weight \in Weights, SetWeight(name, weight)
        PROVE  CrashInv'
    BY <2>3, ReweightedTyped, RegistryAssumption, CrashEdit DEF SetWeight
  <2>4. QED
    BY <1>15, <2>1, <2>2, <2>3
<1>16. CASE Expire
  BY <1>16 DEF Expire, workerVars, bounds, DrawnInRange, NeverEmptied, Begun,
     CrashesHaveCause
<1>17. CASE LoseConnection
  BY <1>17 DEF LoseConnection, workerVars, DrawnInRange, NeverEmptied, Begun,
     CrashesHaveCause
<1>18. CASE StopServer
  BY <1>18 DEF StopServer, workerVars, DrawnInRange, NeverEmptied, Begun,
     CrashesHaveCause
<1>19. CASE StartServer
  BY <1>19 DEF StartServer, Alive, workerVars, bounds, DrawnInRange,
     NeverEmptied, Begun, CrashesHaveCause
<1>20. CASE UNCHANGED vars
  BY <1>20 DEF vars, workerVars, bounds, DrawnInRange, NeverEmptied, Begun,
     CrashesHaveCause
<1>21. CASE UseBegin
  BY <1>21 DEF UseBegin, workerVars, DrawnInRange, NeverEmptied, Begun,
     CrashesHaveCause
<1>22. CASE UseEnd
  BY <1>22, RegistryAssumption DEF UseEnd, Alive, workerVars, bounds,
     DrawnInRange, NeverEmptied, Begun, CrashesHaveCause
<1>23. CASE TornRead
  BY <1>23 DEF TornRead, bounds, DrawnInRange, NeverEmptied, Begun,
     CrashesHaveCause
<1>24. QED
  BY <1>1, <1>2, <1>3, <1>4, <1>5, <1>6, <1>7, <1>8, <1>9, <1>10, <1>11,
     <1>12, <1>13, <1>14, <1>15, <1>16, <1>17, <1>18, <1>19, <1>20, <1>21,
     <1>22, <1>23
     DEF Next, ThreadStep

\* Only an edit between a draw and its lookup or of the last action, use() during
\* or between the two, a server that is down when a worker reconnects, and a
\* second run_thread() end the process (workload.cpp:152-262).
THEOREM OnlyKnownCrashes == Spec => []CrashesHaveCause
<1>1. CrashInv => CrashesHaveCause
  BY DEF CrashInv
<1>2. QED
  BY CrashInit, CrashStep, <1>1, PTL DEF Spec

-----------------------------------------------------------------------------
(* What may end a run early. *)

\* A run that ends before its time has used up its reconnects, whatever
\* happens to the server and the registry (workload.cpp:183-251).
THEOREM RunsExitCleanly == Spec => []CleanExit
<1> USE DEF ExitInv, Goto, At
<1>1. Init => ExitInv
  BY DEF Init
<1>2. ExitInv /\ [Next]_vars => ExitInv'
  <2> SUFFICES ASSUME ExitInv, [Next]_vars
               PROVE  ExitInv'
    OBVIOUS
  <2>1. CASE Draw
    BY <2>1 DEF Draw, TimeIsUp
  <2>2. CASE HandleGone
    <3>1. attempts' = attempts + 1 /\ MaxReconnects \in Nat
      BY <2>2, BoundsAssumption DEF HandleGone
    <3>2. thread' = IF attempts + 1 <= MaxReconnects THEN "reconnect"
                    ELSE "epilogue"
      BY <2>2, <3>1 DEF HandleGone, MayReconnect
    <3>3. QED
      BY <3>1, <3>2
  <2>3. CASE Begin \/ FindAction \/ TornRead \/ Finish \/ Reconnect \/ Drain \/ Epilogue
    BY <2>3 DEF Begin, FindAction, TornRead, Finish, Reconnect, Drain, Epilogue,
       workerVars
  <2>4. CASE Statement \/ RunThread \/ RunThreadAgain \/ Join \/ Utility
               \/ ReconnectBetweenRuns
    BY <2>4 DEF Statement, RunThread, RunThreadAgain, Join, Utility,
       ReconnectBetweenRuns, workerVars
  <2>5. ASSUME NEW name \in Names,
               \/ Remove(name)
               \/ \E weight \in Weights :
                    Insert(name, weight) \/ SetWeight(name, weight)
        PROVE  ExitInv'
    BY <2>5 DEF Remove, Insert, SetWeight, Edit, workerVars
  <2>6. CASE UseBegin \/ UseEnd \/ Expire \/ LoseConnection \/ StopServer
               \/ StartServer
    BY <2>6 DEF UseBegin, UseEnd, Expire, LoseConnection, StopServer,
       StartServer, workerVars
  <2>7. CASE UNCHANGED vars
    BY <2>7 DEF vars, workerVars
  <2>8. QED
    BY <2>1, <2>2, <2>3, <2>4, <2>5, <2>6, <2>7 DEF Next, ThreadStep
<1>3. ExitInv => CleanExit
  BY DEF CleanExit
<1>4. QED
  BY <1>1, <1>2, <1>3, PTL DEF Spec

\* A run ends, or the process, for a known reason only.
THEOREM OnlyKnownEnds == Spec => []EndsHaveCause
BY OnlyKnownCrashes, RunsExitCleanly, PTL DEF EndsHaveCause

-----------------------------------------------------------------------------
(* What the statistics count. *)

StatsType(s) ==
  /\ s = [begun |-> s.begun, results |-> s.results, rows |-> s.rows,
          txns |-> s.txns]
  /\ s.results \in [Tags -> Nat] /\ s.rows \in [Tags -> Nat] /\ s.txns \in Nat

Observing == Running /\ thread # "begin"

ConnType ==
  /\ conn = [alive |-> conn.alive, current |-> conn.current,
             txns |-> conn.txns, obs |-> conn.obs]
  /\ Observing => conn.obs \in Seq(Tags) /\ conn.txns \in Nat

\* Where the loop has just drained the connection.
DrainedHere ==
  thread \in {"draw", "lookup", "reconnect", "epilogue"} =>
    conn.obs = << >> /\ conn.txns = 0

LEMMA CountEmpty == \A tag : Count(<< >>, tag) = 0
<1>1. \A tag : {i \in DOMAIN << >> : << >>[i] = tag} = {}
  OBVIOUS
<1>2. QED
  BY <1>1, FS_EmptySet DEF Count

LEMMA CountOne ==
  ASSUME NEW x, NEW tag
  PROVE  Count(<<x>>, tag) = IF x = tag THEN 1 ELSE 0
<1>1. {i \in DOMAIN <<x>> : <<x>>[i] = tag} = IF x = tag THEN {1} ELSE {}
  OBVIOUS
<1>2. QED
  BY <1>1, FS_EmptySet, FS_Singleton DEF Count

LEMMA CountType ==
  ASSUME NEW obs \in Seq(Tags), NEW tag
  PROVE  Count(obs, tag) \in Nat
<1>1. IsFiniteSet(1 .. Len(obs))
  BY FS_Interval
<1>2. IsFiniteSet({i \in DOMAIN obs : obs[i] = tag})
  BY <1>1, FS_Subset
<1>3. QED
  BY <1>2, FS_CardinalityType DEF Count

LEMMA CountAppend ==
  ASSUME NEW obs \in Seq(Tags), NEW x \in Tags, NEW tag
  PROVE  Count(Append(obs, x), tag) = Count(obs, tag) + IF x = tag THEN 1 ELSE 0
<1> DEFINE hits == {i \in DOMAIN obs : obs[i] = tag}
           hitsAfter == {i \in DOMAIN Append(obs, x) : Append(obs, x)[i] = tag}
<1>1. IsFiniteSet(hits) /\ Len(obs) + 1 \notin hits /\ Cardinality(hits) \in Nat
  <2>1. IsFiniteSet(1 .. Len(obs))
    BY FS_Interval
  <2>2. IsFiniteSet(hits)
    BY <2>1, FS_Subset
  <2>3. QED
    BY <2>2, FS_CardinalityType
<1>2. hitsAfter = IF x = tag THEN hits \cup {Len(obs) + 1} ELSE hits
  OBVIOUS
<1>3. Cardinality(hits \cup {Len(obs) + 1}) = Cardinality(hits) + 1
  BY <1>1, FS_AddElement
<1>4. Count(obs, tag) = Cardinality(hits)
      /\ Count(Append(obs, x), tag) = Cardinality(hitsAfter)
  BY DEF Count
<1> HIDE DEF hits, hitsAfter
<1>5. QED
  BY <1>1, <1>2, <1>3, <1>4

\* Pending, part by part.
LEMMA PendingParts ==
  /\ \A t \in Tags :
       Pending.rows[t] = IF Observing THEN Count(conn.obs, t) ELSE 0
  /\ ConnType => Pending.txns = IF Observing THEN conn.txns ELSE 0
  /\ \A t \in Tags :
       Pending.results[t] = IF thread = "run" /\ t = action THEN 1 ELSE 0
<1>1. \A t \in Tags :
        Pending.rows[t] = IF Observing THEN Count(conn.obs, t) ELSE 0
  BY CountEmpty DEF Pending, NoStats, Observing, Cleared
<1>2. ConnType => Pending.txns = IF Observing THEN conn.txns ELSE 0
  BY DEF Pending, NoStats, Observing, Cleared, ConnType
<1>3. \A t \in Tags :
        Pending.results[t] = IF thread = "run" /\ t = action THEN 1 ELSE 0
  BY DEF Pending, NoStats, NoRows
<1>4. QED
  BY <1>1, <1>2, <1>3

\* What is to be shown of the statistics, without Pending.
RowsComplete ==
  \A t \in Tags :
    stats.rows[t] + (IF Observing THEN Count(conn.obs, t) ELSE 0) = made.rows[t]
TxnsComplete == stats.txns + (IF Observing THEN conn.txns ELSE 0) = made.txns
ResultsComplete ==
  \A t \in Tags :
    stats.results[t] + (IF thread = "run" /\ t = action THEN 1 ELSE 0)
      = made.results[t]

LEMMA CompleteParts ==
  ConnType =>
    (StatsComplete <=> (Alive => RowsComplete /\ TxnsComplete /\ ResultsComplete))
BY PendingParts DEF StatsComplete, RowsComplete, TxnsComplete, ResultsComplete

Complete == RowsComplete /\ TxnsComplete /\ ResultsComplete

StatsInv ==
  /\ StatsType(stats) /\ StatsType(made)
  /\ ConnType /\ DrainedHere
  /\ Alive => Complete

LEMMA FreshConn ==
  /\ Fresh = [alive |-> Fresh.alive, current |-> Fresh.current,
              txns |-> Fresh.txns, obs |-> Fresh.obs]
  /\ Fresh.obs \in Seq(Tags) /\ Fresh.txns = 0
  /\ \A t \in Tags \ {Untagged} : Count(Fresh.obs, t) = 0
<1>1. /\ Fresh = [alive |-> Fresh.alive, current |-> Fresh.current,
                txns |-> Fresh.txns, obs |-> Fresh.obs]
      /\ Fresh.txns = 0
      /\ Fresh.obs = IF ConnectorQueries THEN <<Untagged>> ELSE << >>
  BY DEF Fresh
<1>2. <<Untagged>> \in Seq(Tags) /\ << >> \in Seq(Tags)
  BY DEF Tags
<1>3. \A t \in Tags \ {Untagged} :
        Count(<<Untagged>>, t) = 0 /\ Count(<< >>, t) = 0
  BY CountOne, CountEmpty
<1>4. QED
  BY <1>1, <1>2, <1>3

LEMMA NoStatsTyped ==
  /\ StatsType(NoStats)
  /\ NoStats.txns = 0
  /\ \A t \in Tags : NoStats.rows[t] = 0 /\ NoStats.results[t] = 0
BY DEF StatsType, NoStats, NoRows

\* drainIntoStats() moves what the connection holds into the statistics.
LEMMA DrainMoves ==
  ASSUME StatsInv, Observing, Drained
  PROVE  /\ StatsType(stats')
         /\ conn' = [alive |-> conn'.alive, current |-> conn'.current,
                     txns |-> conn'.txns, obs |-> conn'.obs]
         /\ conn'.obs = << >> /\ conn'.txns = 0
         /\ stats'.results = stats.results
         /\ stats'.txns = stats.txns + conn.txns
         /\ \A t \in Tags : stats'.rows[t] = stats.rows[t] + Count(conn.obs, t)
<1>1. \A t \in Tags : Count(conn.obs, t) \in Nat
  BY CountType DEF StatsInv, ConnType
<1>2. /\ stats'.rows = [t \in Tags |-> stats.rows[t] + Count(conn.obs, t)]
      /\ stats'.txns = stats.txns + conn.txns
      /\ stats'.results = stats.results
      /\ stats' = [begun |-> stats'.begun, results |-> stats'.results,
                   rows |-> stats'.rows, txns |-> stats'.txns]
  BY DEF Drained, Recorded, StatsInv, StatsType
<1>3. stats'.rows \in [Tags -> Nat] /\ stats'.txns \in Nat
  BY <1>1, <1>2 DEF StatsInv, StatsType, ConnType
<1>4. QED
  BY <1>2, <1>3 DEF Drained, Cleared, StatsInv, StatsType, ConnType

\* A step that keeps the thread where it is, and what is counted.
LEMMA CountsKept ==
  ASSUME StatsInv, UNCHANGED <<thread, action, stats, made>>,
         conn' = conn \/ conn' = [conn EXCEPT !.alive = FALSE]
  PROVE  StatsInv'
<1>1. /\ conn'.obs = conn.obs /\ conn'.txns = conn.txns
      /\ conn' = [alive |-> conn'.alive, current |-> conn'.current,
                  txns |-> conn'.txns, obs |-> conn'.obs]
  BY DEF StatsInv, ConnType
<1>2. Observing' = Observing /\ Alive' = Alive
  BY DEF Observing, Running, Joinable, Alive
<1>3. ConnType' /\ DrainedHere'
  BY <1>1, <1>2 DEF StatsInv, ConnType, DrainedHere
<1>4. Alive => Complete'
  BY <1>1, <1>2 DEF StatsInv, Complete, RowsComplete, TxnsComplete,
     ResultsComplete
<1>5. QED
  BY <1>2, <1>3, <1>4 DEF StatsInv, StatsType

LEMMA StatsInit == Init => StatsInv
<1> SUFFICES ASSUME Init PROVE StatsInv
  OBVIOUS
<1>1. stats = NoStats /\ made = NoStats /\ thread = "none" /\ conn = Fresh
  BY DEF Init
<1>2. ~Observing
  BY <1>1 DEF Observing, Running, Joinable
<1>3. ConnType /\ DrainedHere
  BY <1>1, <1>2, FreshConn DEF ConnType, DrainedHere
<1>4. QED
  BY <1>1, <1>2, <1>3, NoStatsTyped DEF StatsInv, Complete, RowsComplete,
     TxnsComplete, ResultsComplete

\* Steps of the thread.
LEMMA StatsThread ==
  ASSUME StatsInv, ThreadStep
  PROVE  StatsInv'
<1> USE DEF Goto, At
<1>1. CASE Begin
  <2>1. /\ thread = "begin" /\ thread' = "draw" /\ UNCHANGED <<stats, made, action>>
        /\ conn' = [alive |-> conn'.alive, current |-> conn'.current,
                    txns |-> conn'.txns, obs |-> conn'.obs]
        /\ conn'.obs = << >> /\ conn'.txns = 0
    BY <1>1 DEF Begin, Forgotten, Cleared, workerVars, StatsInv, ConnType
  <2>2. ~Observing /\ Observing' /\ Alive
    BY <2>1 DEF Observing, Running, Joinable, Alive
  <2>3. ConnType' /\ DrainedHere'
    BY <2>1 DEF ConnType, DrainedHere
  <2>4. Complete'
    BY <2>1, <2>2, CountEmpty DEF StatsInv, StatsType, Complete, RowsComplete,
       TxnsComplete, ResultsComplete
  <2>5. QED
    BY <2>1, <2>3, <2>4 DEF StatsInv, StatsType
<1>2. CASE Draw
  <2>1. /\ thread = "draw" /\ thread' \in {"lookup", "epilogue"}
        /\ UNCHANGED <<conn, stats, made, action>>
    BY <1>2 DEF Draw
  <2>2. Observing /\ Observing' /\ Alive
    BY <2>1 DEF Observing, Running, Joinable, Alive
  <2>3. ConnType' /\ DrainedHere'
    BY <2>1, <2>2 DEF ConnType, DrainedHere, StatsInv
  <2>4. Complete'
    BY <2>1, <2>2 DEF StatsInv, Complete, RowsComplete, TxnsComplete,
       ResultsComplete
  <2>5. QED
    BY <2>1, <2>3, <2>4 DEF StatsInv, StatsType
<1>3. CASE FindAction
  <2>1. CASE InRange(registry, offset)
    <3> DEFINE name == Lookup(registry, offset).name
    <3>1. /\ thread = "lookup" /\ thread' = "run" /\ action' = name
          /\ stats' = [stats EXCEPT !.begun = @ \cup {name}]
          /\ made' = [made EXCEPT !.results[name] = @ + 1]
          /\ conn' = [conn EXCEPT !.current = name]
      BY <1>3, <2>1 DEF FindAction
    <3> HIDE DEF name
    <3>2. Observing /\ Observing' /\ Alive
      BY <3>1 DEF Observing, Running, Joinable, Alive
    <3>3. ConnType' /\ DrainedHere'
      BY <3>1, <3>2 DEF ConnType, DrainedHere, StatsInv
    <3>4. /\ StatsType(stats') /\ stats'.rows = stats.rows
          /\ stats'.txns = stats.txns /\ stats'.results = stats.results
      BY <3>1 DEF StatsInv, StatsType
    <3>5. /\ StatsType(made') /\ made'.rows = made.rows
          /\ made'.txns = made.txns
          /\ \A t \in Tags : made'.results[t]
               = made.results[t] + IF t = name THEN 1 ELSE 0
      <4>1. /\ made'.results = [made.results EXCEPT ![name] = @ + 1]
            /\ made'.rows = made.rows /\ made'.txns = made.txns
            /\ made' = [begun |-> made'.begun, results |-> made'.results,
                        rows |-> made'.rows, txns |-> made'.txns]
        BY <3>1 DEF StatsInv, StatsType
      <4>2. made.results \in [Tags -> Nat]
        BY DEF StatsInv, StatsType
      <4>3. /\ made'.results \in [Tags -> Nat]
            /\ \A t \in Tags : made'.results[t]
                 = made.results[t] + IF t = name THEN 1 ELSE 0
        <5>1. made'.results = [t \in Tags |-> IF t = name THEN made.results[t] + 1
                                              ELSE made.results[t]]
          BY <4>1, <4>2
        <5>2. QED
          BY <4>2, <5>1
      <4>4. QED
        BY <4>1, <4>3 DEF StatsInv, StatsType
    <3>6. Complete'
      BY <3>1, <3>2, <3>4, <3>5 DEF StatsInv, StatsType, ConnType, Complete,
         RowsComplete, TxnsComplete, ResultsComplete
    <3>7. QED
      BY <3>3, <3>4, <3>5, <3>6 DEF StatsInv
  <2>2. CASE ~InRange(registry, offset)
    <3>1. thread' = "terminated" /\ UNCHANGED <<conn, stats, made>>
      BY <1>3, <2>2 DEF FindAction
    <3>2. QED
      BY <3>1 DEF StatsInv, StatsType, ConnType, Observing, Running, Joinable,
         Alive, DrainedHere
  <2>3. QED
    BY <2>1, <2>2
<1>4. CASE Finish
  <2>1. PICK txns \in 0 .. 1 :
          /\ conn' = [conn EXCEPT !.txns = @ + txns]
          /\ made' = [made EXCEPT !.txns = @ + txns]
          /\ IF action \in stats.begun
             THEN /\ stats' = [stats EXCEPT !.results[action] = @ + 1]
                  /\ thread' \in {"gone", "drain"}
             ELSE thread' = "terminated" /\ UNCHANGED stats
    BY <1>4 DEF Finish
  <2>2. thread = "run" /\ action' = Untagged
    BY <1>4 DEF Finish
  <2>3. Observing /\ Alive
    BY <2>2 DEF Observing, Running, Joinable, Alive
  <2>4. /\ StatsType(made') /\ made'.rows = made.rows
        /\ made'.txns = made.txns + txns /\ made'.results = made.results
    BY <2>1 DEF StatsInv, StatsType
  <2>5. /\ conn' = [alive |-> conn'.alive, current |-> conn'.current,
                    txns |-> conn'.txns, obs |-> conn'.obs]
        /\ conn'.obs = conn.obs /\ conn'.txns = conn.txns + txns
    BY <2>1 DEF StatsInv, ConnType
  <2>6. ConnType' /\ DrainedHere'
    BY <2>1, <2>3, <2>5 DEF StatsInv, ConnType, DrainedHere
  <2>7. CASE action \in stats.begun
    <3>1. /\ StatsType(stats') /\ stats'.rows = stats.rows
          /\ stats'.txns = stats.txns
          /\ \A t \in Tags : stats'.results[t]
               = stats.results[t] + IF t = action THEN 1 ELSE 0
      BY <2>1, <2>7 DEF StatsInv, StatsType
    <3>2. thread' \in {"gone", "drain"}
      BY <2>1, <2>7
    <3>3. Observing'
      BY <3>2 DEF Observing, Running, Joinable, Alive
    <3>4. Complete'
      <4>1. RowsComplete /\ TxnsComplete /\ ResultsComplete
        BY <2>3 DEF StatsInv, Complete
      <4>2. RowsComplete'
        BY <2>3, <2>4, <2>5, <3>1, <3>3, <4>1 DEF RowsComplete
      <4>3. stats.txns + conn.txns = made.txns
        BY <2>3, <4>1 DEF TxnsComplete
      <4>4. stats.txns \in Nat /\ conn.txns \in Nat
        BY <2>3 DEF StatsInv, StatsType, ConnType
      <4>5. TxnsComplete'
        BY <2>4, <2>5, <3>1, <3>3, <4>3, <4>4 DEF TxnsComplete
      <4>6. \A t \in Tags : stats.results[t] \in Nat
        BY DEF StatsInv, StatsType
      <4>7. ResultsComplete'
        BY <2>2, <2>4, <3>1, <3>2, <4>1, <4>6 DEF ResultsComplete
      <4>8. QED
        BY <4>2, <4>5, <4>7 DEF Complete
    <3>5. QED
      BY <2>4, <2>6, <3>1, <3>4 DEF StatsInv
  <2>8. CASE action \notin stats.begun
    BY <2>1, <2>4, <2>6, <2>8 DEF StatsInv, StatsType, Alive
  <2>9. QED
    BY <2>7, <2>8
<1>5. CASE HandleGone
  <2>1. /\ thread = "gone" /\ thread' \in {"reconnect", "epilogue"}
        /\ Drained /\ UNCHANGED <<made, action>>
    BY <1>5 DEF HandleGone, DrainOfLost
  <2>2. Observing /\ Observing' /\ Alive
    BY <2>1 DEF Observing, Running, Joinable, Alive
  <2> /\ conn' = [alive |-> conn'.alive, current |-> conn'.current,
                  txns |-> conn'.txns, obs |-> conn'.obs]
      /\ conn'.obs = << >> /\ conn'.txns = 0
    BY <2>1, <2>2, DrainMoves
  <2>3. ConnType' /\ DrainedHere'
    BY DEF ConnType, DrainedHere
  <2>4. Complete'
    BY <2>1, <2>2, DrainMoves, CountEmpty DEF StatsInv, StatsType, ConnType,
       Complete, RowsComplete, TxnsComplete, ResultsComplete
  <2>5. QED
    BY <2>1, <2>2, <2>3, <2>4, DrainMoves DEF StatsInv, StatsType
<1>6. CASE Reconnect
  <2>1. CASE serverUp
    <3>1. /\ thread = "reconnect" /\ thread' = "drain" /\ conn' = Fresh
          /\ made' = [made EXCEPT !.rows[Untagged]
                                    = @ + Count(Fresh.obs, Untagged)]
          /\ UNCHANGED <<stats, action>>
      BY <1>6, <2>1 DEF Reconnect, workerVars
    <3>2. Observing /\ Observing' /\ Alive /\ conn.obs = << >> /\ conn.txns = 0
      BY <3>1 DEF Observing, Running, Joinable, Alive, StatsInv, DrainedHere
    <3>3. ConnType' /\ DrainedHere'
      BY <3>1, FreshConn DEF ConnType, DrainedHere
    <3>4. \A t \in Tags : Count(Fresh.obs, t) \in Nat /\ Count(conn.obs, t) = 0
      BY <3>2, FreshConn, CountType, CountEmpty
    <3>5. /\ StatsType(made') /\ made'.txns = made.txns
          /\ made'.results = made.results
          /\ \A t \in Tags : made'.rows[t] = made.rows[t] + Count(Fresh.obs, t)
      <4> DEFINE n == Count(Fresh.obs, Untagged)
      <4>1. /\ made'.rows = [made.rows EXCEPT ![Untagged] = @ + n]
            /\ made'.results = made.results /\ made'.txns = made.txns
            /\ made' = [begun |-> made'.begun, results |-> made'.results,
                        rows |-> made'.rows, txns |-> made'.txns]
        BY <3>1 DEF StatsInv, StatsType
      <4>2. Untagged \in Tags /\ n \in Nat
        BY <3>4 DEF Tags
      <4>3. made'.rows \in [Tags -> Nat]
        BY <4>1, <4>2 DEF StatsInv, StatsType
      <4>4. \A t \in Tags : made'.rows[t] = made.rows[t] + Count(Fresh.obs, t)
        BY <4>1, <4>2, FreshConn DEF StatsInv, StatsType
      <4>5. QED
        BY <4>1, <4>3, <4>4 DEF StatsInv, StatsType
    <3>6. Complete'
      BY <3>1, <3>2, <3>4, <3>5, FreshConn DEF StatsInv, StatsType, Complete,
         RowsComplete, TxnsComplete, ResultsComplete
    <3>7. QED
      BY <3>1, <3>3, <3>5, <3>6 DEF StatsInv, StatsType
  <2>2. CASE ~serverUp
    <3>1. thread' = "terminated" /\ UNCHANGED <<conn, stats, made>>
      BY <1>6, <2>2 DEF Reconnect
    <3>2. QED
      BY <3>1 DEF StatsInv, StatsType, ConnType, Observing, Running, Joinable,
         Alive, DrainedHere
  <2>3. QED
    BY <2>1, <2>2
<1>7. CASE Drain
  <2>1. thread = "drain" /\ thread' = "draw" /\ Drained /\ UNCHANGED <<made, action>>
    BY <1>7 DEF Drain, workerVars
  <2>2. Observing /\ Observing' /\ Alive
    BY <2>1 DEF Observing, Running, Joinable, Alive
  <2> /\ conn' = [alive |-> conn'.alive, current |-> conn'.current,
                  txns |-> conn'.txns, obs |-> conn'.obs]
      /\ conn'.obs = << >> /\ conn'.txns = 0
    BY <2>1, <2>2, DrainMoves
  <2>3. ConnType' /\ DrainedHere'
    BY DEF ConnType, DrainedHere
  <2>4. Complete'
    BY <2>1, <2>2, DrainMoves, CountEmpty DEF StatsInv, StatsType, ConnType,
       Complete, RowsComplete, TxnsComplete, ResultsComplete
  <2>5. QED
    BY <2>1, <2>2, <2>3, <2>4, DrainMoves DEF StatsInv, StatsType
<1>8. CASE Epilogue
  <2>1. /\ thread = "epilogue" /\ thread' = "finished"
        /\ UNCHANGED <<stats, made, action>>
        /\ conn' = [alive |-> conn'.alive, current |-> conn'.current,
                    txns |-> conn'.txns, obs |-> conn'.obs]
    BY <1>8 DEF Epilogue, Released, Cleared, workerVars, StatsInv, ConnType
  <2>2. /\ Observing /\ ~Observing' /\ Alive
        /\ conn.obs = << >> /\ conn.txns = 0
    BY <2>1 DEF Observing, Running, Joinable, Alive, StatsInv, DrainedHere
  <2>3. ConnType' /\ DrainedHere'
    BY <2>1, <2>2 DEF ConnType, DrainedHere
  <2>4. Complete'
    BY <2>1, <2>2, CountEmpty DEF StatsInv, StatsType, Complete, RowsComplete,
       TxnsComplete, ResultsComplete
  <2>5. QED
    BY <2>1, <2>3, <2>4 DEF StatsInv, StatsType
<1>9. CASE TornRead
  <2>1. /\ thread' = "terminated" /\ UNCHANGED <<conn, stats, made, action>>
    BY <1>9 DEF TornRead
  <2>2. ~Observing' /\ ~Alive'
    BY <2>1 DEF Observing, Running, Joinable, Alive
  <2>3. ConnType' /\ DrainedHere'
    BY <2>1, <2>2 DEF StatsInv, ConnType, DrainedHere
  <2>4. QED
    BY <2>1, <2>2, <2>3 DEF StatsInv, StatsType
<1>10. QED
  BY <1>1, <1>2, <1>3, <1>4, <1>5, <1>6, <1>7, <1>8, <1>9 DEF ThreadStep

\* Steps of the scenario, the clock and the server; and the statement.
LEMMA StatsOthers ==
  ASSUME StatsInv, [Next]_vars, ~ThreadStep
  PROVE  StatsInv'
<1>1. CASE Statement
  <2>1. PICK tag \in Names :
          /\ conn' = [conn EXCEPT !.obs = Append(@, tag)]
          /\ made' = [made EXCEPT !.rows[tag] = @ + 1]
    BY <1>1 DEF Statement
  <2>2. thread = "run" /\ UNCHANGED <<thread, action, stats>>
    BY <1>1 DEF Statement, At
  <2>3. Observing /\ Observing' /\ Alive
    BY <2>2 DEF Observing, Running, Joinable, Alive
  <2>4. /\ conn' = [alive |-> conn'.alive, current |-> conn'.current,
                    txns |-> conn'.txns, obs |-> conn'.obs]
        /\ conn'.obs = Append(conn.obs, tag) /\ conn'.txns = conn.txns
        /\ conn.obs \in Seq(Tags) /\ tag \in Tags
    BY <2>1, <2>3 DEF StatsInv, ConnType, Tags
  <2>5. ConnType' /\ DrainedHere'
    BY <2>2, <2>3, <2>4 DEF StatsInv, ConnType, DrainedHere
  <2>6. /\ made'.rows = [made.rows EXCEPT ![tag] = @ + 1]
        /\ made'.results = made.results /\ made'.txns = made.txns
        /\ made' = [begun |-> made'.begun, results |-> made'.results,
                    rows |-> made'.rows, txns |-> made'.txns]
    BY <2>1 DEF StatsInv, StatsType
  <2>7. /\ made'.rows \in [Tags -> Nat]
        /\ \A t \in Tags : made'.rows[t] = made.rows[t] + IF t = tag THEN 1 ELSE 0
    <3>1. made.rows \in [Tags -> Nat]
      BY DEF StatsInv, StatsType
    <3>2. made'.rows = [t \in Tags |-> IF t = tag THEN made.rows[t] + 1
                                       ELSE made.rows[t]]
      BY <2>6, <3>1
    <3>3. QED
      BY <3>1, <3>2
  <2>8. StatsType(made')
    BY <2>6, <2>7 DEF StatsInv, StatsType
  <2>9. \A t \in Tags : /\ Count(conn.obs, t) \in Nat
                        /\ Count(conn'.obs, t)
                             = Count(conn.obs, t) + IF tag = t THEN 1 ELSE 0
    BY <2>4, CountAppend, CountType
  <2>10. Complete'
    <3>1. RowsComplete'
      BY <2>2, <2>3, <2>7, <2>9 DEF StatsInv, StatsType, Complete, RowsComplete
    <3>2. TxnsComplete' /\ ResultsComplete'
      BY <2>2, <2>3, <2>4, <2>6 DEF StatsInv, Complete, TxnsComplete,
         ResultsComplete
    <3>3. QED
      BY <3>1, <3>2 DEF Complete
  <2>11. QED
    BY <2>2, <2>5, <2>8, <2>10 DEF StatsInv, StatsType
<1>2. CASE RunThread
  <2>1. /\ thread' = "begin" /\ stats' = NoStats /\ made' = NoStats
        /\ UNCHANGED <<conn, action>>
    BY <1>2 DEF RunThread, workerVars
  <2>2. ~Observing'
    BY <2>1 DEF Observing
  <2>3. ConnType' /\ DrainedHere'
    BY <2>1, <2>2 DEF StatsInv, ConnType, DrainedHere
  <2>4. Complete'
    BY <2>1, <2>2, NoStatsTyped DEF Complete, RowsComplete, TxnsComplete,
       ResultsComplete
  <2>5. QED
    BY <2>1, <2>3, <2>4, NoStatsTyped DEF StatsInv
<1>3. CASE RunThreadAgain
  <2>1. /\ stats' = NoStats /\ made' = Pending /\ UNCHANGED <<conn, action, thread>>
    BY <1>3 DEF RunThreadAgain, workerVars
  <2>2. ConnType' /\ DrainedHere' /\ Observing' = Observing
    BY <2>1 DEF StatsInv, ConnType, DrainedHere, Observing, Running, Joinable,
       Alive
  <2>3. Observing => conn.txns \in Nat /\ \A t \in Tags : Count(conn.obs, t) \in Nat
    BY CountType DEF StatsInv, ConnType
  <2>4. StatsType(Pending)
    <3> DEFINE c == IF Running /\ thread # "begin" THEN conn ELSE Cleared(conn)
               rows == [t \in Tags |-> Count(c.obs, t)]
               results == [t \in Tags |->
                             IF thread = "run" /\ t = action THEN 1 ELSE 0]
    <3>1. Pending = [begun |-> NoStats.begun, results |-> results,
                     rows |-> rows, txns |-> c.txns]
      <4>1. [NoRows EXCEPT ![action] = IF thread = "run" THEN 1 ELSE 0] = results
        BY DEF NoRows
      <4>2. Pending = [NoStats EXCEPT !.rows = rows, !.txns = c.txns,
                         !.results = [NoRows EXCEPT ![action] =
                                        IF thread = "run" THEN 1 ELSE 0]]
        BY Zenon DEF Pending
      <4> HIDE DEF c, rows, results
      <4>3. Pending = [NoStats EXCEPT !.rows = rows, !.txns = c.txns,
                         !.results = results]
        BY <4>1, <4>2, Zenon
      <4>4. QED
        BY <4>3 DEF NoStats
    <3> HIDE DEF c
    <3>2. Pending.rows = rows
      BY <3>1
    <3>3. Pending.rows \in [Tags -> Nat] /\ Pending.txns \in Nat
      BY <2>3, <3>2, PendingParts DEF StatsInv
    <3>4. QED
      BY <3>1, <3>3 DEF StatsType
  <2>5. Complete'
    BY <2>1, <2>2, <2>3, PendingParts, NoStatsTyped DEF StatsInv, Complete,
       RowsComplete, TxnsComplete, ResultsComplete
  <2>6. QED
    BY <2>1, <2>2, <2>4, <2>5, NoStatsTyped DEF StatsInv
<1>4. CASE Join
  <2>1. /\ thread = "finished" /\ thread' = "none"
        /\ UNCHANGED <<conn, action, stats, made>>
    BY <1>4 DEF Join
  <2>2. ~Observing /\ ~Observing' /\ Alive
    BY <2>1 DEF Observing, Running, Joinable, Alive
  <2>3. QED
    BY <2>1, <2>2 DEF StatsInv, StatsType, ConnType, DrainedHere, Complete,
       RowsComplete, TxnsComplete, ResultsComplete
<1>5. CASE Utility \/ ReconnectBetweenRuns
  <2>1. thread = "none" /\ UNCHANGED <<thread, action, stats, made>>
    BY <1>5 DEF Utility, ReconnectBetweenRuns, workerVars
  <2>2. /\ ~Observing /\ ~Observing' /\ Alive
        /\ conn' = [alive |-> conn'.alive, current |-> conn'.current,
                    txns |-> conn'.txns, obs |-> conn'.obs]
    BY <1>5, <2>1, FreshConn DEF Observing, Running, Joinable, Alive, Utility,
       ReconnectBetweenRuns, StatsInv, ConnType
  <2>3. QED
    BY <2>1, <2>2 DEF StatsInv, StatsType, ConnType, DrainedHere, Complete,
       RowsComplete, TxnsComplete, ResultsComplete
<1>6. ASSUME NEW name \in Names,
             \/ Remove(name)
             \/ \E weight \in Weights :
                  Insert(name, weight) \/ SetWeight(name, weight)
      PROVE  StatsInv'
  BY <1>6, CountsKept DEF Remove, Insert, SetWeight, Edit, workerVars
<1>7. CASE Expire \/ StartServer \/ UseBegin \/ UseEnd
  BY <1>7, CountsKept DEF Expire, StartServer, UseBegin, UseEnd, workerVars
<1>8. CASE LoseConnection \/ StopServer
  BY <1>8, CountsKept DEF LoseConnection, StopServer, workerVars
<1>9. CASE UNCHANGED vars
  BY <1>9, CountsKept DEF vars, workerVars
<1>10. QED
  BY <1>1, <1>2, <1>3, <1>4, <1>5, <1>6, <1>7, <1>8, <1>9 DEF Next

\* Every result, row and transaction of a run is counted once, whatever
\* connections are lost and whatever the scenario does (workload.cpp:162-257).
THEOREM StatisticsComplete == Spec => []StatsComplete
<1>1. StatsInv /\ [Next]_vars => StatsInv'
  BY StatsThread, StatsOthers
<1>2. StatsInv => StatsComplete
  BY CompleteParts DEF StatsInv, Complete
<1>3. QED
  BY StatsInit, <1>1, <1>2, PTL DEF Spec
-----------------------------------------------------------------------------
(* The registry's names, and the name on the connection between two runs. *)

Registries == Seq([name : Names, weight : Nat])

Distinct(reg) ==
  \A i, j \in DOMAIN reg : reg[i].name = reg[j].name => i = j

RegistryInv == registry \in Registries /\ Distinct(registry)

\* The loop's way out takes the last action's name off the connection.
NameInv ==
  thread \in {"none", "finished"} =>
    conn.current = Untagged /\ \A i \in DOMAIN conn.obs : conn.obs[i] = Untagged

\* A sequence without one of its elements has the others at their places.
LEMMA WithoutOne ==
  ASSUME NEW S, NEW s \in Seq(S), NEW i \in 1 .. Len(s)
  PROVE  LET w == SubSeq(s, 1, i - 1) \o SubSeq(s, i + 1, Len(s)) IN
         /\ w \in Seq(S) /\ DOMAIN w = 1 .. Len(s) - 1
         /\ \A k \in DOMAIN w : w[k] = s[IF k < i THEN k ELSE k + 1]
<1> DEFINE a == SubSeq(s, 1, i - 1)
           b == SubSeq(s, i + 1, Len(s))
<1>1. Len(s) \in Nat /\ i \in Nat /\ 1 <= i /\ i <= Len(s)
  OBVIOUS
<1>2. a \in Seq(S) /\ b \in Seq(S)
  BY SubSeqsTyped
<1>3. Len(a) = i - 1 /\ \A k \in 1 .. i - 1 : a[k] = s[k]
  BY <1>1
<1>4. Len(b) = Len(s) - i /\ \A k \in 1 .. Len(s) - i : b[k] = s[i + k]
  BY <1>1
<1> HIDE DEF a, b
<1>5. /\ a \o b \in Seq(S) /\ Len(a \o b) = Len(s) - 1
      /\ DOMAIN (a \o b) = 1 .. Len(s) - 1
  <2>1. a \o b \in Seq(S) /\ Len(a \o b) = Len(a) + Len(b)
    BY <1>2
  <2>2. Len(a \o b) = Len(s) - 1
    BY <1>1, <1>3, <1>4, <2>1
  <2>3. QED
    BY <2>1, <2>2
<1>6. ASSUME NEW k \in 1 .. Len(s) - 1
      PROVE  (a \o b)[k] = s[IF k < i THEN k ELSE k + 1]
  <2>1. CASE k < i
    BY <1>1, <1>2, <1>3, <2>1
  <2>2. CASE ~(k < i)
    <3>1. k - Len(a) \in 1 .. Len(s) - i /\ i + (k - Len(a)) = k + 1
      BY <1>1, <1>3, <2>2
    <3>2. (a \o b)[k] = b[k - Len(a)]
      BY <1>1, <1>2, <1>3, <1>4, <2>2
    <3>3. QED
      BY <1>4, <2>2, <3>1, <3>2
  <2>3. QED
    BY <2>1, <2>2
<1>7. QED
  BY <1>5, <1>6 DEF a, b

\* Edits keep the names distinct.
LEMMA RemovedDistinct ==
  ASSUME NEW reg \in Registries, Distinct(reg), NEW name \in Names, Has(reg, name)
  PROVE  Removed(reg, name) \in Registries /\ Distinct(Removed(reg, name))
<1>1. PICK i \in DOMAIN reg :
        Removed(reg, name) = SubSeq(reg, 1, i - 1) \o SubSeq(reg, i + 1, Len(reg))
  BY Zenon DEF Removed, Has
<1>2. i \in 1 .. Len(reg) /\ Len(reg) \in Nat /\ DOMAIN reg = 1 .. Len(reg)
  BY DEF Registries
<1> DEFINE w == Removed(reg, name)
<1>3. /\ w \in Registries /\ DOMAIN w = 1 .. Len(reg) - 1
      /\ \A k \in DOMAIN w : w[k] = reg[IF k < i THEN k ELSE k + 1]
  <2>1. reg \in Seq([name : Names, weight : Nat])
    BY DEF Registries
  <2>2. LET v == SubSeq(reg, 1, i - 1) \o SubSeq(reg, i + 1, Len(reg)) IN
        /\ v \in Seq([name : Names, weight : Nat]) /\ DOMAIN v = 1 .. Len(reg) - 1
        /\ \A k \in DOMAIN v : v[k] = reg[IF k < i THEN k ELSE k + 1]
    BY <1>2, <2>1, WithoutOne, Zenon
  <2>3. QED
    BY <1>1, <2>2, Zenon DEF Registries
<1> HIDE DEF w
<1>4. ASSUME NEW k \in DOMAIN w, NEW m \in DOMAIN w, w[k].name = w[m].name
      PROVE  k = m
  <2> DEFINE p == IF k < i THEN k ELSE k + 1
             q == IF m < i THEN m ELSE m + 1
  <2>1. p \in DOMAIN reg /\ q \in DOMAIN reg
    BY <1>2, <1>3
  <2>2. w[k] = reg[p] /\ w[m] = reg[q]
    BY <1>3
  <2> HIDE DEF p, q
  <2>3. p = q
    BY <1>4, <2>1, <2>2 DEF Distinct
  <2>4. QED
    BY <1>2, <1>3, <2>3 DEF p, q
<1>5. QED
  BY <1>3, <1>4 DEF w, Distinct

LEMMA EditedDistinct ==
  ASSUME NEW reg \in Registries, Distinct(reg),
         NEW name \in Names, NEW weight \in Nat
  PROVE  /\ ~Has(reg, name) =>
              /\ Inserted(reg, Factory(name, weight)) \in Registries
              /\ Distinct(Inserted(reg, Factory(name, weight)))
         /\ Reweighted(reg, name, weight) \in Registries
         /\ Distinct(Reweighted(reg, name, weight))
<1>1. /\ Factory(name, weight) \in [name : Names, weight : Nat]
      /\ Factory(name, weight).name = name
  BY DEF Factory
<1>2. ASSUME ~Has(reg, name)
      PROVE  /\ Inserted(reg, Factory(name, weight)) \in Registries
             /\ Distinct(Inserted(reg, Factory(name, weight)))
  BY <1>1, <1>2 DEF Inserted, Registries, Distinct, Has
<1>3. /\ Reweighted(reg, name, weight) \in Registries
      /\ DOMAIN Reweighted(reg, name, weight) = DOMAIN reg
      /\ \A i \in DOMAIN reg : Reweighted(reg, name, weight)[i].name = reg[i].name
  <2>1. \A i \in DOMAIN reg : Reweighted(reg, name, weight)[i]
          = IF reg[i].name = name THEN Factory(name, weight) ELSE reg[i]
    BY DEF Reweighted
  <2>2. Reweighted(reg, name, weight) \in Registries
    BY <1>1 DEF Reweighted, Registries
  <2>3. \A i \in DOMAIN reg : Reweighted(reg, name, weight)[i].name = reg[i].name
    BY <1>1, <2>1
  <2>4. DOMAIN Reweighted(reg, name, weight) = DOMAIN reg
    BY DEF Reweighted
  <2>5. QED
    BY <2>2, <2>3, <2>4
<1>4. Distinct(Reweighted(reg, name, weight))
  BY <1>3 DEF Distinct
<1>5. QED
  BY <1>2, <1>3, <1>4

LEMMA RegistryKept == RegistryInv /\ [Next]_vars => RegistryInv'
<1> SUFFICES ASSUME RegistryInv, [Next]_vars PROVE RegistryInv'
  OBVIOUS
<1>1. CASE UNCHANGED registry
  BY <1>1 DEF RegistryInv
<1>2. ASSUME NEW name \in Names, Remove(name) PROVE RegistryInv'
  BY <1>2, RemovedDistinct DEF Remove, Edit, RegistryInv
<1>3. ASSUME NEW name \in Names, NEW weight \in Weights,
             Insert(name, weight) \/ SetWeight(name, weight)
      PROVE  RegistryInv'
  BY <1>3, RegistryAssumption, EditedDistinct
     DEF Insert, SetWeight, Edit, RegistryInv
<1>4. CASE UseEnd
  BY <1>4, RegistryAssumption DEF UseEnd, RegistryInv, Registries, Distinct
<1>5. CASE UNCHANGED vars
  BY <1>1, <1>5 DEF vars
<1>6. QED
  BY <1>1, <1>2, <1>3, <1>4, <1>5 DEF Next, ThreadStep, Begin, Draw,
     FindAction, TornRead, Finish, HandleGone, Reconnect, Drain, Epilogue,
     Statement, RunThread, RunThreadAgain, Join, Utility,
     ReconnectBetweenRuns, UseBegin, Expire, LoseConnection, StopServer,
     StartServer

LEMMA FreshTag ==
  Fresh.current = Untagged /\ \A i \in DOMAIN Fresh.obs : Fresh.obs[i] = Untagged
BY DEF Fresh

LEMMA NameKept == ConnType /\ NameInv /\ [Next]_vars => NameInv'
<1> SUFFICES ASSUME ConnType, NameInv, [Next]_vars PROVE NameInv'
  OBVIOUS
<1> USE DEF NameInv, Goto, At
<1>1. CASE UNCHANGED <<thread, conn>>
  BY <1>1
<1>2. CASE thread' \notin {"none", "finished"}
  BY <1>2
<1>3. CASE Epilogue
  BY <1>3 DEF Epilogue, Released, Cleared, ConnType
<1>4. CASE Join
  BY <1>4 DEF Join
<1>5. CASE Utility
  BY <1>5 DEF Utility, ConnType
<1>6. CASE ReconnectBetweenRuns
  BY <1>6, FreshTag DEF ReconnectBetweenRuns
<1>7. CASE LoseConnection \/ StopServer
  BY <1>7 DEF LoseConnection, StopServer, ConnType
<1>8. ASSUME NEW name \in Names,
             \/ Remove(name)
             \/ \E weight \in Weights :
                  Insert(name, weight) \/ SetWeight(name, weight)
      PROVE  NameInv'
  BY <1>1, <1>8 DEF Remove, Insert, SetWeight, Edit
<1>9. CASE RunThreadAgain \/ Expire \/ StartServer \/ UseBegin \/ UseEnd
             \/ UNCHANGED vars
  BY <1>1, <1>9 DEF RunThreadAgain, Expire, StartServer, UseBegin, UseEnd,
     vars
<1>10. CASE Begin \/ Draw \/ FindAction \/ TornRead \/ Finish \/ HandleGone
              \/ Reconnect \/ Drain \/ Statement \/ RunThread
  BY <1>2, <1>10 DEF Begin, Draw, FindAction, TornRead, Finish, HandleGone,
     Reconnect, Drain, Statement, RunThread
<1>11. QED
  BY <1>3, <1>4, <1>5, <1>6, <1>7, <1>8, <1>9, <1>10 DEF Next, ThreadStep

\* The names in a registry stay distinct, whatever edits and use() do
\* (action_registry.cpp:271-330).
THEOREM NamesStayDistinct == Spec => []Distinct(registry)
<1>1. Init => RegistryInv
  BY RegistryAssumption DEF Init, RegistryInv, Registries, Distinct
<1>2. RegistryInv => Distinct(registry)
  BY DEF RegistryInv
<1>3. QED
  BY <1>1, <1>2, RegistryKept, PTL DEF Spec

\* A query of the scenario is never observed under an action's name, in any
\* number of runs (workload.cpp:254-257).
THEOREM UtilityQueriesUntagged == Spec => []UtilityUntagged
<1>1. Init => NameInv
  BY FreshTag DEF Init, NameInv
<1>2. StatsInv => ConnType
  BY DEF StatsInv
<1>3. StatsInv /\ [Next]_vars => StatsInv'
  BY StatsThread, StatsOthers
<1>4. NameInv => UtilityUntagged
  BY DEF NameInv, UtilityUntagged
<1>5. QED
  BY StatsInit, <1>1, <1>2, <1>3, <1>4, NameKept, PTL DEF Spec

-----------------------------------------------------------------------------
(* The accumulated weights, along the places of a registry.                  *)

\* A set of numbers that is not empty has a least element.
LEMMA Least ==
  ASSUME NEW T \in SUBSET Nat, T # {}
  PROVE  \E x \in T : \A y \in T : x =< y
<1> DEFINE R == OpToRel(<, Nat)
<1>1. IsWellFoundedOn(R, Nat)
  BY NatLessThanWellFounded, Zenon
<1>2. \A x, y \in Nat : x < y => << x, y >> \in R
  BY DEF OpToRel
<1> HIDE DEF R
<1>3. PICK x \in T : \A y \in T : ~ (<< y, x >> \in R)
  BY <1>1, WFMin, Zenon
<1>4. ASSUME NEW y \in T PROVE x =< y
  <2>1. ~ (<< y, x >> \in R)
    BY <1>3, Zenon
  <2> QED BY <1>2, <2>1
<1> QED BY <1>4

\* What holds at 0, and at k + 1 when it holds at k, holds up to n.
LEMMA Reaches ==
  ASSUME NEW n \in Nat, NEW S, 0 \in S,
         \A k \in 0 .. n - 1 : k \in S => k + 1 \in S
  PROVE  \A k \in 0 .. n : k \in S
<1>1. SUFFICES ASSUME NEW T, T = (0 .. n) \ S, T # {} PROVE FALSE
  OBVIOUS
<1>2. PICK m \in T : \A y \in T : m =< y
  BY <1>1, Least
<1>3. m - 1 \in 0 .. n - 1 /\ m - 1 \notin T /\ m - 1 + 1 = m
  BY <1>1, <1>2
<1> QED BY <1>1, <1>3

LEMMA WeightsTyped ==
  ASSUME NEW reg \in Registries, NEW i \in 1 .. Len(reg)
  PROVE  Len(reg) \in Nat /\ DOMAIN reg = 1 .. Len(reg) /\ reg[i].weight \in Nat
<1>1. Len(reg) \in Nat /\ DOMAIN reg = 1 .. Len(reg)
  BY DEF Registries
<1> DEFINE F == [name : Names, weight : Nat]
<1>2. \A f \in F : f.weight \in Nat
  OBVIOUS
<1>3. reg \in Seq(F)
  BY DEF Registries
<1> HIDE DEF F
<1>4. reg[i] \in F
  BY <1>3
<1>5. reg[i].weight \in Nat
  BY <1>2, <1>4, Zenon
<1> QED BY <1>1, <1>5

SumsTo(reg, g, n) ==
  g = [i \in 0 .. n |-> IF i = 0 THEN 0 ELSE g[i - 1] + reg[i].weight]

\* The recursive definition of the sums has a solution, by taking one place
\* after the other.
LEMMA SumsDefined ==
  ASSUME NEW reg, NEW n \in Nat
  PROVE  \E g : SumsTo(reg, g, n)
<1> DEFINE S == {k \in 0 .. n : \E g : SumsTo(reg, g, k)}
<1>1. 0 \in S
  <2> DEFINE g == [i \in 0 .. 0 |-> 0]
  <2>1. SumsTo(reg, g, 0)
    BY DEF SumsTo
  <2> QED BY <2>1
<1>2. ASSUME NEW k \in 0 .. n - 1, k \in S PROVE k + 1 \in S
  <2>1. PICK g : SumsTo(reg, g, k)
    BY <1>2
  <2>2. PICK h : h = [i \in 0 .. k + 1 |->
                        IF i = k + 1 THEN g[k] + reg[i].weight ELSE g[i]]
    BY Zenon
  <2>3. k \in Nat /\ k + 1 \in 0 .. n
    OBVIOUS
  <2>4. \A i \in 0 .. k : g[i] = IF i = 0 THEN 0 ELSE g[i - 1] + reg[i].weight
    BY <2>1, Zenon DEF SumsTo
  <2>5. \A i \in 0 .. k : h[i] = g[i]
    BY <2>2, <2>3
  <2>6. h[k + 1] = g[k] + reg[k + 1].weight
    BY <2>2, <2>3
  <2>7. ASSUME NEW i \in 0 .. k + 1
        PROVE  h[i] = IF i = 0 THEN 0 ELSE h[i - 1] + reg[i].weight
    <3>1. CASE i = k + 1
      BY <2>3, <2>5, <2>6, <3>1
    <3>2. CASE i # k + 1 /\ i # 0
      <4>1. i \in 0 .. k /\ i - 1 \in 0 .. k
        BY <2>3, <3>2
      <4> QED BY <2>4, <2>5, <3>2, <4>1
    <3>3. CASE i = 0
      BY <2>3, <2>4, <2>5, <3>3
    <3> QED BY <3>1, <3>2, <3>3
  <2>8. h = [i \in 0 .. k + 1 |-> h[i]]
    BY <2>2
  <2>9. SumsTo(reg, h, k + 1)
    BY <2>7, <2>8 DEF SumsTo
  <2> QED BY <2>3, <2>9
<1> HIDE DEF S
<1>3. \A k \in 0 .. n : k \in S
  BY <1>1, <1>2, Reaches
<1>4. n \in S
  BY <1>3
<1> QED BY <1>4 DEF S

\* Weights(reg): what lookupByWeightOffset() has accumulated at each place.
LEMMA Accumulates ==
  ASSUME NEW reg \in Registries
  PROVE  /\ Accumulated(reg, 0) = 0
         /\ \A i \in 1 .. Len(reg) :
              Accumulated(reg, i) = Accumulated(reg, i - 1) + reg[i].weight
<1> DEFINE g == CHOOSE g : SumsTo(reg, g, Len(reg))
<1>1. Len(reg) \in Nat
  BY DEF Registries
<1>2. SumsTo(reg, g, Len(reg))
  BY <1>1, SumsDefined, Zenon
<1>3. \A n : Accumulated(reg, n) = g[n]
  BY DEF Accumulated, SumsTo
<1> HIDE DEF g
<1>4. \A i \in 0 .. Len(reg) : g[i] = IF i = 0 THEN 0 ELSE g[i - 1] + reg[i].weight
  BY <1>2, Zenon DEF SumsTo
<1>5. 0 \in 0 .. Len(reg) /\ \A i \in 1 .. Len(reg) : i \in 0 .. Len(reg) /\ i # 0
  BY <1>1
<1> QED BY <1>3, <1>4, <1>5, Zenon

\* They are numbers, and grow from place to place.
LEMMA AccumulatedGrow ==
  ASSUME NEW reg \in Registries
  PROVE  \A j \in 0 .. Len(reg) :
           /\ Accumulated(reg, j) \in Nat
           /\ \A i \in 0 .. j : /\ Accumulated(reg, i) \in Nat
                               /\ Accumulated(reg, i) =< Accumulated(reg, j)
<1> DEFINE acc(j) == Accumulated(reg, j)
           S == {j \in 0 .. Len(reg) :
                   /\ acc(j) \in Nat
                   /\ \A i \in 0 .. j : acc(i) \in Nat /\ acc(i) =< acc(j)}
<1>1. Len(reg) \in Nat /\ \A i \in 1 .. Len(reg) : reg[i].weight \in Nat
  <2>1. Len(reg) \in Nat
    BY DEF Registries
  <2>2. \A i \in 1 .. Len(reg) : reg[i].weight \in Nat
    BY WeightsTyped, Zenon
  <2> QED BY <2>1, <2>2
<1>2. acc(0) = 0 /\ \A i \in 1 .. Len(reg) : acc(i) = acc(i - 1) + reg[i].weight
  BY Accumulates
<1> HIDE DEF acc
<1>3. 0 \in S
  <2>1. \A i \in 0 .. 0 : i = 0
    OBVIOUS
  <2> QED BY <1>1, <1>2, <2>1
<1>4. ASSUME NEW k \in 0 .. Len(reg) - 1, k \in S PROVE k + 1 \in S
  <2>1. k \in Nat /\ k + 1 \in 1 .. Len(reg) /\ k + 1 - 1 = k
    BY <1>1
  <2>2. acc(k + 1) = acc(k) + reg[k + 1].weight /\ reg[k + 1].weight \in Nat
    BY <1>1, <1>2, <2>1
  <2>3. acc(k) \in Nat /\ \A i \in 0 .. k : acc(i) \in Nat /\ acc(i) =< acc(k)
    BY <1>4
  <2>4. acc(k + 1) \in Nat /\ acc(k) =< acc(k + 1)
    BY <2>2, <2>3
  <2>5. ASSUME NEW i \in 0 .. k + 1
        PROVE  acc(i) \in Nat /\ acc(i) =< acc(k + 1)
    <3>1. i = k + 1 \/ i \in 0 .. k
      BY <2>1
    <3> QED BY <2>3, <2>4, <3>1
  <2> QED BY <2>1, <2>4, <2>5
<1> HIDE DEF S
<1>5. \A j \in 0 .. Len(reg) : j \in S
  BY <1>1, <1>3, <1>4, Reaches
<1> QED BY <1>5 DEF S, acc

\* The lookup returns the first factory that reaches the offset.
LEMMA LookedUp ==
  ASSUME NEW reg \in Registries, NEW w, InRange(reg, w)
  PROVE  \E m \in DOMAIN reg :
           /\ Lookup(reg, w) = reg[m]
           /\ Accumulated(reg, m) >= w
           /\ \A j \in DOMAIN reg : Accumulated(reg, j) >= w => m =< j
<1> DEFINE T == Reaching(reg, w)
<1>1. DOMAIN reg \in SUBSET Nat
  BY DEF Registries
<1>2. T # {} /\ T \in SUBSET DOMAIN reg
  BY DEF InRange, Reaching
<1>3. \E x \in T : \A y \in T : x =< y
  <2> HIDE DEF T
  <2> QED BY <1>1, <1>2, Least
<1>4. Min(T) \in T /\ \A y \in T : Min(T) =< y
  <2> HIDE DEF T
  <2> QED BY <1>3 DEF Min
<1>5. /\ \A j \in DOMAIN reg : Accumulated(reg, j) >= w => j \in T
      /\ \A j \in T : Accumulated(reg, j) >= w
  BY DEF Reaching
<1>6. Lookup(reg, w) = reg[Min(T)]
  BY Zenon DEF Lookup
<1> HIDE DEF T
<1> QED BY <1>2, <1>4, <1>5, <1>6, Zenon

\* The offsets that lead to the factory at i: those above what the ones before
\* it accumulate; the first one takes 0 as well.
LEMMA Share ==
  ASSUME NEW reg \in Registries, Distinct(reg), NEW i \in DOMAIN reg
  PROVE  {w \in 0 .. TotalWeight(reg) :
            InRange(reg, w) /\ Lookup(reg, w) = reg[i]}
         = (IF i = 1 THEN 0 ELSE Accumulated(reg, i - 1) + 1)
             .. Accumulated(reg, i)
<1> DEFINE acc(j) == Accumulated(reg, j)
           low == IF i = 1 THEN 0 ELSE acc(i - 1) + 1
<1>1. Len(reg) \in Nat /\ DOMAIN reg = 1 .. Len(reg)
  BY DEF Registries
<1>2. TotalWeight(reg) = acc(Len(reg))
  BY DEF TotalWeight
<1>3. \A j \in 0 .. Len(reg) : acc(j) \in Nat
  BY AccumulatedGrow
<1>4. \A j \in 0 .. Len(reg) : \A k \in 0 .. j : acc(k) =< acc(j)
  BY AccumulatedGrow
<1>5. i \in 1 .. Len(reg) /\ i \in 0 .. Len(reg) /\ i - 1 \in 0 .. Len(reg)
      /\ Len(reg) \in 0 .. Len(reg) /\ i \in 0 .. Len(reg) /\ i \in Nat
  BY <1>1
<1>6. acc(i) \in Nat /\ acc(i - 1) \in Nat /\ acc(Len(reg)) \in Nat
      /\ acc(i) =< acc(Len(reg))
  BY <1>3, <1>4, <1>5
<1>7. ASSUME NEW w
      PROVE  InRange(reg, w) <=> \E j \in DOMAIN reg : acc(j) >= w
  BY DEF InRange, Reaching
<1>8. ASSUME NEW w, InRange(reg, w)
      PROVE  \E m \in DOMAIN reg :
               /\ Lookup(reg, w) = reg[m]
               /\ acc(m) >= w
               /\ \A j \in DOMAIN reg : acc(j) >= w => m =< j
  BY <1>8, LookedUp, Zenon
<1> HIDE DEF acc
<1>9. ASSUME NEW w \in 0 .. TotalWeight(reg), InRange(reg, w),
             Lookup(reg, w) = reg[i]
      PROVE  w \in low .. acc(i)
  <2>1. PICK m \in DOMAIN reg : /\ Lookup(reg, w) = reg[m]
                                /\ acc(m) >= w
                                /\ \A j \in DOMAIN reg : acc(j) >= w => m =< j
    BY <1>8, <1>9, Zenon
  <2>2. reg[m].name = reg[i].name
    BY <1>9, <2>1
  <2>3. m = i
    BY <2>2, Zenon DEF Distinct
  <2>4. w \in Nat
    BY <1>2, <1>6
  <2>5. ASSUME i # 1 PROVE w >= acc(i - 1) + 1
    <3>1. i - 1 \in DOMAIN reg /\ ~ (i =< i - 1)
      BY <1>1, <1>5, <2>5
    <3>2. ~ (acc(i - 1) >= w)
      BY <2>1, <2>3, <3>1, Zenon
    <3> QED BY <1>6, <2>4, <3>2
  <2> QED BY <1>6, <2>1, <2>3, <2>4, <2>5
<1>10. ASSUME NEW w \in low .. acc(i)
       PROVE  /\ w \in 0 .. TotalWeight(reg)
              /\ InRange(reg, w) /\ Lookup(reg, w) = reg[i]
  <2>1. w \in Nat /\ acc(i) >= w /\ (i # 1 => w > acc(i - 1))
    BY <1>6
  <2>2. w \in 0 .. TotalWeight(reg)
    BY <1>2, <1>6, <2>1
  <2>3. InRange(reg, w)
    BY <1>7, <2>1, Zenon
  <2>4. PICK m \in DOMAIN reg : /\ Lookup(reg, w) = reg[m]
                                /\ acc(m) >= w
                                /\ \A j \in DOMAIN reg : acc(j) >= w => m =< j
    BY <1>8, <2>3, Zenon
  <2>5. m =< i /\ m \in 1 .. Len(reg)
    BY <1>1, <2>1, <2>4, Zenon
  <2>6. ASSUME m # i PROVE FALSE
    <3>1. i # 1 /\ m \in 0 .. i - 1
      BY <1>5, <2>5, <2>6
    <3>2. acc(m) =< acc(i - 1) /\ acc(m) \in Nat
      <4>1. m \in 0 .. Len(reg)
        BY <1>1, <2>5
      <4> QED BY <1>3, <1>4, <1>5, <3>1, <4>1, Zenon
    <3> QED BY <1>6, <2>1, <2>4, <3>1, <3>2
  <2> QED BY <2>2, <2>3, <2>4, <2>6
<1>11. {w \in 0 .. TotalWeight(reg) :
          InRange(reg, w) /\ Lookup(reg, w) = reg[i]} = low .. acc(i)
  <2> HIDE DEF low
  <2> QED BY <1>9, <1>10
<1> QED BY <1>11 DEF low, acc

\* Every weight is respected in every registry the worker may have
\* (action_registry.cpp, lookupByWeightOffset).
THEOREM OffsetsAreShared == Spec => []WeightsRespected
<1>1. ASSUME NEW reg \in Registries, Distinct(reg), NEW i \in DOMAIN reg
      PROVE  Cardinality({w \in 0 .. TotalWeight(reg) :
                            InRange(reg, w) /\ Lookup(reg, w) = reg[i]})
               = reg[i].weight + (IF i = 1 THEN 1 ELSE 0)
  <2> DEFINE acc(j) == Accumulated(reg, j)
             low == IF i = 1 THEN 0 ELSE acc(i - 1) + 1
  <2>1. i \in 1 .. Len(reg) /\ Len(reg) \in Nat /\ reg[i].weight \in Nat
    <3>1. i \in 1 .. Len(reg)
      BY DEF Registries
    <3> QED BY <3>1, WeightsTyped, Zenon
  <2>2. acc(i) = acc(i - 1) + reg[i].weight /\ acc(0) = 0
    BY <2>1, Accumulates
  <2>3. i - 1 \in 0 .. Len(reg)
    BY <2>1
  <2>4. acc(i - 1) \in Nat
    BY <2>3, AccumulatedGrow
  <2>5. {w \in 0 .. TotalWeight(reg) :
           InRange(reg, w) /\ Lookup(reg, w) = reg[i]} = low .. acc(i)
    BY <1>1, Share, Zenon
  <2> HIDE DEF acc
  <2>6. low \in Int /\ acc(i) \in Int
    BY <2>1, <2>2, <2>4
  <2>7. Cardinality(low .. acc(i)) = IF low > acc(i) THEN 0 ELSE acc(i) - low + 1
    <3> HIDE DEF low
    <3> QED BY <2>6, FS_Interval
  <2> DEFINE share == Cardinality(low .. acc(i))
  <2>8. share = IF low > acc(i) THEN 0 ELSE acc(i) - low + 1
    BY <2>7, Zenon
  <2> HIDE DEF share
  <2>9. CASE i = 1
    <3>1. low = 0 /\ acc(i) = reg[i].weight
      BY <2>1, <2>2, <2>9
    <3>2. share = reg[i].weight + 1
      BY <2>1, <2>8, <3>1
    <3> QED BY <2>5, <2>9, <3>2 DEF share
  <2>10. CASE i # 1
    <3>1. low = acc(i - 1) + 1
      BY <2>10
    <3>2. share = reg[i].weight
      BY <2>1, <2>2, <2>4, <2>8, <3>1
    <3>3. share = reg[i].weight + 0
      BY <2>1, <3>2
    <3> QED BY <2>5, <2>10, <3>3 DEF share
  <2> QED BY <2>9, <2>10
<1>2. RegistryInv => WeightsRespected
  BY <1>1 DEF RegistryInv, WeightsRespected
<1>3. Init => RegistryInv
  BY RegistryAssumption DEF Init, RegistryInv, Registries, Distinct
<1> QED BY <1>2, <1>3, RegistryKept, PTL DEF Spec

-----------------------------------------------------------------------------
(* Types.  While the thread may still reconnect it has not used up its       *)
(* attempts, and a drawn offset that is in range names an action.            *)

Connections == [alive : BOOLEAN, current : Tags, txns : Nat, obs : Seq(Tags)]

Places == {"none", "begin", "draw", "lookup", "run", "gone", "reconnect",
           "drain", "epilogue", "finished", "terminated"}

ConnTyped == conn \in Connections /\ (conn.alive => serverUp)

ThreadTyped == thread \in Places /\ (thread = "run" <=> action \in Names)

CountersTyped ==
  /\ offset \in Nat /\ steps \in 0 .. MaxStatements
  /\ attempts \in 0 .. MaxReconnects + 1
  /\ thread \notin {"epilogue", "finished", "terminated"} =>
       attempts =< MaxReconnects

FlagsTyped ==
  expired \in BOOLEAN /\ copying \in BOOLEAN
    /\ provoked \subseteq {"edit", "use", "restart"}

TypeInv == ConnTyped /\ ThreadTyped /\ CountersTyped /\ FlagsTyped

\* What a lookup finds has a name.
LEMMA FoundName ==
  ASSUME NEW reg \in Registries, NEW w, InRange(reg, w)
  PROVE  Lookup(reg, w).name \in Names
<1> DEFINE F == [name : Names, weight : Nat]
<1>1. \A f \in F : f.name \in Names
  OBVIOUS
<1>2. reg \in Seq(F)
  BY DEF Registries
<1> HIDE DEF F
<1>3. PICK m \in DOMAIN reg : Lookup(reg, w) = reg[m]
  BY LookedUp, Zenon
<1>4. reg[m] \in F
  BY <1>2
<1> QED BY <1>1, <1>3, <1>4, Zenon

\* What the steps make of a connection.
LEMMA ConnChanged ==
  ASSUME NEW c \in Connections
  PROVE  /\ \A o \in Seq(Tags) : /\ [c EXCEPT !.obs = o] \in Connections
                                 /\ [c EXCEPT !.obs = o].alive = c.alive
         /\ \A t \in Tags : /\ [c EXCEPT !.current = t] \in Connections
                            /\ [c EXCEPT !.current = t].alive = c.alive
         /\ \A n \in Nat : /\ [c EXCEPT !.txns = n] \in Connections
                           /\ [c EXCEPT !.txns = n].alive = c.alive
         /\ [c EXCEPT !.alive = FALSE] \in Connections
         /\ [c EXCEPT !.alive = FALSE].alive = FALSE
<1> DEFINE O == Seq(Tags)
           Conns == [alive : BOOLEAN, current : Tags, txns : Nat, obs : O]
<1>1. Connections = Conns
  BY DEF Connections
<1>2. c \in Conns
  BY <1>1
<1> HIDE DEF O
<1>3. ASSUME NEW o \in O
      PROVE  [c EXCEPT !.obs = o] \in Conns /\ [c EXCEPT !.obs = o].alive = c.alive
  BY <1>2
<1>4. ASSUME NEW t \in Tags
      PROVE  /\ [c EXCEPT !.current = t] \in Conns
             /\ [c EXCEPT !.current = t].alive = c.alive
  BY <1>2
<1>5. ASSUME NEW n \in Nat
      PROVE  /\ [c EXCEPT !.txns = n] \in Conns
             /\ [c EXCEPT !.txns = n].alive = c.alive
  BY <1>2
<1>6. /\ [c EXCEPT !.alive = FALSE] \in Conns
      /\ [c EXCEPT !.alive = FALSE].alive = FALSE
  BY <1>2
<1> HIDE DEF Conns
<1>7. /\ \A o \in O : /\ [c EXCEPT !.obs = o] \in Connections
                      /\ [c EXCEPT !.obs = o].alive = c.alive
      /\ \A t \in Tags : /\ [c EXCEPT !.current = t] \in Connections
                         /\ [c EXCEPT !.current = t].alive = c.alive
      /\ \A n \in Nat : /\ [c EXCEPT !.txns = n] \in Connections
                        /\ [c EXCEPT !.txns = n].alive = c.alive
      /\ [c EXCEPT !.alive = FALSE] \in Connections
      /\ [c EXCEPT !.alive = FALSE].alive = FALSE
  BY <1>1, <1>3, <1>4, <1>5, <1>6, Zenon
<1> QED BY <1>7, Zenon DEF O

LEMMA ClearedTyped ==
  ASSUME NEW c \in Connections
  PROVE  /\ Cleared(c) \in Connections /\ Cleared(c).alive = c.alive
         /\ Released(c) \in Connections /\ Released(c).alive = c.alive
<1>1. << >> \in Seq(Tags) /\ 0 \in Nat /\ Untagged \in Tags
  BY DEF Tags
<1>2. PICK d : d = [c EXCEPT !.obs = << >>]
  BY Zenon
<1>3. d \in Connections /\ d.alive = c.alive
  BY <1>1, <1>2, ConnChanged, Zenon
<1>4. Cleared(c) = [d EXCEPT !.txns = 0]
  BY <1>2 DEF Cleared, Connections
<1>5. Cleared(c) \in Connections /\ Cleared(c).alive = c.alive
  BY <1>1, <1>3, <1>4, ConnChanged, Zenon
<1>6. Released(c) = [Cleared(c) EXCEPT !.current = Untagged]
  BY DEF Released
<1>7. Released(c) \in Connections /\ Released(c).alive = c.alive
  BY <1>1, <1>5, <1>6, ConnChanged, Zenon
<1> QED BY <1>5, <1>7

LEMMA FreshTyped == Fresh \in Connections /\ Fresh.alive
<1>1. Untagged \in Tags /\ Fresh.obs \in Seq(Tags) /\ Fresh.txns = 0
  BY FreshConn DEF Tags
<1>2. Fresh.alive = TRUE /\ Fresh.current = Untagged
  BY DEF Fresh
<1>3. Fresh = [alive |-> Fresh.alive, current |-> Fresh.current,
               txns |-> Fresh.txns, obs |-> Fresh.obs]
  BY FreshConn
<1> DEFINE O == Seq(Tags)
<1>4. Connections = [alive : BOOLEAN, current : Tags, txns : Nat, obs : O]
  BY DEF Connections
<1>5. Fresh.obs \in O
  BY <1>1
<1> HIDE DEF O
<1>6. \A a \in BOOLEAN, t \in Tags, n \in Nat, o \in O :
        [alive |-> a, current |-> t, txns |-> n, obs |-> o] \in Connections
  BY <1>4
<1>7. Fresh.alive \in BOOLEAN /\ Fresh.current \in Tags /\ Fresh.txns \in Nat
  <2>1. TRUE \in BOOLEAN /\ 0 \in Nat
    OBVIOUS
  <2> QED BY <1>1, <1>2, <2>1, Zenon
<1>8. Fresh \in Connections
  BY <1>3, <1>5, <1>6, <1>7, Zenon
<1> QED BY <1>2, <1>8

LEMMA ConnKept == ConnTyped /\ RegistryInv /\ [Next]_vars => ConnTyped'
<1> SUFFICES ASSUME ConnTyped, RegistryInv, [Next]_vars PROVE ConnTyped'
  OBVIOUS
<1>1. conn \in Connections /\ (conn.alive => serverUp)
  BY DEF ConnTyped
<1>2. conn.current \in Tags /\ conn.obs \in Seq(Tags) /\ conn.txns \in Nat
  BY <1>1 DEF Connections
<1>3. ASSUME conn' \in Connections, conn'.alive = conn.alive, serverUp' = serverUp
      PROVE  ConnTyped'
  BY <1>1, <1>3 DEF ConnTyped
<1>4. CASE UNCHANGED <<conn, serverUp>>
  BY <1>1, <1>4 DEF ConnTyped
<1>5. CASE Begin
  BY <1>1, <1>3, <1>5, ClearedTyped DEF Begin, Forgotten
<1>6. CASE FindAction
  <2>1. CASE ~ InRange(registry, offset)
    BY <1>4, <1>6, <2>1 DEF FindAction
  <2>2. CASE InRange(registry, offset)
    <3>1. Lookup(registry, offset).name \in Tags
      BY <2>2, FoundName DEF RegistryInv, Tags
    <3>2. conn' = [conn EXCEPT !.current = Lookup(registry, offset).name]
          /\ serverUp' = serverUp
      BY <1>6, <2>2 DEF FindAction
    <3>3. conn' \in Connections /\ conn'.alive = conn.alive
      BY <1>1, <3>1, <3>2, ConnChanged, Zenon
    <3> QED BY <1>3, <3>2, <3>3
  <2> QED BY <2>1, <2>2
<1>7. CASE Finish
  <2>1. PICK k \in 0 .. 1 : conn' = [conn EXCEPT !.txns = @ + k]
    BY <1>7 DEF Finish
  <2>2. conn' = [conn EXCEPT !.txns = conn.txns + k]
    BY <2>1, Zenon
  <2>3. conn.txns + k \in Nat
    BY <1>2
  <2>4. conn' \in Connections /\ conn'.alive = conn.alive
    BY <1>1, <2>2, <2>3, ConnChanged, Zenon
  <2>5. serverUp' = serverUp
    BY <1>7 DEF Finish
  <2> QED BY <1>3, <2>4, <2>5
<1>8. CASE HandleGone \/ Drain
  <2>1. conn' = Cleared(conn) /\ serverUp' = serverUp
    BY <1>8 DEF HandleGone, Drain, DrainOfLost, Drained
  <2> QED BY <1>1, <1>3, <2>1, ClearedTyped
<1>9. CASE Reconnect
  BY <1>1, <1>9, FreshTyped DEF Reconnect, ConnTyped
<1>10. CASE Epilogue
  BY <1>1, <1>3, <1>10, ClearedTyped DEF Epilogue
<1>11. CASE Statement
  <2>1. PICK t \in Names : conn' = [conn EXCEPT !.obs = Append(@, t)]
    BY <1>11 DEF Statement
  <2>2. conn' = [conn EXCEPT !.obs = Append(conn.obs, t)]
    BY <2>1, Zenon
  <2>3. Append(conn.obs, t) \in Seq(Tags)
    <3>1. t \in Tags
      BY DEF Tags
    <3> QED BY <1>2, <3>1
  <2>4. conn' \in Connections /\ conn'.alive = conn.alive
    BY <1>1, <2>2, <2>3, ConnChanged, Zenon
  <2>5. serverUp' = serverUp
    BY <1>11 DEF Statement
  <2> QED BY <1>3, <2>4, <2>5
<1>12. CASE Utility
  <2>1. conn' = [conn EXCEPT !.obs = <<conn.current>>] /\ serverUp' = serverUp
    BY <1>12 DEF Utility
  <2>2. <<conn.current>> \in Seq(Tags)
    BY <1>2
  <2>3. conn' \in Connections /\ conn'.alive = conn.alive
    BY <1>1, <2>1, <2>2, ConnChanged, Zenon
  <2> QED BY <1>3, <2>1, <2>3
<1>13. CASE ReconnectBetweenRuns
  BY <1>13, FreshTyped DEF ReconnectBetweenRuns, ConnTyped
<1>14. CASE LoseConnection \/ StopServer
  <2>1. conn' = [conn EXCEPT !.alive = FALSE]
    BY <1>14 DEF LoseConnection, StopServer
  <2>2. conn' \in Connections /\ conn'.alive = FALSE
    BY <1>1, <2>1, ConnChanged, Zenon
  <2> QED BY <2>2 DEF ConnTyped
<1>15. CASE StartServer
  BY <1>1, <1>15 DEF StartServer, ConnTyped
<1>16. ASSUME NEW name \in Names,
              \/ Remove(name)
              \/ \E weight \in Weights :
                   Insert(name, weight) \/ SetWeight(name, weight)
       PROVE  ConnTyped'
  BY <1>4, <1>16 DEF Remove, Insert, SetWeight, Edit
<1>17. CASE Draw \/ TornRead \/ RunThread \/ RunThreadAgain \/ Join
              \/ UseBegin \/ UseEnd \/ Expire \/ UNCHANGED vars
  BY <1>4, <1>17 DEF Draw, TornRead, RunThread, RunThreadAgain, Join,
     UseBegin, UseEnd, Expire, vars
<1> QED
  BY <1>5, <1>6, <1>7, <1>8, <1>9, <1>10, <1>11, <1>12, <1>13, <1>14, <1>15,
     <1>16, <1>17 DEF Next, ThreadStep

LEMMA RestKept ==
  ASSUME ThreadTyped, CountersTyped, FlagsTyped, RegistryInv, [Next]_vars
  PROVE  ThreadTyped' /\ CountersTyped' /\ FlagsTyped'
<1> USE DEF ThreadTyped, CountersTyped, FlagsTyped, Places, Goto, At
<1>1. MaxReconnects \in Nat /\ MaxStatements \in Nat /\ Untagged \notin Names
  BY BoundsAssumption, RegistryAssumption
<1>2. CASE UNCHANGED <<thread, workerVars, expired, copying, provoked>>
  BY <1>2 DEF workerVars
<1>3. CASE Begin
  BY <1>3 DEF Begin, workerVars
<1>4. CASE Draw
  <2>1. Offsets \subseteq Nat
    <3>1. Len(registry) \in Nat /\ Len(registry) \in 0 .. Len(registry)
      BY DEF RegistryInv, Registries
    <3>2. TotalWeight(registry) \in Nat
      BY <3>1, AccumulatedGrow DEF TotalWeight, RegistryInv
    <3> QED BY <3>2 DEF Offsets
  <2> QED BY <1>4, <2>1 DEF Draw
<1>5. CASE FindAction
  <2>1. CASE ~ InRange(registry, offset)
    BY <1>5, <2>1 DEF FindAction
  <2>2. CASE InRange(registry, offset)
    <3>1. Lookup(registry, offset).name \in Names
      BY <2>2, FoundName DEF RegistryInv
    <3> QED BY <1>5, <2>2, <3>1 DEF FindAction
  <2> QED BY <2>1, <2>2
<1>6. CASE TornRead
  BY <1>6 DEF TornRead
<1>7. CASE Finish
  <2>1. thread = "run" /\ thread' \in {"gone", "drain", "terminated"}
        /\ action' = Untagged /\ steps' = 0
        /\ UNCHANGED <<offset, attempts, expired, copying, provoked>>
    BY <1>7 DEF Finish
  <2> QED BY <1>1, <2>1
<1>8. CASE HandleGone
  <2>1. /\ thread = "gone" /\ attempts' = attempts + 1
        /\ thread' = IF attempts' =< MaxReconnects THEN "reconnect" ELSE "epilogue"
        /\ UNCHANGED <<action, steps, offset, expired, copying, provoked>>
    BY <1>8 DEF HandleGone, MayReconnect
  <2> QED BY <1>1, <2>1
<1>9. CASE Reconnect
  BY <1>9 DEF Reconnect, workerVars
<1>10. CASE Drain
  BY <1>10 DEF Drain, workerVars
<1>11. CASE Epilogue
  BY <1>11 DEF Epilogue, workerVars
<1>12. CASE Statement
  <2>1. steps' = steps + 1 /\ steps < MaxStatements
        /\ UNCHANGED <<thread, action, offset, attempts, expired, copying, provoked>>
    BY <1>12 DEF Statement
  <2> QED BY <1>1, <2>1
<1>13. CASE RunThread
  BY <1>13 DEF RunThread, workerVars
<1>14. CASE RunThreadAgain
  BY <1>14 DEF RunThreadAgain, workerVars
<1>15. CASE Join
  <2>1. /\ thread = "finished" /\ thread' = "none" /\ attempts' = 0
        /\ expired' = FALSE /\ 0 =< MaxReconnects /\ 0 \in 0 .. MaxReconnects + 1
        /\ UNCHANGED <<offset, action, steps, copying, provoked>>
    BY <1>1, <1>15 DEF Join
  <2> QED BY <2>1
<1>16. ASSUME NEW reg, Edit(reg)
       PROVE  ThreadTyped' /\ CountersTyped' /\ FlagsTyped'
  BY <1>16 DEF Edit, workerVars
<1>17. ASSUME NEW name \in Names,
              \/ Remove(name)
              \/ \E weight \in Weights :
                   Insert(name, weight) \/ SetWeight(name, weight)
       PROVE  ThreadTyped' /\ CountersTyped' /\ FlagsTyped'
  <2> HIDE DEF ThreadTyped, CountersTyped, FlagsTyped
  <2> QED BY <1>16, <1>17 DEF Remove, Insert, SetWeight
<1>18. CASE UseBegin \/ UseEnd \/ Expire
  BY <1>18 DEF UseBegin, UseEnd, Expire, workerVars
<1>19. CASE Utility \/ ReconnectBetweenRuns \/ LoseConnection \/ StopServer
              \/ StartServer \/ UNCHANGED vars
  BY <1>2, <1>19 DEF Utility, ReconnectBetweenRuns, LoseConnection,
     StopServer, StartServer, vars
<1> HIDE DEF ThreadTyped, CountersTyped, FlagsTyped
<1> QED
  BY <1>3, <1>4, <1>5, <1>6, <1>7, <1>8, <1>9, <1>10, <1>11, <1>12, <1>13,
     <1>14, <1>15, <1>17, <1>18, <1>19 DEF Next, ThreadStep

\* Types, for every registry and every bound.
THEOREM TypeCorrect == Spec => []TypeOK
<1>1. Init => RegistryInv /\ TypeInv
  <2> SUFFICES ASSUME Init PROVE RegistryInv /\ TypeInv
    OBVIOUS
  <2>1. RegistryInv
    BY RegistryAssumption DEF Init, RegistryInv, Registries, Distinct
  <2>2. ConnTyped
    BY FreshTyped DEF Init, ConnTyped
  <2>3. /\ MaxReconnects \in Nat /\ MaxStatements \in Nat
        /\ Untagged \notin Names
    BY RegistryAssumption, BoundsAssumption
  <2>4. ThreadTyped /\ FlagsTyped
    BY <2>3 DEF Init, ThreadTyped, FlagsTyped, Places
  <2>5. CountersTyped
    BY <2>3 DEF Init, CountersTyped
  <2> QED BY <2>1, <2>2, <2>4, <2>5 DEF TypeInv
<1>2. RegistryInv /\ TypeInv /\ [Next]_vars => TypeInv'
  BY ConnKept, RestKept DEF TypeInv
<1>3. RegistryInv /\ TypeInv => TypeOK
  <2> SUFFICES ASSUME RegistryInv, TypeInv PROVE TypeOK
    OBVIOUS
  <2>1. /\ registry \in Seq([name : Names, weight : Nat])
        /\ \A i, j \in DOMAIN registry : registry[i].name = registry[j].name => i = j
    BY DEF RegistryInv, Registries, Distinct
  <2>2. /\ conn.alive => serverUp
        /\ conn.current \in Tags
        /\ \A i \in DOMAIN conn.obs : conn.obs[i] \in Tags
    BY DEF TypeInv, ConnTyped, Connections
  <2>3. /\ thread \in Places /\ (thread = "run" <=> action \in Names)
        /\ offset \in Nat /\ steps \in 0 .. MaxStatements
        /\ attempts \in 0 .. MaxReconnects + 1
        /\ {expired, copying} \subseteq BOOLEAN
        /\ provoked \subseteq {"edit", "use", "restart"}
    BY DEF TypeInv, ThreadTyped, CountersTyped, FlagsTyped
  <2> QED BY <2>1, <2>2, <2>3 DEF TypeOK, Places
<1> QED BY <1>1, <1>2, <1>3, RegistryKept, PTL DEF Spec
=============================================================================

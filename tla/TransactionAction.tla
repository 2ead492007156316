------------------------- MODULE TransactionAction --------------------------
(***************************************************************************)
(* TransactionAction::execute (core/src/action/transaction.cpp) run again  *)
(* and again by one worker on one connection, with the server session it   *)
(* talks to.  The sub-actions are the programs of statements that the DDL  *)
(* and DML actions send (ddl.cpp, dml.cpp); the TxnBuffer is reduced to the*)
(* sequence of table changes it holds (TxnBuffer.tla has the rest).        *)
(*                                                                         *)
(* Every statement is one step.  It may succeed, fail, or find the         *)
(* connection gone, and a connection lost during COMMIT or DDL may be lost *)
(* before or after the server did the work.                                *)
(***************************************************************************)
EXTENDS Naturals, Sequences, SequencesExt

\* A setup is a server family (transactionalDDL: PostgreSQL has it, the MySQL
\* family does not) with bounds on the transactions of a behaviour and on the
\* sub-actions of a transaction.
CONSTANT Setups

ASSUME SetupsAssumption ==
  Setups \subseteq [transactionalDDL : BOOLEAN, maxTxns : Nat, maxSubs : Nat]

VARIABLES
  config,      \* error_mode, mysql_ddl_mode and the setup
  session,     \* the server's side of the connection
  commits,     \* the groups of work the server has committed
  catalog,     \* the table changes the shared catalog shows
  pc,          \* where execute() is; "loop" is the worker between actions
  inTrx, armed, log, savepoints, spCounter, subsLeft,     \* execute()'s locals
  branch,      \* the branch of the loop the sub-action runs in
  prog,        \* what the running sub-action has still to do
  made,        \* the table change its last DDL made, not yet in the catalog
  ownGuard,    \* it armed a TxGuard of its own (maybe_begin_own_trx)
  sent,        \* getQueryCount() > queriesBefore
  exc,         \* the exception in flight, or the last one the worker saw
  end,         \* rec.out.end
  outcomes,    \* what recordTransactionOutcome() was called with
  begun,       \* transactions whose BEGIN succeeded
  items,       \* history: how many units of work were numbered
  mine,        \* history: this transaction's work that was not rewound
  lost         \* history: a statement found the connection gone

client  == << inTrx, armed, log, savepoints, spCounter, subsLeft, branch, end >>
subvars == << prog, made, ownGuard, sent >>
server  == << session, commits >>
history == << outcomes, begun, items, mine, lost >>
vars    == << config, server, catalog, pc, client, subvars, exc, history >>

TransactionalDDL == config.setup.transactionalDDL
MaxTxns == config.setup.maxTxns
MaxSubs == config.setup.maxSubs

Item == [kind : {"table", "row"}, no : Nat \ {0}]
Tables(S) == {i \in S : i.kind = "table"}
Durable == UNION commits

-----------------------------------------------------------------------------
(* The server session.  Each statement has the set of its possible results. *)

NewSession  == [up |-> TRUE,  tx |-> "none", work |-> << >>, sps |-> << >>]
Opened      == [up |-> TRUE,  tx |-> "open", work |-> << >>, sps |-> << >>]
DeadSession == [up |-> FALSE, tx |-> "none", work |-> << >>, sps |-> << >>]
Committed(c) == IF session.work = << >> THEN c ELSE c \cup {Range(session.work)}

Result(a, s, c) == [answer |-> a, session |-> s, commits |-> c]
Gone(c) == Result("gone", DeadSession, c)

\* A statement sent to a live session has one of the results R, or is lost
\* before it did anything; one sent on a dead connection is lost.
Served(R) == IF session.up THEN R \cup {Gone(commits)} ELSE {Gone(commits)}

\* How a statement that did nothing is refused.  PostgreSQL then refuses
\* everything until the transaction, or its last savepoint, is rolled back.
Refused ==
  IF session.tx = "failed" THEN {Result("aborted", session, commits)}
  ELSE IF TransactionalDDL /\ session.tx = "open"
       THEN {Result("error", [session EXCEPT !.tx = "failed"], commits)}
       ELSE {Result("error", session, commits)}

When(condition, R) == IF condition THEN R ELSE {}

\* In an open transaction BEGIN is a warning, or an implicit commit.
BeginResults ==
  Served(Refused
    \cup When(session.tx = "none", {Result("ok", Opened, commits)})
    \cup When(session.tx = "open",
              {IF TransactionalDDL THEN Result("ok", session, commits)
               ELSE Result("ok", Opened, Committed(commits))}))

SavepointResults(name) ==
  Served(IF session.tx = "open"
         THEN {Result("ok", [session EXCEPT !.sps =
                 Append(@, [name |-> name, mark |-> Len(session.work)])], commits)}
         ELSE Refused)

RollbackToResults(name) ==
  Served(IF \E i \in DOMAIN session.sps : session.sps[i].name = name
         THEN LET i == CHOOSE j \in DOMAIN session.sps :
                         session.sps[j].name = name
              IN {Result("ok", [up   |-> TRUE,
                                tx   |-> "open",
                                work |-> SubSeq(session.work, 1,
                                                session.sps[i].mark),
                                sps  |-> SubSeq(session.sps, 1, i)], commits)}
         ELSE Refused)

RollbackResults == Served({Result("ok", NewSession, commits)})

\* A COMMIT of a failed PostgreSQL transaction rolls back and reports success.
CommitResults ==
  Served(IF session.tx = "open"
         THEN {Result("ok", NewSession, Committed(commits)),
               Result("error", NewSession, commits),
               Gone(Committed(commits))}
         ELSE {Result("ok", NewSession, commits)})

\* A statement that changes rows.  Outside a transaction it commits itself.
\* MySQL answers a deadlock by rolling the whole transaction back.
RowResults(item) ==
  Served(Refused
    \cup When(session.tx = "open",
              {Result("ok", [session EXCEPT !.work = Append(@, item)], commits)})
    \cup When(session.tx = "open" /\ ~TransactionalDDL,
              {Result("error", NewSession, commits)})
    \cup When(session.tx = "none",
              {Result("ok", session, commits \cup {{item}}),
               Gone(commits \cup {{item}})}))

\* A statement that changes a table.  MySQL commits the open transaction
\* before it runs, also when it then fails - unless it is refused up front.
TableResults(item) ==
  IF TransactionalDDL THEN RowResults(item)
  ELSE Served(Refused \cup
         {Result("ok",    NewSession, Committed(commits) \cup {{item}}),
          Result("error", NewSession, Committed(commits)),
          Gone(Committed(commits)),
          Gone(Committed(commits) \cup {{item}})})

\* SET: it changes nothing here, and fails only where everything fails.
SetResults ==
  Served(IF session.tx = "failed" THEN Refused
         ELSE {Result("ok", session, commits)})

\* ADD PARTITION (PostgreSQL: CREATE TABLE .. PARTITION OF ..).
PartResults ==
  Served(Refused \cup When(session.tx # "failed",
                          {Result("ok", session, commits)}))

Takes(r) == /\ session' = r.session
            /\ commits' = r.commits
            /\ lost' = (lost \/ r.answer = "gone")

-----------------------------------------------------------------------------
(* The sub-actions.  "table" is a DDL statement, "write" the catalog delta  *)
(* that follows it, "part" an ADD PARTITION whose failure is swallowed,     *)
(* "index" the DROP INDEX that tries another index on MySQL's error 1553,   *)
(* "set" a SET statement, "reset" one whose result is ignored, "begin" and  *)
(* "commit" the transaction an action opens when it is in none, "raise" an  *)
(* ActionException and "throw" any other exception.                         *)

DdlPrograms ==
  { << >>,                               \* skipped: a count limit, no table
    << "table", "write" >>,              \* alter, rename, index, partition
    << "table", "write", "row" >> }      \* create a table and fill it
  \cup (IF TransactionalDDL
        THEN {<< "table", "part", "write", "row" >>}    \* partitioned create
        ELSE {<< "set", "table", "set", "write" >>,     \* drop table
              << "index", "write" >>})                  \* drop index

DmlPrograms(own) ==
  { << "raise" >>, << "throw" >>,        \* no table to pick, a failing callable
    << "row" >>,                         \* insert, delete, update
    << "row", "raise" >>,                \* a Python action that gives up
    << "set", "row", "reset" >> }        \* select_query and its timeout
  \cup (IF own THEN {<< "begin", "row", "commit" >>} ELSE {})

-----------------------------------------------------------------------------
Config == [error : {"savepoint", "abort"}, ddl : {"mirror", "exclude"},
           setup : Setups]

\* Mutant of DefaultEnd.
EndCommitted == "committed"

\* The outcome of a transaction that an exception unwinds.
DefaultEnd == "rolledBackError"

Init ==
  /\ config \in Config
  /\ session = NewSession /\ commits = {} /\ catalog = {}
  /\ pc = "loop"
  /\ inTrx = FALSE /\ armed = FALSE
  /\ log = << >> /\ savepoints = << >> /\ spCounter = 0 /\ subsLeft = 0
  /\ branch = "none" /\ prog = << >> /\ made = << >> /\ ownGuard = FALSE
  /\ sent = FALSE /\ exc = "none" /\ end = DefaultEnd
  /\ outcomes = << >> /\ begun = 0 /\ items = 0 /\ mine = {} /\ lost = FALSE

\* The worker reconnects after an action that reported the server gone.
Reconnect ==
  /\ pc = "loop" /\ exc = "gone"
  /\ session' = NewSession
  /\ exc' = "none"
  /\ UNCHANGED << config, commits, catalog, pc, client, subvars, history >>

\* execute() up to the loop.  A failed BEGIN leaves no guard and no recorder.
Begin ==
  /\ pc = "loop" /\ exc # "gone" /\ begun < MaxTxns
  /\ \E r \in BeginResults :
       /\ Takes(r)
       /\ IF r.answer = "ok"
          THEN /\ pc' = "draw" /\ inTrx' = TRUE /\ armed' = TRUE
               /\ log' = << >> /\ savepoints' = << >> /\ spCounter' = 0
               /\ \E n \in 0 .. MaxSubs : subsLeft' = n
               /\ end' = DefaultEnd
               /\ exc' = "none" /\ begun' = begun + 1
               /\ mine' = {}
               /\ UNCHANGED branch
          ELSE /\ exc' = r.answer
               /\ UNCHANGED << pc, client, begun, mine >>
  /\ UNCHANGED << config, catalog, subvars, outcomes, items >>

-----------------------------------------------------------------------------
(* The loop over the sub-actions. *)

DdlInPool == TransactionalDDL \/ config.ddl = "mirror"

\* Draw a sub-action and choose the branch it runs in.
Draw ==
  /\ pc = "draw" /\ subsLeft > 0
  /\ subsLeft' = subsLeft - 1
  /\ \E type \in {"ddl", "dml"} :
       /\ type = "ddl" => DdlInPool
       /\ branch' = IF inTrx /\ ~TransactionalDDL /\ type = "ddl" THEN "mirror"
                    ELSE IF ~inTrx THEN "tail" ELSE config.error
       /\ prog' \in IF type = "ddl" THEN DdlPrograms ELSE DmlPrograms(~inTrx)
  /\ pc' = IF branch' = "savepoint" THEN "savepoint" ELSE "run"
  /\ sent' = FALSE /\ made' = << >>
  /\ UNCHANGED << config, server, catalog, inTrx, armed, log, savepoints,
                  spCounter, end, ownGuard, exc, history >>

TakeSavepoint ==
  /\ pc = "savepoint"
  /\ spCounter' = spCounter + 1
  /\ \E r \in SavepointResults(spCounter') :
       /\ Takes(r)
       /\ IF r.answer = "ok"
          THEN /\ savepoints' =
                    Append(savepoints, [name |-> spCounter', mark |-> Len(log)])
               /\ pc' = "run" /\ UNCHANGED exc
          ELSE pc' = "leave" /\ exc' = r.answer /\ UNCHANGED savepoints
  /\ UNCHANGED << config, catalog, inTrx, armed, log, subsLeft, branch, end,
                  subvars, outcomes, begun, items, mine >>

\* Does the running sub-action work inside the server's transaction, through
\* the buffered context?
Buffered == branch \in {"savepoint", "abort"}

Continue == prog' = Tail(prog) /\ UNCHANGED << pc, exc >>
Throw(e) == /\ prog' = << >>
            /\ exc' = e
            /\ pc' = IF ownGuard THEN "ownRollback" ELSE "caught"
Step(s)  == pc = "run" /\ prog # << >> /\ Head(prog) = s

\* A statement whose failure throws (maybeThrow).
Checked(r) == /\ Takes(r)
              /\ IF r.answer = "ok" THEN Continue ELSE Throw(r.answer)

\* A number is used up when the server did the work.
Numbered(item) ==
  IF item \in Range(session'.work) \cup UNION commits' THEN item.no ELSE items

RunTable ==
  /\ Step("table") \/ Step("index")
  /\ LET item == [kind |-> "table", no |-> items + 1]
     IN  \E r \in TableResults(item) :
           /\ Takes(r)
           /\ \/ r.answer = "ok" /\ Continue
              \/ r.answer # "ok" /\ Throw(r.answer)
              \/ \* ten indexes in a row back a foreign key: nothing to drop
                 /\ Step("index") /\ r.answer = "error" /\ session'.tx = "none"
                 /\ prog' = << >> /\ UNCHANGED << pc, exc >>
           /\ made' = IF r.answer = "ok" THEN << item >> ELSE << >>
           /\ items' = Numbered(item)
           /\ mine' = IF r.answer = "ok" /\ Buffered THEN mine \cup {item} ELSE mine
  /\ sent' = TRUE
  /\ UNCHANGED << config, catalog, client, ownGuard, outcomes, begun >>

RunRow ==
  /\ Step("row")
  /\ LET item == [kind |-> "row", no |-> items + 1]
     IN  \E r \in RowResults(item) :
           /\ Checked(r)
           /\ items' = Numbered(item)
           /\ mine' = IF r.answer = "ok" /\ Buffered THEN mine \cup {item} ELSE mine
  /\ sent' = TRUE
  /\ UNCHANGED << config, catalog, client, made, ownGuard, outcomes, begun >>

RunSet ==
  /\ Step("set")
  /\ \E r \in SetResults : Checked(r)
  /\ sent' = TRUE
  /\ UNCHANGED << config, catalog, client, made, ownGuard, outcomes, begun,
                  items, mine >>

\* Statements whose failure the action swallows.
RunUnchecked ==
  /\ Step("part") \/ Step("reset")
  /\ \E r \in IF Step("part") THEN PartResults ELSE SetResults : Takes(r)
  /\ Continue
  /\ sent' = TRUE
  /\ UNCHANGED << config, catalog, client, made, ownGuard, outcomes, begun,
                  items, mine >>

\* The catalog delta: into the op-log, or straight into the catalog.
RunWrite ==
  /\ Step("write")
  /\ IF Buffered
     THEN log' = log \o made /\ UNCHANGED catalog
     ELSE catalog' = catalog \cup Range(made) /\ UNCHANGED log
  /\ made' = << >>
  /\ Continue
  /\ UNCHANGED << config, server, inTrx, armed, savepoints, spCounter, subsLeft,
                  branch, end, ownGuard, sent, history >>

RunRaise ==
  /\ Step("raise") \/ Step("throw")
  /\ Throw(IF Step("raise") THEN "action" ELSE "other")
  /\ UNCHANGED << config, server, catalog, client, made, ownGuard, sent, history >>

\* SelectThenDelete / SelectThenUpdate outside a transaction open their own.
RunOwnBegin ==
  /\ Step("begin")
  /\ \E r \in BeginResults : Checked(r) /\ ownGuard' = (r.answer = "ok")
  /\ sent' = TRUE
  /\ UNCHANGED << config, catalog, client, made, outcomes, begun, items, mine >>

RunOwnCommit ==
  /\ Step("commit")
  /\ \E r \in CommitResults :
       /\ Takes(r)
       /\ IF r.answer = "ok" THEN Continue
          ELSE prog' = << >> /\ exc' = r.answer /\ pc' = "caught"
  /\ ownGuard' = FALSE /\ sent' = TRUE
  /\ UNCHANGED << config, catalog, client, made, outcomes, begun, items, mine >>

OwnRollback ==
  /\ pc = "ownRollback"
  /\ \E r \in RollbackResults : Takes(r)
  /\ ownGuard' = FALSE
  /\ pc' = "caught"
  /\ UNCHANGED << config, catalog, client, prog, made, sent, exc, outcomes,
                  begun, items, mine >>

-----------------------------------------------------------------------------
(* The end of a sub-action, branch by branch. *)

SubReturns ==
  /\ pc = "run" /\ prog = << >>
  /\ \/ branch = "mirror" /\ pc' = "implicit"
     \/ branch = "savepoint" /\ pc' = "rewind"
     \/ branch \in {"tail", "abort"} /\ pc' = "draw"
  /\ UNCHANGED << config, server, catalog, client, subvars, exc, history >>

\* Mutants of LogTo: the buffer is left alone; the buffer is discarded.
LogKept(sp) == log
LogDiscarded(sp) == << >>

\* TxnBuffer::rollbackTo().
LogTo(sp) == SubSeq(log, 1, sp.mark)

\* The log after ROLLBACK TO the savepoint sp, and what the server kept.
Rewound(sp) == /\ log' = LogTo(sp)
               /\ mine' = mine \cap Range(session'.work)

\* pstress-style: sometimes rewind to a random savepoint after a success.
Rewind ==
  /\ pc = "rewind"
  /\ \E pick \in DOMAIN savepoints :
       \E r \in RollbackToResults(savepoints[pick].name) :
         /\ Takes(r)
         /\ IF r.answer = "ok"
            THEN /\ Rewound(savepoints[pick])
                 /\ savepoints' = SubSeq(savepoints, 1, pick)
                 /\ pc' = "draw" /\ UNCHANGED exc
            ELSE /\ pc' = "caught" /\ exc' = r.answer
                 /\ UNCHANGED << log, savepoints, mine >>
  /\ UNCHANGED << config, catalog, inTrx, armed, spCounter, subsLeft, branch,
                  end, subvars, outcomes, begun, items >>

NoRewind ==
  /\ pc = "rewind"
  /\ pc' = "draw"
  /\ UNCHANGED << config, server, catalog, client, subvars, exc, history >>

\* A SQL error or an ActionException, as opposed to a lost connection or an
\* exception no handler of execute() names.
Recoverable == exc \in {"error", "aborted", "action"}

LastSavepoint == savepoints[Len(savepoints)]

\* savepoint mode: back to the savepoint taken before this sub-action.  A
\* failed ROLLBACK TO leaves execute() through the catch block.
RecoverSavepoint ==
  /\ pc = "caught" /\ branch = "savepoint" /\ Recoverable
  /\ LET sp == LastSavepoint
     IN  \E r \in RollbackToResults(sp.name) :
           /\ Takes(r)
           /\ IF r.answer = "ok"
              THEN Rewound(sp) /\ pc' = "draw" /\ exc' = "none"
              ELSE /\ pc' = "leave" /\ exc' = r.answer
                   /\ UNCHANGED << log, mine >>
  /\ UNCHANGED << config, catalog, inTrx, armed, savepoints, spCounter, subsLeft,
                  branch, end, subvars, outcomes, begun, items >>

\* Mutant of NeedsClose: a failed DDL is taken to have changed nothing.
NeverCloses == FALSE

\* A failed mirrored DDL that sent a statement may or may not have committed.
NeedsClose == branch = "mirror" /\ sent

\* mirror and tail: the failure is only counted; mirror has to see whether
\* the server may have ended the transaction.
CountFailure ==
  /\ pc = "caught" /\ branch \in {"mirror", "tail"} /\ Recoverable
  /\ exc' = "none"
  /\ pc' = IF NeedsClose THEN "closeDdl" ELSE "draw"
  /\ UNCHANGED << config, server, catalog, client, subvars, history >>

ArmedOnRethrow == armed /\ exc # "gone"

\* Everything else is rethrown; a lost connection disarms the guard (but for
\* the tail, which has none armed).
Rethrow ==
  /\ pc = "caught"
  /\ ~Recoverable \/ branch = "abort"
  /\ armed' = ArmedOnRethrow
  /\ pc' = "leave"
  /\ UNCHANGED << config, server, catalog, inTrx, log, savepoints, spCounter,
                  subsLeft, branch, end, subvars, exc, history >>

\* A failed DDL sent something: COMMIT, the transaction may still be open.
CloseDdl ==
  /\ pc = "closeDdl"
  /\ \E r \in CommitResults :
       /\ Takes(r)
       /\ IF r.answer = "ok" THEN pc' = "implicit" /\ UNCHANGED exc
          ELSE pc' = "leave" /\ exc' = r.answer
  /\ UNCHANGED << config, catalog, client, subvars, outcomes, begun, items, mine >>

ImplicitlyCommitted == sent

\* publishAll() runs after a COMMIT and after an implicit commit.
Publishing == pc = "publish" \/ (pc = "implicit" /\ ImplicitlyCommitted)

\* publishAll() replays the op-log, one locked call of the catalog per op, and
\* the other workers read the catalog between two of them.  What is left of log
\* is still to come; nothing else looks at it until it is discarded.
PublishOp ==
  /\ Publishing /\ log # << >>
  /\ catalog' = catalog \cup {Head(log)}
  /\ log' = Tail(log)
  /\ UNCHANGED << config, server, pc, inTrx, armed, savepoints, spCounter,
                  subsLeft, branch, end, subvars, exc, history >>

\* The implicit commit happened if the DDL sent anything at all.  What was
\* buffered is published, and the rest of the action runs in autocommit.
ImplicitCommit ==
  /\ pc = "implicit"
  /\ IF ImplicitlyCommitted
     THEN /\ log = << >>
          /\ savepoints' = << >>
          /\ inTrx' = FALSE /\ armed' = FALSE
          /\ end' = "committed"
     ELSE UNCHANGED << savepoints, inTrx, armed, end >>
  /\ pc' = "draw"
  /\ UNCHANGED << config, server, catalog, log, spCounter, subsLeft, branch,
                  subvars, exc, history >>

-----------------------------------------------------------------------------
(* The end of the transaction. *)

Finished == pc = "draw" /\ subsLeft = 0

Commit ==
  /\ Finished /\ inTrx
  /\ \E r \in CommitResults :
       /\ Takes(r)
       /\ IF r.answer = "ok"
          THEN end' = "committed" /\ pc' = "publish" /\ UNCHANGED exc
          ELSE exc' = r.answer /\ pc' = "leave" /\ UNCHANGED end
  /\ armed' = FALSE
  /\ UNCHANGED << config, catalog, inTrx, log, savepoints, spCounter, subsLeft,
                  branch, subvars, outcomes, begun, items, mine >>

\* publishAll() has replayed the whole log.
EndPublish ==
  /\ pc = "publish" /\ log = << >>
  /\ pc' = "leave"
  /\ UNCHANGED << config, server, catalog, client, subvars, exc, history >>

Rollback ==
  /\ Finished /\ inTrx
  /\ \E r \in RollbackResults :
       /\ Takes(r)
       /\ IF r.answer = "ok" THEN end' = "rolledBackIntentional" /\ UNCHANGED exc
          ELSE exc' = r.answer /\ UNCHANGED end
  /\ armed' = FALSE
  /\ pc' = "leave"
  /\ UNCHANGED << config, catalog, inTrx, log, savepoints, spCounter, subsLeft,
                  branch, subvars, outcomes, begun, items, mine >>

EndTail ==
  /\ Finished /\ ~inTrx
  /\ pc' = "leave"
  /\ UNCHANGED << config, server, catalog, client, subvars, exc, history >>

\* The destructors, normal return or unwinding: ~TxGuard, ~TxnBuffer,
\* ~TxnRecorder.
Leave ==
  /\ pc = "leave"
  /\ IF armed THEN \E r \in RollbackResults : Takes(r)
     ELSE UNCHANGED << server, lost >>
  /\ armed' = FALSE
  /\ log' = << >>
  /\ outcomes' = Append(outcomes, end)
  /\ pc' = "loop"
  /\ UNCHANGED << config, catalog, inTrx, savepoints, spCounter, subsLeft, branch,
                  end, subvars, exc, begun, items, mine >>

Execute == \/ Begin \/ Draw \/ TakeSavepoint
           \/ RunTable \/ RunRow \/ RunSet \/ RunUnchecked \/ RunWrite
           \/ RunRaise \/ RunOwnBegin \/ RunOwnCommit \/ OwnRollback
           \/ SubReturns \/ Rewind \/ NoRewind \/ RecoverSavepoint
           \/ CountFailure \/ Rethrow \/ CloseDdl \/ ImplicitCommit
           \/ PublishOp \/ Commit \/ EndPublish \/ Rollback \/ EndTail \/ Leave

\* The workload may end whenever the worker is between two actions.
Stop == pc = "loop" /\ UNCHANGED vars

Next == Reconnect \/ Execute \/ Stop

Spec == Init /\ [][Next]_vars

-----------------------------------------------------------------------------
\* docs/transactions.md: "the catalog must only ever reflect durable state,
\* never work that might still roll back" - through every failure, rewind and
\* implicit commit, and wherever the connection breaks.  And as long as the
\* connection holds it is complete: between two transactions it shows every
\* table change the server has committed.
CatalogIsDurable ==
  /\ catalog \subseteq Durable
  /\ (pc = "loop" /\ ~lost) => catalog = Tables(Durable)

InTransaction == pc = "draw" /\ inTrx /\ session.up

\* Units of work are numbered as the server does them.
InOrder(s) == \A i, j \in DOMAIN s : i < j => s[i].no < s[j].no

\* The deltas are those of the work's tables, in the order of the work.
Mirrors(deltas, work) == InOrder(deltas) /\ Range(deltas) = Tables(Range(work))

\* The program's idea of the transaction is the server's.  Between two
\* sub-actions it is open and healthy, and the op-log
\* holds exactly the table changes the server would commit: no sub-action
\* that failed, was rewound or hit a swallowed error leaves a delta behind.
\* The savepoints execute() remembers are those the server still has, and
\* each mark cuts the op-log where the savepoint cuts the server's work.
\* Between two actions there is none (TxGuard): the worker reuses its connection,
\* so none of the ways out of execute() may leave the server inside one.
\* And no action opens its own transaction inside this one (inTransaction()).
BufferMirrorsServer ==
  /\ pc = "loop" => session.tx = "none"
  /\ ownGuard => branch = "tail"
  /\ InTransaction =>
       /\ session.tx = "open"
       /\ Mirrors(log, session.work)
       /\ Len(savepoints) = Len(session.sps)
       /\ \A i \in DOMAIN savepoints :
            /\ savepoints[i].name = session.sps[i].name
            /\ savepoints[i].mark <= Len(log)
            /\ Mirrors(SubSeq(log, 1, savepoints[i].mark),
                       SubSeq(session.work, 1, session.sps[i].mark))

\* TxnRecorder: one outcome per transaction begun, none for a failed BEGIN,
\* and it tells the truth: "committed" only if what was not rewound is
\* durable, "rolled back" only if none of it is (a connection that broke
\* leaves that open).
OutcomesTruthful ==
  /\ Len(outcomes) = IF pc = "loop" THEN begun ELSE begun - 1
  /\ (pc = "loop" /\ begun > 0) =>
       IF outcomes[begun] = "committed" THEN mine \subseteq Durable
       ELSE ~lost => mine \cap Durable = {}

\* The tables of the commit G that the catalog does not show.
Missing(G) == Tables(G) \ catalog

\* What the other workers may see of a commit: all of its tables, none, or - and
\* only while publishAll() runs - the first of them in the order of the work,
\* with exactly the others still to come from the op-log.  No rewind, lost
\* answer or half-failed sub-action leaves a commit in the catalog in part.
\* docs/transactions.md says more: "published into the shared catalog in one
\* shot", which publishAll() is not.
PartialCommitsUnderWay ==
  \A G \in commits : Missing(G) \in {{}, Tables(G)} \/
    /\ Publishing /\ Missing(G) = Range(log)
    /\ \A shown \in Tables(G) \ Missing(G), due \in Missing(G) : shown.no < due.no
=============================================================================

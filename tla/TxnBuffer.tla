----------------------------- MODULE TxnBuffer ------------------------------
(***************************************************************************)
(* metadata::TxnBuffer<Table> and the merged reads of CatalogView          *)
(* (core/include/metadata/context.hpp): one worker's open transaction over *)
(* the shared catalog, which the other workers go on changing.             *)
(*                                                                         *)
(* The worker's writes are appended to an op-log and applied to an overlay *)
(* (local, erased); its reads merge the overlay over the catalog.  ROLLBACK*)
(* TO SAVEPOINT truncates the log to a mark and rebuilds the overlay from  *)
(* it; COMMIT replays the log into the catalog, one lock-protected catalog *)
(* call per op, so other workers run between two of them.                  *)
(*                                                                         *)
(* A table is its name and a set of parts (columns, indexes, partitions,   *)
(* references).  A delta adds a part, removes one (and refuses when it is  *)
(* not there, as the partition and reference deltas of ddl.cpp do), or     *)
(* renames the table.                                                      *)
(***************************************************************************)
EXTENDS SequencesExt, CatalogOps

CONSTANTS Name,      \* table names
          Part,      \* what a table consists of
          Old,       \* how many tables exist when the transaction begins
          MaxId,     \* bound: ids handed out in one behaviour
          MaxLog,    \* bound: length of the op-log
          MaxRival   \* bound: catalog changes by the other workers

ASSUME TxnBufferAssumption ==
  /\ MaxId \in Nat /\ MaxLog \in Nat /\ MaxRival \in Nat
  /\ Old \in 0 .. MaxId
  /\ Name # {}

VARIABLES catalog,   \* the shared Catalog<Table>
          nextId,    \* Registry::nextId_
          log,       \* TxnBuffer::log_
          local,     \* TxnBuffer::local_, id -> record
          erased,    \* TxnBuffer::erased_
          left,      \* ops publishAll() has still to replay; -1: not running
          rivals,    \* how often other workers changed the catalog (bounded)
          clash,     \* history: ids a rival changed after this log wrote them
          seen       \* history: the merged view when publishAll() began

buffer == << log, local, erased >>
vars == << catalog, nextId, buffer, left, rivals, clash, seen >>

Id    == 1 .. MaxId
Rec   == [name : Name, parts : SUBSET Part]
Delta == [kind : {"add", "remove"}, part : Part]
         \cup [kind : {"rename"}, name : Name]
Op    == [kind : {"insert"}, id : Id, rec : Rec]
         \cup [kind : {"update"}, id : Id, delta : Delta]
         \cup [kind : {"erase"}, id : Id]

\* The delta's bool result: FALSE leaves the record alone.
Accepts(d, rec) == d.kind = "remove" => d.part \in rec.parts

Apply(d, rec) ==
  CASE d.kind = "add"    -> [rec EXCEPT !.parts = @ \cup {d.part}]
    [] d.kind = "remove" -> [rec EXCEPT !.parts = @ \ {d.part}]
    [] d.kind = "rename" -> [rec EXCEPT !.name = d.name]

-----------------------------------------------------------------------------
\* The catalog's own methods, with their refusals.

CatalogInsert(c, id, rec) == IF Insertable(c, id) THEN Inserted(c, id, rec) ELSE c

CatalogUpdate(c, id, d) ==
  IF id \in Live(c) /\ Accepts(d, RecOf(c, id))
  THEN Updated(c, id, Apply(d, RecOf(c, id))) ELSE c

CatalogErase(c, id) == IF id \in Live(c) THEN Erased(c, id) ELSE c

\* One op of the log, replayed by publishAll(); results are ignored.
Replayed(c, op) ==
  CASE op.kind = "insert" -> CatalogInsert(c, op.id, op.rec)
    [] op.kind = "update" -> CatalogUpdate(c, op.id, op.delta)
    [] op.kind = "erase"  -> CatalogErase(c, op.id)

\* publishAll(): the ops, in their order.
Replay(c, ops) == FoldLeft(Replayed, c, ops)

-----------------------------------------------------------------------------
\* The overlay [local, erased] and the merged reads over catalog c.

Overlay == [local |-> local, erased |-> erased]
EmptyOverlay == [local |-> EmptyFcn, erased |-> {}]

ViewHas(c, o, id) ==
  id \notin o.erased /\ (id \in DOMAIN o.local \/ id \in Live(c))

ViewRec(c, o, id) ==
  IF id \in DOMAIN o.local THEN o.local[id] ELSE RecOf(c, id)

ViewIds(c, o) ==
  (SnapshotIds(c) \ (o.erased \cup DOMAIN o.local)) \cup DOMAIN o.local

\* byName(): the overlay first (any of its records with that name, the map is
\* unordered), then the catalog's entry unless the overlay made it stale.
ViewByName(c, o, n) ==
  LET mine == {id \in DOMAIN o.local : o.local[id].name = n}
  IN  IF mine # {} THEN mine
      ELSE IF n \notin DOMAIN c.names THEN {}
      ELSE {c.names[n]} \ (o.erased \cup DOMAIN o.local)

\* Does the overlay take the op?  A refused op is not logged.
OverlayTakes(c, o, op) ==
  CASE op.kind = "insert" -> op.id # NoId
    [] op.kind = "update" -> /\ ViewHas(c, o, op.id)
                             /\ Accepts(op.delta, ViewRec(c, o, op.id))
    [] op.kind = "erase"  -> ViewHas(c, o, op.id)

OverlayAfter(c, o, op) ==
  CASE op.kind = "insert" -> [local  |-> Put(o.local, op.id, op.rec),
                              erased |-> o.erased \ {op.id}]
    [] op.kind = "update" -> [o EXCEPT !.local =
                                Put(@, op.id, Apply(op.delta, ViewRec(c, o, op.id)))]
    [] op.kind = "erase"  -> [local  |-> Restrict(o.local, DOMAIN o.local \ {op.id}),
                              erased |-> o.erased \cup {op.id}]

\* One op of the log, applied to an overlay again.
Retaken(c, o, op) ==
  IF OverlayTakes(c, o, op) THEN OverlayAfter(c, o, op) ELSE o

\* Mutant of Rebuilt: the replay starts from the overlay that is there.
RebuiltOnTop(c, ops) ==
  LET step(o, op) == Retaken(c, o, op)
  IN  FoldLeft(step, Overlay, ops)

\* rebuildOverlay(): ops that no longer apply are skipped, not removed.
Rebuilt(c, ops) ==
  LET step(o, op) == Retaken(c, o, op)
  IN  FoldLeft(step, EmptyOverlay, ops)

-----------------------------------------------------------------------------
\* What a reader finds under id: a record, or nothing.

Gone == [name |-> "gone"]
InCatalog(c, id) == IF id \in Live(c) THEN RecOf(c, id) ELSE Gone
InView(c, o, id) == IF ViewHas(c, o, id) THEN ViewRec(c, o, id) ELSE Gone

Written(ops) == {ops[i].id : i \in DOMAIN ops}

Publishing == left >= 0

\* The tables that were created before the transaction.
OldTables ==
  [i \in 1 .. Old |->
     [kind |-> "insert", id |-> i,
      rec |-> [name |-> CHOOSE n \in Name : TRUE, parts |-> {}]]]

Init ==
  /\ catalog = Replay(EmptyCatalog, OldTables)
  /\ nextId = Old + 1
  /\ log = << >> /\ local = EmptyFcn /\ erased = {}
  /\ left = -1
  /\ rivals = 0
  /\ clash = {}
  /\ seen = << >>

-----------------------------------------------------------------------------
\* The worker inside its transaction.

Buffer(op) ==
  /\ ~Publishing
  /\ Len(log) < MaxLog
  /\ OverlayTakes(catalog, Overlay, op)
  /\ LET o == OverlayAfter(catalog, Overlay, op)
     IN  local' = o.local /\ erased' = o.erased
  /\ log' = Append(log, op)
  /\ UNCHANGED << catalog, left, rivals, clash, seen >>

TxnInsert(n) ==
  /\ nextId <= MaxId
  /\ Buffer([kind |-> "insert", id |-> nextId, rec |-> [name |-> n, parts |-> {}]])
  /\ nextId' = nextId + 1

TxnUpdate(id, d) ==
  Buffer([kind |-> "update", id |-> id, delta |-> d]) /\ UNCHANGED nextId

TxnErase(id) == Buffer([kind |-> "erase", id |-> id]) /\ UNCHANGED nextId

RollbackTo(m) ==
  /\ ~Publishing
  /\ log' = SubSeq(log, 1, m)
  /\ LET o == Rebuilt(catalog, log')
     IN  local' = o.local /\ erased' = o.erased
  /\ clash' = {}                     \* the rebuild read the catalog again
  /\ UNCHANGED << catalog, nextId, left, rivals, seen >>

Discarded == /\ log' = << >> /\ local' = EmptyFcn /\ erased' = {}
             /\ clash' = {} /\ seen' = << >>

\* ROLLBACK: the buffer dies with the transaction.
Discard == /\ ~Publishing
           /\ Discarded
           /\ UNCHANGED << catalog, nextId, left, rivals >>

\* COMMIT succeeded: publishAll() begins.
BeginPublish ==
  /\ ~Publishing /\ log # << >>
  /\ left' = Len(log)
  /\ seen' = [id \in Id |-> InView(catalog, Overlay, id)]
  /\ UNCHANGED << catalog, nextId, buffer, rivals, clash >>

\* Mutant of NextOp: the log is replayed from its end.
LastOp == log[left]

NextOp == log[Len(log) - left + 1]

PublishOp ==
  /\ left > 0
  /\ catalog' = Replayed(catalog, NextOp)
  /\ left' = left - 1
  /\ UNCHANGED << nextId, buffer, rivals, clash, seen >>

EndPublish ==
  /\ left = 0
  /\ left' = -1
  /\ Discarded
  /\ UNCHANGED << catalog, nextId, rivals >>

-----------------------------------------------------------------------------
\* The other workers, at any time, through the same catalog methods.

RivalChanges(id, c) ==
  /\ rivals < MaxRival
  /\ c # catalog
  /\ catalog' = c
  /\ rivals' = rivals + 1
  /\ clash' = IF id \in Written(log) THEN clash \cup {id} ELSE clash
  /\ UNCHANGED << buffer, left, seen >>

RivalInsert(n) ==
  /\ nextId <= MaxId
  /\ RivalChanges(nextId, CatalogInsert(catalog, nextId,
                                        [name |-> n, parts |-> {}]))
  /\ nextId' = nextId + 1

RivalUpdate(id, d) ==
  RivalChanges(id, CatalogUpdate(catalog, id, d)) /\ UNCHANGED nextId

RivalErase(id) ==
  RivalChanges(id, CatalogErase(catalog, id)) /\ UNCHANGED nextId

Next ==
  \/ \E n \in Name : TxnInsert(n)
  \/ \E id \in Id, d \in Delta : TxnUpdate(id, d)
  \/ \E id \in Id : TxnErase(id)
  \/ \E m \in 0 .. Len(log) : RollbackTo(m)
  \/ Discard
  \/ BeginPublish
  \/ PublishOp
  \/ EndPublish
  \/ \E n \in Name : RivalInsert(n)
  \/ \E id \in Id, d \in Delta : RivalUpdate(id, d)
  \/ \E id \in Id : RivalErase(id)

Spec == Init /\ [][Next]_vars

-----------------------------------------------------------------------------
\* The merged reads agree: byName() leads only to a visible record that has
\* the name, even when the transaction renamed or erased what the catalog's
\* index still answers with, and snapshotAll() lists what byId() finds.
ReadsAgree ==
  /\ \A n \in Name : \A id \in ViewByName(catalog, Overlay, n) :
        /\ ViewHas(catalog, Overlay, id)
        /\ ViewRec(catalog, Overlay, id).name = n
  /\ \A id \in Id :
        id \in ViewIds(catalog, Overlay) <=> ViewHas(catalog, Overlay, id)

\* The transaction sees what a COMMIT at this moment would publish: the
\* overlay, built op by op or rebuilt after a rollback to a mark, agrees with
\* the log replayed over the catalog as it is now, for every object no other
\* worker changed behind the transaction's back; and it sees the same by
\* whichever of the merged reads.
ViewIsReplay ==
  /\ ~Publishing =>
       LET after == Replay(catalog, log)
       IN  \A id \in Id \ clash :
              InView(catalog, Overlay, id) = InCatalog(after, id)
  /\ ReadsAgree

\* publishAll() delivers what the transaction saw when it committed: with the
\* ops still to come, the catalog leads to the view of that moment, however
\* the other workers' changes of other objects fall between the ops.
PublishesWhatWasSeen ==
  Publishing =>
     LET after == Replay(catalog, SubSeq(log, Len(log) - left + 1, Len(log)))
     IN  \A id \in Written(log) \ clash : InCatalog(after, id) = seen[id]
=============================================================================

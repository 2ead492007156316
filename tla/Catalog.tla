------------------------------ MODULE Catalog -------------------------------
(***************************************************************************)
(* The shared metadata catalog with the actors that use it                 *)
(* (core/include/metadata/catalog.hpp).  Every DDL action follows one      *)
(* protocol: take an id or pick a snapshot of a record, run SQL with no    *)
(* lock held, then publish the change by id.  Between the pick and the     *)
(* publish the catalog may have changed in any way, the object may even    *)
(* be gone.  A delta is applied to the CURRENT record, never to the        *)
(* snapshot.                                                               *)
(*                                                                         *)
(* A record is its name and the set of edits that were merged into it (the *)
(* edit of an actor is named after the actor); that is enough to tell a    *)
(* lost update.  The version counter ("observability only") is left out.   *)
(***************************************************************************)
EXTENDS Registry

CONSTANTS Actor,     \* the threads that use the catalog
          Name,      \* the table names they choose from
          MaxId      \* bound: ids the registry hands out in one behaviour

ASSUME MaxIdAssumption == MaxId \in Nat \ {0}

VARIABLES held,      \* actor -> what its running action works with
          acked,     \* history: << id, actor >> whose edit update() accepted
          dead       \* history: ids that were erased, or cleared by a reset

vars == << catalog, nextId, held, acked, dead >>

Id   == 1 .. MaxId
Rec  == [name : Name, edits : SUBSET Actor]
Idle == [kind |-> "idle"]
Held == {Idle}
        \cup [kind : {"fresh"}, id : Id]                \* a private new record
        \cup [kind : {"snapshot"}, id : Id, rec : Rec]  \* a picked snapshot

Holds(a, kind) == held[a].kind = kind

\* Mutant of FirstId: the reserved id is handed out.
FirstIdZero == 0

FirstId == 1

Init == /\ catalog = EmptyCatalog
        /\ nextId = FirstId
        /\ held  = [a \in Actor |-> Idle]
        /\ acked = {}
        /\ dead  = {}

-----------------------------------------------------------------------------
\* The start of an action: an id for a new object, or a snapshot.

TakeId(a) ==
  /\ Holds(a, "idle")
  /\ nextId <= MaxId
  /\ held'   = [held EXCEPT ![a] = [kind |-> "fresh", id |-> nextId]]
  /\ nextId' = NextId
  /\ UNCHANGED << catalog, acked, dead >>

Snapshot(a, id) ==
  held' = [held EXCEPT
             ![a] = [kind |-> "snapshot", id |-> id, rec |-> RecOf(catalog, id)]]

\* randomPick(): nothing is picked from an empty catalog.
RandomPick(a) ==
  /\ Holds(a, "idle")
  /\ \E i \in DOMAIN catalog.sampling : Snapshot(a, catalog.sampling[i])
  /\ UNCHANGED << catalog, nextId, acked, dead >>

ByName(a, n) ==
  /\ Holds(a, "idle")
  /\ n \in DOMAIN catalog.names
  /\ Snapshot(a, catalog.names[n])
  /\ UNCHANGED << catalog, nextId, acked, dead >>

-----------------------------------------------------------------------------
\* The end of an action: the publish.

Done(a) == held' = [held EXCEPT ![a] = Idle]

Insert(a, n) ==
  /\ Holds(a, "fresh")
  /\ catalog' = IF Insertable(catalog, held[a].id)
                THEN Inserted(catalog, held[a].id, [name |-> n, edits |-> {}])
                ELSE catalog
  /\ Done(a)
  /\ UNCHANGED << nextId, acked, dead >>

\* Mutant of DeltaBase: the delta is merged into the actor's old snapshot.
SnapshotBase(a) == held[a].rec

\* The record a delta is applied to: the current one.
DeltaBase(a) == RecOf(catalog, held[a].id)

\* update() with a delta that keeps the name (a column, an index, ...).
Edit(a) ==
  /\ Holds(a, "snapshot")
  /\ LET id == held[a].id
     IN  IF id \in Live(catalog)
         THEN /\ catalog' = Updated(catalog, id,
                    [DeltaBase(a) EXCEPT !.edits = @ \cup {a}])
              /\ acked' = acked \cup {<< id, a >>}
         ELSE UNCHANGED << catalog, acked >>      \* concurrent DROP won
  /\ Done(a)
  /\ UNCHANGED << nextId, dead >>

\* update() with a delta that renames.
Rename(a, n) ==
  /\ Holds(a, "snapshot")
  /\ LET id == held[a].id
     IN  catalog' = IF id \in Live(catalog)
                    THEN Updated(catalog, id, [DeltaBase(a) EXCEPT !.name = n])
                    ELSE catalog
  /\ Done(a)
  /\ UNCHANGED << nextId, acked, dead >>

\* The SQL failed, or the delta refused the current record: no publish.
GiveUp(a) ==
  /\ ~Holds(a, "idle")
  /\ Done(a)
  /\ UNCHANGED << catalog, nextId, acked, dead >>

Erase(a) ==
  /\ Holds(a, "snapshot")
  /\ LET id == held[a].id
     IN  IF id \in Live(catalog)
         THEN /\ catalog' = Erased(catalog, id)
              /\ dead' = dead \cup {id}
         ELSE UNCHANGED << catalog, dead >>
  /\ Done(a)
  /\ UNCHANGED << nextId, acked >>

\* Mutant of NextIdAfterReset: a reset starts the ids over.
RewoundNextId == FirstId

NextIdAfterReset == nextId

\* Registry::reset() clears the catalog and deliberately keeps nextId_.
Reset ==
  /\ dead' = dead \cup Live(catalog)
  /\ catalog' = EmptyCatalog
  /\ nextId' = NextIdAfterReset
  /\ UNCHANGED << held, acked >>

Act(a) == \/ TakeId(a)
          \/ RandomPick(a)
          \/ \E n \in Name : ByName(a, n)
          \/ \E n \in Name : Insert(a, n)
          \/ Edit(a)
          \/ \E n \in Name : Rename(a, n)
          \/ GiveUp(a)
          \/ Erase(a)

Next == Reset \/ \E a \in Actor : Act(a)

Spec == Init /\ [][Next]_vars

-----------------------------------------------------------------------------
\* Every variable keeps its type; the maps' keys and values stay in range.
TypeOK ==
  /\ nextId \in 1 .. MaxId + 1
  /\ held \in [Actor -> Held]
  /\ dead \subseteq Id
  /\ acked \subseteq Id \X Actor
  /\ Live(catalog) \subseteq Id
  /\ catalog.slots \in [Live(catalog) -> [rec : Rec, pos : Nat]]
  /\ catalog.sampling \in Seq(Id)
  /\ DOMAIN catalog.names \subseteq Name
  /\ catalog.names \in [DOMAIN catalog.names -> Id]

\* sampling holds every live id once, and each slot knows its place: what
\* erase()'s swap-remove has to keep for randomPick(), size() and
\* snapshotAll() to be right.
SamplingExact ==
  /\ \A id \in Live(catalog) :
        /\ catalog.slots[id].pos \in DOMAIN catalog.sampling
        /\ catalog.sampling[catalog.slots[id].pos] = id
  /\ \A i \in DOMAIN catalog.sampling :
        /\ catalog.sampling[i] \in Live(catalog)
        /\ catalog.slots[catalog.sampling[i]].pos = i

\* A name entry always leads to a live object that has that name, so the
\* slots_.at() in byName() cannot throw, through any mix of renames onto
\* taken names, drops and resets.
NamesTruthful ==
  \A n \in DOMAIN catalog.names :
     /\ catalog.names[n] \in Live(catalog)
     /\ RecOf(catalog, catalog.names[n]).name = n

\* An edit that update() accepted stays in the record for the object's whole
\* life, whatever snapshots other actors publish from.
NoLostUpdate ==
  \A p \in acked : p[1] \in Live(catalog) => p[2] \in RecOf(catalog, p[1]).edits

\* An id that was erased, or cleared by a reset, never leads to an object
\* again: a Ref or a snapshot kept by an actor cannot reach a stranger.
NeverResurrected ==
  /\ dead \cap Live(catalog) = {}
  /\ \A a \in Actor : Holds(a, "fresh") => held[a].id \notin dead

\* The catalog is the map of records with a last-publish-wins name index.
Abstract == INSTANCE CatalogAbs
              WITH recs  <- [id \in Live(catalog) |-> RecOf(catalog, id)],
                   index <- catalog.names
LastPublishWins == Abstract!Spec
=============================================================================

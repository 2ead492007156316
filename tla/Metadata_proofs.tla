--------------------------- MODULE Metadata_proofs ---------------------------
(***************************************************************************)
(* Proofs about the metadata.                                              *)
(*                                                                         *)
(* Catalog: for every set of actors and names and every number of ids, the *)
(* three members of metadata::Catalog stay consistent.                     *)
(*                                                                         *)
(* Discovery: for every server that the program's DDL can make, and every  *)
(* number of calls, of failed queries and of changes by other sessions, a  *)
(* discovery records what it could read exactly as it is, and              *)
(* validate_metadata() accepts just when the catalog was right.            *)
(***************************************************************************)
EXTENDS Catalog, Discovery, FiniteSetTheorems, TLAPS

-----------------------------------------------------------------------------
(* Catalog. *)

\* What a catalog value is, for any set of records.
CatalogType(c) ==
  /\ Live(c) \subseteq Id
  /\ c = [slots |-> c.slots, sampling |-> c.sampling, names |-> c.names]
  /\ c.slots \in [Live(c) -> [rec : Rec, pos : Nat]]
  /\ c.sampling \in Seq(Id)
  /\ DOMAIN c.names \subseteq Name
  /\ c.names \in [DOMAIN c.names -> Id]

Sampled(c) ==
  /\ \A id \in Live(c) :
        /\ c.slots[id].pos \in 1 .. Len(c.sampling)
        /\ c.sampling[c.slots[id].pos] = id
  /\ \A i \in 1 .. Len(c.sampling) :
        /\ c.sampling[i] \in Live(c)
        /\ c.slots[c.sampling[i]].pos = i

Named(c) ==
  \A n \in DOMAIN c.names :
     c.names[n] \in Live(c) /\ c.slots[c.names[n]].rec.name = n

Consistent(c) == CatalogType(c) /\ Sampled(c) /\ Named(c)

\* The empty catalog, before the first insert() and after reset().
LEMMA EmptyConsistent == Consistent(EmptyCatalog)
  BY DEF Consistent, CatalogType, Sampled, Named, EmptyCatalog, EmptyFcn, Live

\* insert() of a record that is not there keeps the members consistent.
LEMMA InsertedConsistent ==
  ASSUME NEW c, Consistent(c), NEW id \in Id, id \notin Live(c), NEW rec \in Rec
  PROVE  Consistent(Inserted(c, id, rec))
<1> DEFINE d == Inserted(c, id, rec)
<1>1. /\ Live(d) = Live(c) \cup {id}
      /\ d.sampling = Append(c.sampling, id)
      /\ d.slots[id] = [rec |-> rec, pos |-> Len(c.sampling) + 1]
      /\ \A x \in Live(c) : d.slots[x] = c.slots[x]
      /\ DOMAIN d.names = DOMAIN c.names \cup {rec.name}
      /\ d.names[rec.name] = id
      /\ \A n \in DOMAIN c.names \ {rec.name} : d.names[n] = c.names[n]
  BY DEF Inserted, Put, Live
<1>2. CatalogType(d)
  BY <1>1 DEF Consistent, CatalogType, Inserted, Put, Live, Rec
<1>3. Sampled(d)
  BY <1>1 DEF Consistent, CatalogType, Sampled
<1>4. Named(d)
  BY <1>1 DEF Consistent, CatalogType, Named, Live
<1> QED BY <1>2, <1>3, <1>4 DEF Consistent

\* update() of a live record, renaming or not, keeps the members consistent.
LEMMA UpdatedConsistent ==
  ASSUME NEW c, Consistent(c), NEW id \in Live(c), NEW rec \in Rec
  PROVE  Consistent(Updated(c, id, rec)) /\ Live(Updated(c, id, rec)) = Live(c)
<1> DEFINE d == Updated(c, id, rec)
           old == c.slots[id].rec.name
<1>1. /\ Live(d) = Live(c)
      /\ d.sampling = c.sampling
      /\ d.slots[id] = [rec |-> rec, pos |-> c.slots[id].pos]
      /\ \A x \in Live(c) \ {id} : d.slots[x] = c.slots[x]
  BY DEF Consistent, CatalogType, Updated, Put, Live
<1>2. rec.name = old => d.names = c.names
  BY DEF Updated, RecOf
<1>3. rec.name # old =>
        /\ rec.name \in DOMAIN d.names /\ d.names[rec.name] = id
        /\ DOMAIN d.names \subseteq DOMAIN c.names \cup {rec.name}
        /\ \A n \in DOMAIN d.names \ {rec.name} :
              d.names[n] = c.names[n] /\ (n = old => c.names[n] # id)
  BY DEF Updated, RecOf, NamesWithout, Put, Restrict
<1>4. CatalogType(d)
  <2>1. d = [slots |-> d.slots, sampling |-> d.sampling, names |-> d.names]
    BY DEF Updated
  <2>2. d.slots \in [Live(d) -> [rec : Rec, pos : Nat]]
    BY <1>1 DEF Consistent, CatalogType, Updated, Put, Live
  <2>3. d.names \in [DOMAIN d.names -> Id] /\ DOMAIN d.names \subseteq Name
    <3>1. DOMAIN c.names \subseteq Name /\ c.names \in [DOMAIN c.names -> Id]
          /\ rec.name \in Name /\ id \in Id
      BY DEF Consistent, CatalogType, Rec
    <3>2. d.names = [n \in DOMAIN d.names |-> d.names[n]]
      <4>1. c.names = [n \in DOMAIN c.names |-> c.names[n]]
        BY <3>1
      <4> QED BY <4>1, <1>2 DEF Updated, Put
    <3> QED BY <3>1, <3>2, <1>2, <1>3
  <2> QED BY <1>1, <2>1, <2>2, <2>3 DEF Consistent, CatalogType
<1>5. Sampled(d)
  <2>1. \A x \in Live(c) : d.slots[x].pos = c.slots[x].pos
    BY <1>1
  <2> QED BY <1>1, <2>1 DEF Consistent, Sampled
<1>6. Named(d)
  <2>1. ASSUME NEW n \in DOMAIN d.names
        PROVE  d.names[n] \in Live(c) /\ d.slots[d.names[n]].rec.name = n
    <3>1. CASE rec.name = old
      BY <1>1, <1>2, <3>1 DEF Consistent, Named
    <3>2. CASE rec.name # old /\ n = rec.name
      BY <1>1, <1>3, <3>2
    <3>3. CASE rec.name # old /\ n # rec.name
      BY <1>1, <1>3, <3>3 DEF Consistent, Named
    <3> QED BY <3>1, <3>2, <3>3
  <2> QED BY <1>1, <2>1 DEF Named
<1> QED BY <1>1, <1>4, <1>5, <1>6 DEF Consistent

\* erase()'s swap-remove keeps the members consistent.
LEMMA ErasedConsistent ==
  ASSUME NEW c, Consistent(c), NEW id \in Live(c)
  PROVE  Consistent(Erased(c, id)) /\ Live(Erased(c, id)) = Live(c) \ {id}
<1> DEFINE d == Erased(c, id)
           pos == c.slots[id].pos
           last == Len(c.sampling)
           lastId == c.sampling[last]
<1>1. /\ pos \in 1 .. last /\ last \in Nat /\ last >= 1
      /\ c.sampling[pos] = id
      /\ lastId \in Live(c) /\ c.slots[lastId].pos = last
  BY DEF Consistent, CatalogType, Sampled
<1>2. /\ Live(d) = Live(c) \ {id}
      /\ \A x \in Live(d) : /\ d.slots[x].rec = c.slots[x].rec
                            /\ d.slots[x].pos = IF x = lastId THEN pos
                                                ELSE c.slots[x].pos
  BY <1>1 DEF Consistent, CatalogType, Erased, Put, RecOf, Live, Restrict
<1>3. /\ d.sampling \in Seq(Id)
      /\ Len(d.sampling) = last - 1
      /\ \A i \in 1 .. last - 1 :
            d.sampling[i] = IF i = pos THEN lastId ELSE c.sampling[i]
  <2> DEFINE moved == [c.sampling EXCEPT ![pos] = lastId]
  <2>1. moved \in Seq(Id) /\ Len(moved) = last
        /\ \A i \in 1 .. last : moved[i] = IF i = pos THEN lastId ELSE c.sampling[i]
    BY <1>1 DEF Consistent, CatalogType
  <2>2. d.sampling = SubSeq(moved, 1, last - 1)
    BY DEF Erased
  <2> HIDE DEF moved, d
  <2> QED BY <1>1, <2>1, <2>2
<1>4. /\ DOMAIN d.names \subseteq DOMAIN c.names
      /\ \A n \in DOMAIN d.names : d.names[n] = c.names[n] /\ c.names[n] # id
  BY DEF Erased, NamesWithout, RecOf, Restrict, Consistent, CatalogType, Named
<1>5. CatalogType(d)
  <2>1. d = [slots |-> d.slots, sampling |-> d.sampling, names |-> d.names]
    BY DEF Erased
  <2>2. d.slots \in [Live(d) -> [rec : Rec, pos : Nat]]
    BY <1>1, <1>2 DEF Consistent, CatalogType, Erased, Put, RecOf, Live, Restrict
  <2>3. d.names \in [DOMAIN d.names -> Id] /\ DOMAIN d.names \subseteq Name
    BY <1>4 DEF Consistent, CatalogType, Erased, NamesWithout, Restrict
  <2> QED BY <1>2, <1>3, <2>1, <2>2, <2>3 DEF Consistent, CatalogType
<1>6. Sampled(d)
  <2>1. ASSUME NEW x \in Live(d)
        PROVE  d.slots[x].pos \in 1 .. last - 1 /\ d.sampling[d.slots[x].pos] = x
    <3>1. /\ x \in Live(c) /\ x # id
          /\ c.slots[x].pos \in 1 .. last /\ c.sampling[c.slots[x].pos] = x
          /\ d.slots[x].pos = IF x = lastId THEN pos ELSE c.slots[x].pos
      BY <1>2 DEF Consistent, Sampled
    <3> HIDE DEF d
    <3>2. CASE x = lastId
      <4>1. pos # last /\ pos \in 1 .. last - 1
        BY <1>1, <3>1, <3>2
      <4> QED BY <1>3, <3>1, <3>2, <4>1
    <3>3. CASE x # lastId
      <4>1. c.slots[x].pos # last /\ c.slots[x].pos # pos
        BY <1>1, <3>1, <3>3
      <4>2. c.slots[x].pos \in 1 .. last - 1
        BY <1>1, <3>1, <4>1
      <4> QED BY <1>3, <3>1, <3>3, <4>1, <4>2
    <3> QED BY <3>2, <3>3
  <2>2. ASSUME NEW i \in 1 .. last - 1
        PROVE  d.sampling[i] \in Live(d) /\ d.slots[d.sampling[i]].pos = i
    <3>1. /\ i \in 1 .. last /\ i # last
          /\ c.sampling[i] \in Live(c) /\ c.slots[c.sampling[i]].pos = i
      BY <1>1 DEF Consistent, Sampled
    <3> HIDE DEF d
    <3>2. CASE i = pos
      BY <1>1, <1>2, <1>3, <3>1, <3>2
    <3>3. CASE i # pos
      BY <1>1, <1>2, <1>3, <3>1, <3>3
    <3> QED BY <3>2, <3>3
  <2> QED BY <1>3, <2>1, <2>2 DEF Sampled
<1>7. Named(d)
  BY <1>2, <1>4 DEF Consistent, Named
<1> QED BY <1>2, <1>5, <1>6, <1>7 DEF Consistent

-----------------------------------------------------------------------------
\* The ids: who may still publish one, and which were ever published.
IdsInOrder ==
  /\ nextId \in 1 .. MaxId + 1
  /\ Live(catalog) \subseteq 1 .. nextId - 1
  /\ dead \subseteq 1 .. nextId - 1
  /\ Live(catalog) \cap dead = {}
  /\ \A a \in Actor : Holds(a, "fresh") =>
        /\ held[a].id \in 1 .. nextId - 1
        /\ held[a].id \notin Live(catalog) \cup dead
        /\ \A b \in Actor \ {a} : Holds(b, "fresh") => held[b].id # held[a].id

\* Edits were accepted only for published ids, and are still there.
EditsKept ==
  /\ acked \subseteq Id \X Actor
  /\ \A p \in acked :
        /\ p[1] \in Live(catalog) \cup dead
        /\ p[1] \in Live(catalog) => p[2] \in RecOf(catalog, p[1]).edits

IInv == /\ held \in [Actor -> Held]
        /\ Consistent(catalog)
        /\ IdsInOrder
        /\ EditsKept

LEMMA InitInv == Init => IInv
<1> SUFFICES ASSUME Init PROVE IInv
  OBVIOUS
<1>1. held \in [Actor -> Held]
  BY DEF Init, Held
<1>2. Consistent(catalog)
  BY EmptyConsistent DEF Init
<1>3. IdsInOrder /\ EditsKept
  BY MaxIdAssumption
     DEF Init, IdsInOrder, EditsKept, EmptyCatalog, EmptyFcn, Live, Holds, Idle, FirstId
<1> QED BY <1>1, <1>2, <1>3 DEF IInv

\* The records an actor publishes are records.
LEMMA RecordsOk ==
  ASSUME NEW c, Consistent(c), NEW id \in Live(c)
  PROVE  RecOf(c, id) \in Rec /\ id \in Id
  BY DEF Consistent, CatalogType, RecOf, Live

LEMMA TakeIdInv ==
  ASSUME IInv, NEW a \in Actor, TakeId(a)  PROVE IInv'
<1>1. held' \in [Actor -> Held] /\ nextId' \in 1 .. MaxId + 1
  BY MaxIdAssumption DEF IInv, IdsInOrder, TakeId, NextId, Held, Id
<1>2. Consistent(catalog)' /\ EditsKept'
  BY DEF IInv, TakeId, EditsKept, Live, RecOf, Consistent, CatalogType, Sampled, Named
<1>3. IdsInOrder'
  BY <1>1, MaxIdAssumption DEF IInv, TakeId, NextId, IdsInOrder, Holds, Live, Idle
<1> QED BY <1>1, <1>2, <1>3 DEF IInv

LEMMA SnapshotInv ==
  ASSUME IInv, NEW a \in Actor, NEW id \in Live(catalog), Snapshot(a, id),
         UNCHANGED << catalog, nextId, acked, dead >>
  PROVE  IInv'
<1>1. held' \in [Actor -> Held]
  BY RecordsOk DEF IInv, Snapshot, Held
<1>2. Consistent(catalog)' /\ EditsKept'
  BY DEF IInv, EditsKept, Live, RecOf, Consistent, CatalogType, Sampled, Named
<1>3. \A b \in Actor : (Holds(b, "fresh"))' => Holds(b, "fresh") /\ held'[b] = held[b]
  BY DEF IInv, Snapshot, Holds
<1>4. IdsInOrder'
  BY <1>3 DEF IInv, IdsInOrder, Holds, Live
<1> QED BY <1>1, <1>2, <1>4 DEF IInv

\* Becoming idle, while the catalog keeps its live ids.
LEMMA DoneHeld ==
  ASSUME IInv, NEW a \in Actor, Done(a)
  PROVE  /\ held' \in [Actor -> Held]
         /\ \A b \in Actor : (Holds(b, "fresh"))' =>
                b # a /\ Holds(b, "fresh") /\ held'[b] = held[b]
  BY DEF IInv, Done, Held, Holds, Idle

LEMMA InsertInv ==
  ASSUME IInv, NEW a \in Actor, NEW n \in Name, Insert(a, n)  PROVE IInv'
<1> DEFINE id == held[a].id
           rec == [name |-> n, edits |-> {}]
<1>1. id \in Id /\ id \notin Live(catalog) /\ id \notin dead /\ id \in 1 .. nextId - 1
  BY MaxIdAssumption DEF IInv, IdsInOrder, Insert, Id
<1>2. catalog' = Inserted(catalog, id, rec) /\ rec \in Rec
  BY <1>1 DEF Insert, Insertable, NoId, Id, Rec
<1>3. Consistent(catalog')
  BY <1>1, <1>2, InsertedConsistent DEF IInv
<1>4. /\ Live(catalog') = Live(catalog) \cup {id}
      /\ \A x \in Live(catalog) : RecOf(catalog', x) = RecOf(catalog, x)
  BY <1>1, <1>2 DEF Inserted, Put, Live, RecOf
<1>5. Done(a) /\ UNCHANGED << nextId, acked, dead >>
  BY DEF Insert
<1>6. IdsInOrder'
  <2>1. ASSUME NEW b \in Actor, (Holds(b, "fresh"))'
        PROVE  /\ Holds(b, "fresh") /\ held'[b] = held[b] /\ b # a
               /\ held[b].id # id
    BY <1>5, <2>1, DoneHeld DEF IInv, IdsInOrder, Insert
  <2> QED BY <1>1, <1>4, <1>5, <2>1 DEF IInv, IdsInOrder, Holds
<1>7. EditsKept'
  BY <1>1, <1>4, <1>5 DEF IInv, EditsKept, Live, RecOf
<1> QED BY <1>3, <1>5, <1>6, <1>7, DoneHeld DEF IInv

\* Becoming idle keeps IdsInOrder when no id appears, and ids only die.
LEMMA DoneIds ==
  ASSUME IInv, NEW a \in Actor, Done(a), nextId' = nextId,
         Live(catalog') \cup dead' = Live(catalog) \cup dead,
         Live(catalog') \cap dead' = {}
  PROVE  IdsInOrder'
<1>1. ASSUME NEW b \in Actor, (Holds(b, "fresh"))'
      PROVE  Holds(b, "fresh") /\ held'[b] = held[b] /\ b # a
  BY <1>1, DoneHeld
<1> QED BY <1>1 DEF IInv, IdsInOrder, Holds

LEMMA UpdateInv ==
  ASSUME IInv, NEW a \in Actor, Done(a), nextId' = nextId, dead' = dead,
         NEW id \in Live(catalog), NEW rec \in Rec,
         RecOf(catalog, id).edits \subseteq rec.edits,
         catalog' = Updated(catalog, id, rec),
         \/ acked' = acked
         \/ acked' = acked \cup {<< id, a >>} /\ a \in rec.edits
  PROVE  IInv'
<1>1. Consistent(catalog') /\ Live(catalog') = Live(catalog)
  BY UpdatedConsistent DEF IInv
<1>2. IdsInOrder'
  BY <1>1, DoneIds DEF IInv, IdsInOrder
<1>3. RecOf(catalog', id) = rec
      /\ \A x \in Live(catalog) \ {id} : RecOf(catalog', x) = RecOf(catalog, x)
  BY DEF Updated, Put, RecOf, Live
<1>4. EditsKept'
  <2>1. id \in Id
    BY RecordsOk DEF IInv
  <2>2. acked' \subseteq Id \X Actor
    BY <2>1 DEF IInv, EditsKept
  <2>3. ASSUME NEW p \in acked'
        PROVE  /\ p[1] \in Live(catalog') \cup dead'
               /\ p[1] \in Live(catalog') => p[2] \in RecOf(catalog', p[1]).edits
    <3>1. CASE p \in acked
      BY <1>1, <1>3, <3>1 DEF IInv, EditsKept
    <3>2. CASE p = << id, a >> /\ a \in rec.edits
      BY <1>1, <1>3, <3>2
    <3> QED BY <3>1, <3>2
  <2> QED BY <2>2, <2>3 DEF EditsKept
<1> QED BY <1>1, <1>2, <1>4, DoneHeld DEF IInv

\* A step that only makes an actor idle.
LEMMA IdleInv ==
  ASSUME IInv, NEW a \in Actor, Done(a),
         UNCHANGED << catalog, nextId, acked, dead >>
  PROVE  IInv'
<1>1. IdsInOrder'
  BY DoneIds DEF IInv, IdsInOrder
<1>2. Consistent(catalog')
  BY DEF IInv
<1>3. EditsKept'
  BY DEF IInv, EditsKept
<1> QED BY <1>1, <1>2, <1>3, DoneHeld DEF IInv

LEMMA EditInv == ASSUME IInv, NEW a \in Actor, Edit(a)  PROVE IInv'
<1> DEFINE id == held[a].id
           old == RecOf(catalog, id)
           rec == [old EXCEPT !.edits = @ \cup {a}]
<1>1. CASE id \notin Live(catalog)
  BY <1>1, IdleInv DEF Edit
<1>2. CASE id \in Live(catalog)
  <2>1. old \in Rec
    BY <1>2, RecordsOk DEF IInv
  <2>2. rec \in Rec /\ rec.edits = old.edits \cup {a}
    BY <2>1 DEF Rec
  <2>3. /\ catalog' = Updated(catalog, id, rec) /\ acked' = acked \cup {<< id, a >>}
        /\ Done(a) /\ nextId' = nextId /\ dead' = dead
    BY <1>2 DEF Edit, DeltaBase
  <2> HIDE DEF id, old, rec
  <2> QED BY <1>2, <2>2, <2>3, UpdateInv DEF old
<1> QED BY <1>1, <1>2

LEMMA RenameInv ==
  ASSUME IInv, NEW a \in Actor, NEW n \in Name, Rename(a, n)  PROVE IInv'
<1> DEFINE id == held[a].id
           old == RecOf(catalog, id)
           rec == [old EXCEPT !.name = n]
<1>1. CASE id \notin Live(catalog)
  BY <1>1, IdleInv DEF Rename
<1>2. CASE id \in Live(catalog)
  <2>1. old \in Rec
    BY <1>2, RecordsOk DEF IInv
  <2>2. rec \in Rec /\ rec.edits = old.edits
    BY <2>1 DEF Rec
  <2>3. /\ catalog' = Updated(catalog, id, rec) /\ acked' = acked
        /\ Done(a) /\ nextId' = nextId /\ dead' = dead
    BY <1>2 DEF Rename, DeltaBase
  <2> HIDE DEF id, old, rec
  <2> QED BY <1>2, <2>2, <2>3, UpdateInv DEF old
<1> QED BY <1>1, <1>2

LEMMA EraseInv == ASSUME IInv, NEW a \in Actor, Erase(a)  PROVE IInv'
<1> DEFINE id == held[a].id
<1>1. CASE id \notin Live(catalog)
  BY <1>1, IdleInv DEF Erase
<1>2. CASE id \in Live(catalog)
  <2>1. /\ catalog' = Erased(catalog, id) /\ dead' = dead \cup {id}
        /\ Done(a) /\ nextId' = nextId /\ acked' = acked
    BY <1>2 DEF Erase
  <2>2. Consistent(catalog') /\ Live(catalog') = Live(catalog) \ {id}
    BY <1>2, <2>1, ErasedConsistent DEF IInv
  <2>3. \A x \in Live(catalog') : RecOf(catalog', x) = RecOf(catalog, x)
    BY <2>1 DEF Erased, Put, Restrict, RecOf, Live
  <2>4. IdsInOrder'
    BY <1>2, <2>1, <2>2, DoneIds DEF IInv, IdsInOrder
  <2>5. EditsKept'
    BY <1>2, <2>1, <2>2, <2>3 DEF IInv, EditsKept
  <2> QED BY <2>1, <2>2, <2>4, <2>5, DoneHeld DEF IInv
<1> QED BY <1>1, <1>2

LEMMA ResetInv == ASSUME IInv, Reset  PROVE IInv'
<1>1. Consistent(catalog') /\ Live(catalog') = {}
  BY EmptyConsistent DEF Reset, EmptyCatalog, EmptyFcn, Live
<1>2. held' = held /\ nextId' = nextId /\ acked' = acked
      /\ dead' = dead \cup Live(catalog)
  BY DEF Reset, NextIdAfterReset
<1>3. IdsInOrder'
  BY <1>1, <1>2 DEF IInv, IdsInOrder, Holds
<1>4. EditsKept'
  BY <1>1, <1>2 DEF IInv, EditsKept
<1> QED BY <1>1, <1>2, <1>3, <1>4 DEF IInv

LEMMA PickInv ==
  ASSUME IInv, NEW a \in Actor,
         RandomPick(a) \/ \E n \in Name : ByName(a, n)
  PROVE  IInv'
<1>1. ASSUME RandomPick(a)  PROVE IInv'
  <2>1. PICK i \in DOMAIN catalog.sampling : Snapshot(a, catalog.sampling[i])
    BY <1>1 DEF RandomPick
  <2>2. catalog.sampling[i] \in Live(catalog)
    BY DEF IInv, Consistent, CatalogType, Sampled
  <2> QED BY <1>1, <2>1, <2>2, SnapshotInv DEF RandomPick
<1>2. ASSUME NEW n \in Name, ByName(a, n)  PROVE IInv'
  <2>1. catalog.names[n] \in Live(catalog)
    BY <1>2 DEF IInv, Consistent, Named, ByName
  <2> QED BY <1>2, <2>1, SnapshotInv DEF ByName
<1> QED BY <1>1, <1>2

\* IInv is inductive: one lemma above per action of an actor.
LEMMA StepInv == IInv /\ [Next]_vars => IInv'
<1> SUFFICES ASSUME IInv, [Next]_vars PROVE IInv'
  OBVIOUS
<1>1. CASE UNCHANGED vars
  <2>1. IdsInOrder' /\ EditsKept'
    BY <1>1 DEF IInv, IdsInOrder, EditsKept, Holds, vars
  <2> QED BY <1>1, <2>1 DEF IInv, vars
<1>2. CASE Reset
  BY <1>2, ResetInv
<1>3. ASSUME NEW a \in Actor, Act(a)  PROVE IInv'
  <2>1. CASE TakeId(a)
    BY <2>1, TakeIdInv
  <2>2. CASE RandomPick(a) \/ \E n \in Name : ByName(a, n)
    BY <2>2, PickInv
  <2>3. CASE \E n \in Name : Insert(a, n)
    BY <2>3, InsertInv
  <2>4. CASE Edit(a)
    BY <2>4, EditInv
  <2>5. CASE \E n \in Name : Rename(a, n)
    BY <2>5, RenameInv
  <2>6. CASE GiveUp(a)
    BY <2>6, IdleInv DEF GiveUp
  <2>7. CASE Erase(a)
    BY <2>7, EraseInv
  <2> QED BY <1>3, <2>1, <2>2, <2>3, <2>4, <2>5, <2>6, <2>7 DEF Act
<1> QED BY <1>1, <1>2, <1>3 DEF Next

\* Every reachable state is consistent.
THEOREM InductiveInv == Spec => []IInv
<1> QED BY InitInv, StepInv, PTL DEF Spec

-----------------------------------------------------------------------------
\* The members of the catalog and the actors' snapshots keep their types.
THEOREM TypeCorrect == Spec => []TypeOK
<1>1. IInv => TypeOK
  <2> SUFFICES ASSUME IInv PROVE TypeOK
    OBVIOUS
  <2>1. dead \subseteq Id /\ nextId \in 1 .. MaxId + 1
    BY MaxIdAssumption DEF IInv, IdsInOrder, Id
  <2>2. CatalogType(catalog)
    BY DEF IInv, Consistent
  <2>3. held \in [Actor -> Held] /\ acked \subseteq Id \X Actor
    BY DEF IInv, EditsKept
  <2> QED BY <2>1, <2>2, <2>3, Zenon DEF CatalogType, TypeOK
<1> QED BY <1>1, InductiveInv, PTL

\* The swap-remove in erase() never loses or duplicates an id, so
\* randomPick(), size() and snapshotAll() see every live object once.
THEOREM SamplingCorrect == Spec => []SamplingExact
<1>1. IInv => SamplingExact
  <2> SUFFICES ASSUME IInv PROVE SamplingExact
    OBVIOUS
  <2>1. catalog.sampling \in Seq(Id) /\ Sampled(catalog)
    BY DEF IInv, Consistent, CatalogType
  <2>2. DOMAIN catalog.sampling = 1 .. Len(catalog.sampling)
    BY <2>1
  <2> QED BY <2>1, <2>2 DEF Sampled, SamplingExact
<1> QED BY <1>1, InductiveInv, PTL

\* byName() never follows a name to a dropped object or to one of another
\* name, whatever collisions the renames cause.
THEOREM NamesCorrect == Spec => []NamesTruthful
<1>1. IInv => NamesTruthful
  BY DEF IInv, Consistent, Named, NamesTruthful, RecOf
<1> QED BY <1>1, InductiveInv, PTL

\* Concurrent publishes from old snapshots never undo an accepted edit.
THEOREM NoUpdateLost == Spec => []NoLostUpdate
<1>1. IInv => NoLostUpdate
  BY DEF IInv, EditsKept, NoLostUpdate
<1> QED BY <1>1, InductiveInv, PTL

\* An id that was dropped or reset never names a new object.
THEOREM IdsNeverReused == Spec => []NeverResurrected
<1>1. IInv => NeverResurrected
  BY DEF IInv, IdsInOrder, NeverResurrected
<1> QED BY <1>1, InductiveInv, PTL

-----------------------------------------------------------------------------
(* Catalog implements CatalogAbs. *)

Records(c) == [id \in Live(c) |-> RecOf(c, id)]

\* How an index is recognised as the truthful part of idx.
LEMMA TruthfulIs ==
  ASSUME NEW names, NEW idx, NEW r, names = [n \in DOMAIN names |-> names[n]],
         \A n \in DOMAIN names :
            /\ n \in DOMAIN idx /\ idx[n] = names[n]
            /\ names[n] \in DOMAIN r /\ r[names[n]].name = n,
         \A n \in DOMAIN idx :
            idx[n] \in DOMAIN r /\ r[idx[n]].name = n => n \in DOMAIN names
  PROVE  names = Abstract!Truthful(idx, r)
BY DEF Abstract!Truthful, Abstract!Restrict

LEMMA NamesFunction ==
  ASSUME NEW c, Consistent(c)
  PROVE  c.names = [n \in DOMAIN c.names |-> c.names[n]]
BY DEF Consistent, CatalogType

LEMMA NamesOfRecords ==
  ASSUME NEW c, Consistent(c), NEW n \in DOMAIN c.names
  PROVE  c.names[n] \in DOMAIN Records(c) /\ Records(c)[c.names[n]].name = n
BY DEF Consistent, Named, Records, RecOf, Live

\* A consistent name index is the truthful part of every index that agrees
\* with it and has no other truthful entry.
LEMMA IndexIs ==
  ASSUME NEW c, Consistent(c), NEW idx,
         \A n \in DOMAIN c.names : n \in DOMAIN idx /\ idx[n] = c.names[n],
         \A n \in DOMAIN idx :
            idx[n] \in DOMAIN Records(c) /\ Records(c)[idx[n]].name = n
              => n \in DOMAIN c.names
  PROVE  c.names = Abstract!Truthful(idx, Records(c))
<1> DEFINE names == c.names
           r == Records(c)
<1>1. names = [n \in DOMAIN names |-> names[n]]
  BY NamesFunction
<1>2. \A n \in DOMAIN names : names[n] \in DOMAIN r /\ r[names[n]].name = n
  BY NamesOfRecords
<1>3. /\ \A n \in DOMAIN names : n \in DOMAIN idx /\ idx[n] = names[n]
      /\ \A n \in DOMAIN idx :
            idx[n] \in DOMAIN r /\ r[idx[n]].name = n => n \in DOMAIN names
  OBVIOUS
<1> HIDE DEF names, r
<1>4. names = Abstract!Truthful(idx, r)
  BY <1>1, <1>2, <1>3, TruthfulIs
<1> QED BY <1>4 DEF names, r

\* insert() publishes a new object that owns its name.
LEMMA InsertPublishes ==
  ASSUME Consistent(catalog), NEW id \in Id, id \notin Live(catalog), NEW rec \in Rec,
         catalog' = Inserted(catalog, id, rec)
  PROVE  Abstract!Publish(id, rec)
<1> DEFINE idx == Abstract!Set(catalog.names, rec.name, id)
<1>1. Consistent(catalog') /\ Live(catalog') = Live(catalog) \cup {id}
  <2>1. Consistent(catalog')
    BY InsertedConsistent, Zenon
  <2>2. Live(catalog') = Live(catalog) \cup {id}
    BY DEF Inserted, Put, Live
  <2> QED BY <2>1, <2>2
<1>2. Records(catalog') = Abstract!Set(Records(catalog), id, rec)
  BY <1>1 DEF Records, Abstract!Set, Inserted, Put, RecOf, Live
<1>3. catalog'.names = idx
  BY DEF Inserted, Put, Abstract!Set
<1>4. catalog'.names = Abstract!Truthful(idx, Records(catalog'))
  <2> HIDE DEF idx
  <2> QED BY <1>1, <1>3, IndexIs
<1>5. id \notin DOMAIN Records(catalog)
  BY DEF Records
<1>6. (IF id \in DOMAIN Records(catalog) /\ Records(catalog)[id].name = rec.name
       THEN catalog.names ELSE Abstract!Set(catalog.names, rec.name, id)) = idx
  BY <1>5
<1> HIDE DEF idx
<1> QED BY <1>2, <1>4, <1>6, Zenon DEF Abstract!Publish, Records

\* update() publishes a new version; a rename takes the new name over.
LEMMA UpdatePublishes ==
  ASSUME Consistent(catalog), NEW id \in Live(catalog), NEW rec \in Rec,
         catalog' = Updated(catalog, id, rec)
  PROVE  id \in Id /\ Abstract!Publish(id, rec)
<1> DEFINE old == RecOf(catalog, id).name
           idx == IF old = rec.name THEN catalog.names
                  ELSE Abstract!Set(catalog.names, rec.name, id)
<1>1. Consistent(catalog') /\ Live(catalog') = Live(catalog)
  BY UpdatedConsistent
<1>2. Records(catalog') = Abstract!Set(Records(catalog), id, rec)
  BY <1>1 DEF Records, Abstract!Set, Updated, Put, RecOf, Live
<1>3. ASSUME NEW n \in DOMAIN catalog'.names
      PROVE  n \in DOMAIN idx /\ idx[n] = catalog'.names[n]
  BY DEF Updated, NamesWithout, Put, Restrict, Abstract!Set
<1>4. ASSUME NEW n \in DOMAIN idx, n \notin DOMAIN catalog'.names
      PROVE  n = old /\ idx[n] = id /\ old # rec.name
  BY <1>4 DEF Updated, NamesWithout, Put, Restrict, Abstract!Set
<1>5. id \in DOMAIN Records(catalog') /\ Records(catalog')[id] = rec
      /\ id \in DOMAIN Records(catalog) /\ Records(catalog)[id].name = old
  BY <1>1, <1>2 DEF Records, Abstract!Set
<1>6. catalog'.names = Abstract!Truthful(idx, Records(catalog'))
  <2>1. ASSUME NEW n \in DOMAIN idx, idx[n] \in DOMAIN Records(catalog'),
               Records(catalog')[idx[n]].name = n
        PROVE  n \in DOMAIN catalog'.names
    BY <1>4, <1>5, <2>1
  <2> HIDE DEF idx
  <2> QED BY <1>1, <1>3, <2>1, IndexIs
<1>7. id \in Id
  BY RecordsOk
<1> QED BY <1>2, <1>5, <1>6, <1>7 DEF Abstract!Publish, Records

\* erase() withdraws one object, and its name if it owns it.
LEMMA EraseWithdraws ==
  ASSUME Consistent(catalog), NEW id \in Live(catalog),
         catalog' = Erased(catalog, id)
  PROVE  id \in DOMAIN Records(catalog) /\ Abstract!Withdraw({id})
<1>1. Consistent(catalog') /\ Live(catalog') = Live(catalog) \ {id}
  BY ErasedConsistent
<1>2. Records(catalog') =
        Abstract!Restrict(Records(catalog), DOMAIN Records(catalog) \ {id})
  BY <1>1 DEF Records, Abstract!Restrict, Erased, Put, Restrict, RecOf, Live
<1>3. ASSUME NEW n \in DOMAIN catalog'.names
      PROVE  n \in DOMAIN catalog.names /\ catalog.names[n] = catalog'.names[n]
  BY DEF Erased, NamesWithout, Restrict
<1>4. ASSUME NEW n \in DOMAIN catalog.names, n \notin DOMAIN catalog'.names
      PROVE  catalog.names[n] = id
  BY <1>4 DEF Erased, NamesWithout, Restrict
<1>5. id \notin DOMAIN Records(catalog')
  BY <1>1 DEF Records
<1>6. catalog'.names = Abstract!Truthful(catalog.names, Records(catalog'))
  BY <1>1, <1>3, <1>4, <1>5, IndexIs
<1>7. id \in DOMAIN Records(catalog)
  BY DEF Records
<1>8. Abstract!Withdraw({id})
  BY <1>2, <1>6, Zenon DEF Abstract!Withdraw, Records
<1> QED BY <1>7, <1>8

LEMMA ResetWithdraws ==
  ASSUME catalog' = EmptyCatalog
  PROVE  Abstract!Withdraw(DOMAIN Records(catalog))
<1>1. Live(catalog') = {} /\ DOMAIN catalog'.names = {}
  BY DEF EmptyCatalog, EmptyFcn, Live
<1>2. Records(catalog') =
        Abstract!Restrict(Records(catalog),
                          DOMAIN Records(catalog) \ DOMAIN Records(catalog))
  BY <1>1 DEF Records, Abstract!Restrict
<1>3. catalog'.names = Abstract!Truthful(catalog.names, Records(catalog'))
  <2> DEFINE names == catalog'.names
             r == Records(catalog')
  <2>1. names = [n \in DOMAIN names |-> names[n]]
    BY EmptyConsistent, NamesFunction, Zenon
  <2>2. DOMAIN names = {} /\ DOMAIN r = {}
    BY <1>1 DEF Records
  <2> HIDE DEF names, r
  <2>3. names = Abstract!Truthful(catalog.names, r)
    BY <2>1, <2>2, TruthfulIs
  <2> QED BY <2>3 DEF names, r
<1> QED BY <1>2, <1>3, Zenon DEF Abstract!Withdraw, Records

\* Every initial state of the catalog is one of the abstract catalog, and
\* every step publishes, withdraws or changes nothing: what the code keeps in
\* slots, sampling and names is a map with a last-publish-wins name index.
THEOREM Refinement == Spec => LastPublishWins
<1>1. Init => Abstract!Init
  <2>1. EmptyCatalog.names = EmptyFcn /\ Live(EmptyCatalog) = {}
    BY DEF EmptyCatalog, EmptyFcn, Live
  <2> QED BY <2>1 DEF Init, Abstract!Init, EmptyFcn
<1>2. IInv /\ [Next]_vars => [Abstract!Next]_(Abstract!vars)
  <2> SUFFICES ASSUME IInv, [Next]_vars
               PROVE  Abstract!Next \/ UNCHANGED Abstract!vars
    OBVIOUS
  <2> USE DEF Records
  <2>1. CASE UNCHANGED catalog
    BY <2>1 DEF Abstract!vars
  <2>2. CASE Reset
    BY <2>2, ResetWithdraws DEF Reset, Abstract!Next
  <2>3. ASSUME NEW a \in Actor, NEW n \in Name, Insert(a, n), catalog' # catalog
        PROVE  Abstract!Next
    <3> DEFINE id == held[a].id
               rec == [name |-> n, edits |-> {}]
    <3>1. id \in Id /\ rec \in Rec /\ id \notin Live(catalog)
          /\ catalog' = Inserted(catalog, id, rec)
      BY <2>3 DEF IInv, Insert, Insertable, Holds, Held, Idle, Rec
    <3> HIDE DEF id, rec
    <3>2. Abstract!Publish(id, rec)
      BY <3>1, InsertPublishes DEF IInv
    <3> QED BY <3>1, <3>2 DEF Abstract!Next
  <2>4. ASSUME NEW id \in Live(catalog), NEW rec \in Rec,
               catalog' = Updated(catalog, id, rec)
        PROVE  Abstract!Next
    BY <2>4, UpdatePublishes DEF IInv, Abstract!Next
  <2>5. ASSUME NEW a \in Actor, Edit(a), catalog' # catalog
        PROVE  Abstract!Next
    BY <2>4, <2>5, RecordsOk DEF IInv, Edit, DeltaBase, RecOf, Rec
  <2>6. ASSUME NEW a \in Actor, NEW n \in Name, Rename(a, n), catalog' # catalog
        PROVE  Abstract!Next
    BY <2>4, <2>6, RecordsOk DEF IInv, Rename, DeltaBase, RecOf, Rec
  <2>7. ASSUME NEW a \in Actor, Erase(a), catalog' # catalog
        PROVE  Abstract!Next
    BY <2>7, EraseWithdraws DEF IInv, Erase, Abstract!Next
  <2>8. ASSUME NEW a \in Actor, Act(a), catalog' # catalog
        PROVE  Abstract!Next
    BY <2>3, <2>5, <2>6, <2>7, <2>8
       DEF Act, TakeId, RandomPick, ByName, GiveUp
  <2> QED BY <2>1, <2>2, <2>8 DEF Next, vars
<1> QED BY <1>1, <1>2, InductiveInv, PTL DEF Spec, LastPublishWins, Abstract!Spec

-----------------------------------------------------------------------------
(* Discovery: what the parts of a call know of each other. *)

\* The names of tables.
Names(tables) == {t.name : t \in tables}

\* The steps of a call that read one table.
Reading == {"columns", "indexes", "constraints", "keys", "partitions"}

\* The steps of a call.
Steps == Reading \cup {"list", "resolve", "done"}

\* The fields of a call's record.
CallFields ==
  {"step", "kind", "number", "original", "first", "listed", "todo", "draft",
   "fks", "pending", "up", "faults", "races", "touched", "skipped", "verdict"}

\* The tables that no other session changed during the call.
Untouched == {t \in server : t.name \notin call.touched}

\* The fields of a table's record.
IsRecord(r) ==
  r = [name |-> r.name, cols |-> r.cols, idx |-> r.idx, parted |-> r.parted,
       ranges |-> r.ranges]

\* The index of names is truthful, and every id was given out before.
CatalogInv ==
  /\ nextId \in Nat \ {0}
  /\ \A id \in Live(catalog) :
        /\ id \in 1 .. nextId - 1
        /\ IsRecord(RecOf(catalog, id))
        /\ RecOf(catalog, id).name # NoName
        /\ RecOf(catalog, id).name \in DOMAIN catalog.names
  /\ \A n \in DOMAIN catalog.names :
        catalog.names[n] \in Live(catalog) /\ RecOf(catalog, catalog.names[n]).name = n

\* What each step finds: nothing read before the list, a table to read during the
\* answers, none afterwards; and a validation started from an empty catalog.
CallInv ==
  /\ DOMAIN call = CallFields
  /\ call.step \in Steps
  /\ call.first \in Nat /\ call.first <= nextId
  /\ IsRecord(call.draft)
  /\ call.step = "list" => /\ call.listed = {NoName} /\ call.todo = << >>
                           /\ call.skipped = {} /\ call.pending = {}
                           /\ Made = {}
  /\ call.step \in Reading \cup {"resolve"} => NoName \notin call.listed
  /\ call.step \in Reading => /\ call.todo # << >>
                              /\ call.draft.name = Head(call.todo)
  /\ call.step \in {"resolve", "done"} => call.todo = << >>
  /\ call.step = "done" => call.pending = {}
  /\ call.kind = "validate" => Live(catalog) = Made

\* Every table that was listed is still to be read, skipped, or has one record of
\* this call; and of the names nobody touched the list is still right.
ListedInv ==
  NoName \notin call.listed =>
  /\ call.todo \in Seq(Nat)
  /\ \A i, j \in DOMAIN call.todo : call.todo[i] = call.todo[j] => i = j
  /\ Range(call.todo) \subseteq call.listed
  /\ Range(call.todo) \cap call.skipped = {}
  /\ \A id \in Made : /\ RecOf(catalog, id).name \in call.listed
                      /\ RecOf(catalog, id).name \notin Range(call.todo)
                      /\ RecOf(catalog, id).name \notin call.skipped
                      /\ \A other \in Made :
                           RecOf(catalog, other).name = RecOf(catalog, id).name
                             => other = id
  /\ \A n \in call.listed : \/ n \in Range(call.todo) \/ n \in call.skipped
                            \/ \E id \in Made : RecOf(catalog, id).name = n
  /\ Names(server) \ call.touched = call.listed \ call.touched

\* The name that was read of a reference, and the one it has now: the same, or
\* both of tables that others changed, or gone with one.
RefLike(a, b, touched) == a = b \/ (a \in touched /\ b \in touched \cup {NoName})

\* A column as the answers so far describe it.
AsRead(c, withPk, withPart) ==
  [type |-> c.type, length |-> c.length, nullable |-> c.nullable,
   pk |-> IF withPk THEN c.pk ELSE FALSE,
   part |-> IF withPart THEN c.part ELSE FALSE, auto |-> c.auto, ref |-> NoId]

\* The columns of a table as the answers so far describe them.
ColsRead(t, withPk, withPart) ==
  [c \in DOMAIN t.cols |-> AsRead(t.cols[c], withPk, withPart)]

\* The foreign keys that were read are those of the table, one for each column.
FksLike(fks, t, touched) ==
  /\ \A fk \in fks : /\ fk = [col |-> fk.col, target |-> fk.target]
                     /\ fk.col \in DOMAIN t.cols
                     /\ fk.target # NoName
                     /\ RefLike(fk.target, t.cols[fk.col].ref, touched)
  /\ \A f, g \in fks : f.col = g.col => f = g
  /\ \A c \in DOMAIN t.cols :
        t.cols[c].ref # NoName => \E fk \in fks : fk.col = c

\* The draft says of the table what the answers so far could say.
DraftLike(t) ==
  /\ call.step \in {"indexes", "constraints"} =>
       call.draft.cols = ColsRead(t, FALSE, FALSE)
  /\ call.step = "keys" => call.draft.cols = ColsRead(t, TRUE, FALSE)
  /\ call.step = "partitions" => call.draft.cols = ColsRead(t, TRUE, TRUE)
  /\ call.step \in {"constraints", "keys", "partitions"} => call.draft.idx = t.idx
  /\ call.step \in {"keys", "partitions"} => FksLike(call.fks, t, call.touched)

\* The draft of a table that nobody changed.
DraftInv ==
  call.step \in Reading =>
    \A t \in Untouched : t.name = call.draft.name => DraftLike(t)

\* The id that the second pass writes for a name.
IdOfName(n) == IF n \in DOMAIN catalog.names THEN catalog.names[n] ELSE NoId

\* The references that still wait for the second pass.
PendingFor(id, c) == {p \in call.pending : p.id = id /\ p.fk.col = c}

\* A column whose reference waits: it has none, and what waits is its own.
Pends(r, id, c, b) ==
  /\ r.cols[c].ref = NoId
  /\ \E p \in PendingFor(id, c) :
       /\ PendingFor(id, c) = {p}
       /\ p.fk.target # NoName
       /\ RefLike(p.fk.target, b, call.touched)

\* A column whose reference waits no more: it is the id of the name that was read.
\* Before the second pass only columns without a reference are settled.
Settled(r, id, c, b) ==
  /\ PendingFor(id, c) = {}
  /\ \E a \in call.touched \cup {b} :
       /\ RefLike(a, b, call.touched)
       /\ r.cols[c].ref = IdOfName(a)
       /\ call.step \in Reading => a = NoName

\* The record is the table's, but for references that still wait.
RecordLike(id, t) ==
  LET r == RecOf(catalog, id)
  IN  /\ r.idx = t.idx /\ r.ranges = t.ranges /\ r.parted = (t.ranges # {})
      /\ r.cols = [c \in DOMAIN t.cols |->
                     [AsRead(t.cols[c], TRUE, TRUE) EXCEPT !.ref = r.cols[c].ref]]
      /\ \A c \in DOMAIN t.cols : \/ Pends(r, id, c, t.cols[c].ref)
                                  \/ Settled(r, id, c, t.cols[c].ref)

\* Every record of this call whose table nobody changed; what waits is its own.
RecordInv ==
  NoName \notin call.listed =>
  /\ \A t \in Untouched, id \in Made :
        RecOf(catalog, id).name = t.name => RecordLike(id, t)
  /\ \A p \in call.pending : p.id \in Made /\ p = [id |-> p.id, fk |-> p.fk]

\* The verdict compares what the catalog was with what it is.
VerdictInv ==
  call.step = "done" /\ call.kind = "validate" =>
    (call.verdict = "true" <=>
      NoName \notin call.listed /\ call.original = normalize(catalog))

\* The inductive invariant.
DiscoveryInv ==
  /\ config \in Configs /\ IsSchema(server) /\ CatalogInv /\ CallInv /\ ListedInv
  /\ DraftInv /\ RecordInv /\ VerdictInv

-----------------------------------------------------------------------------
(* What the dialects make of a table comes back as it was. *)

\* The names in their order: each is there once, and nothing else is.
LEMMA InOrderLists ==
  ASSUME NEW tables, IsFiniteSet(tables), \A t \in tables : t.name \in Nat
  PROVE  /\ InOrder(tables) \in Seq(Nat)
         /\ \A i, j \in DOMAIN InOrder(tables) :
              InOrder(tables)[i] = InOrder(tables)[j] => i = j
         /\ Range(InOrder(tables)) = Names(tables)
         /\ Len(InOrder(tables)) = Cardinality(Names(tables))
         /\ Cardinality(Names(tables)) \in Nat
         /\ DOMAIN InOrder(tables) = 1 .. Cardinality(Names(tables))
<1> DEFINE names == Names(tables)
           below(n) == {m \in names : m <= n}
           rank == [n \in names |-> Cardinality(below(n))]
           k == Cardinality(names)
<1>1. IsFiniteSet(names)
  <2> DEFINE f == [t \in tables |-> t.name]
  <2>1. f \in Surjection(tables, names)
    BY DEF Surjection, Names
  <2> HIDE DEF f, names
  <2> QED BY <2>1, FS_Surjection
<1>2. names \subseteq Nat
  BY DEF Names
<1>3. k \in Nat
  BY <1>1, FS_CardinalityType
<1>4. \A n \in names : /\ IsFiniteSet(below(n)) /\ Cardinality(below(n)) \in Nat
                       /\ Cardinality(below(n)) <= k
  <2> TAKE n \in names
  <2>1. below(n) \in SUBSET names
    OBVIOUS
  <2> HIDE DEF names, below
  <2> QED BY <1>1, <2>1, FS_Subset, FS_CardinalityType
<1>5. \A n \in names : Cardinality(below(n)) >= 1
  <2> TAKE n \in names
  <2>1. n \in below(n) /\ below(n) # {}
    BY <1>2
  <2> HIDE DEF names, below
  <2> QED BY <1>4, <2>1, FS_EmptySet
<1>6. \A n, m \in names : n < m => Cardinality(below(n)) < Cardinality(below(m))
  <2> SUFFICES ASSUME NEW n \in names, NEW m \in names, n < m
               PROVE  Cardinality(below(n)) < Cardinality(below(m))
    OBVIOUS
  <2>1. below(n) \in SUBSET below(m) /\ m \in below(m) /\ m \notin below(n)
    BY <1>2
  <2>2. below(n) # below(m)
    BY <2>1
  <2> HIDE DEF names, below
  <2>3. Cardinality(below(n)) <= Cardinality(below(m))
        /\ Cardinality(below(n)) # Cardinality(below(m))
    BY <1>4, <2>1, <2>2, FS_Subset
  <2> QED BY <1>4, <2>3
<1>7. rank \in Injection(names, 1 .. k)
  <2>1. \A n \in names : rank[n] \in 1 .. k
    BY <1>3, <1>4, <1>5
  <2>2. \A n, m \in names : rank[n] = rank[m] => n = m
    <3> SUFFICES ASSUME NEW n \in names, NEW m \in names, rank[n] = rank[m], n # m
                 PROVE  FALSE
      OBVIOUS
    <3>1. n < m \/ m < n
      BY <1>2
    <3>2. Cardinality(below(n)) = Cardinality(below(m))
      OBVIOUS
    <3> HIDE DEF names, below, rank
    <3> QED BY <1>4, <1>6, <3>1, <3>2
  <2> QED BY <2>1, <2>2 DEF Injection, IsInjective
<1>8. \A i \in 1 .. k : \E n \in names : rank[n] = i
  <2>1. IsFiniteSet(1 .. k) /\ Cardinality(1 .. k) = k
    BY <1>3, FS_Interval
  <2> HIDE DEF names, rank, k
  <2>2. rank \in Surjection(names, 1 .. k)
    BY <1>7, <2>1, FS_Injection DEF k
  <2> QED BY <2>2 DEF Surjection
<1>9. \A i \in 1 .. k : /\ InOrder(tables)[i] \in names
                        /\ rank[InOrder(tables)[i]] = i
  <2> TAKE i \in 1 .. k
  <2>1. InOrder(tables)[i] = CHOOSE n \in names : Cardinality({m \in names : m <= n}) = i
    BY DEF InOrder, Names
  <2>2. \E n \in names : Cardinality({m \in names : m <= n}) = i
    BY <1>8
  <2>3. /\ InOrder(tables)[i] \in names
        /\ Cardinality({m \in names : m <= InOrder(tables)[i]}) = i
    BY <2>1, <2>2
  <2> QED BY <2>3
<1>10. DOMAIN InOrder(tables) = 1 .. k
       /\ InOrder(tables) = [i \in 1 .. k |-> InOrder(tables)[i]]
  <2>1. InOrder(tables) = [i \in 1 .. k |-> CHOOSE n \in names : Cardinality(below(n)) = i]
    BY Zenon DEF InOrder, Names
  <2> HIDE DEF names, k
  <2> QED BY <2>1
<1>11. InOrder(tables) \in Seq(Nat) /\ Len(InOrder(tables)) = k
  <2>1. \A i \in 1 .. k : InOrder(tables)[i] \in Nat
    BY <1>2, <1>9
  <2> HIDE DEF k, names
  <2>2. InOrder(tables) \in [1 .. k -> Nat]
    BY <1>10, <2>1
  <2> QED BY <1>3, <2>2
<1>12. \A n \in names : InOrder(tables)[rank[n]] = n
  BY <1>7, <1>9 DEF Injection, IsInjective
<1>13. \A n \in names : rank[n] \in 1 .. k
  BY <1>7 DEF Injection
<1>14. Range(InOrder(tables)) = names
  <2> HIDE DEF names, rank, k
  <2> QED BY <1>9, <1>10, <1>12, <1>13 DEF Range
<1>15. \A i, j \in 1 .. k : InOrder(tables)[i] = InOrder(tables)[j] => i = j
  <2> HIDE DEF names, rank, k
  <2> QED BY <1>9
<1> QED BY <1>3, <1>10, <1>11, <1>14, <1>15

\* An element of a sequence is one of its set.
LEMMA ElementType ==
  ASSUME NEW S, NEW s \in Seq(S), NEW i \in DOMAIN s
  PROVE  s[i] \in S
  OBVIOUS

\* A column, as it was before its keys were read, in either dialect.
LEMMA ColumnInverse ==
  ASSUME NEW c, IsColumn(c)
  PROVE  /\ convertColumn(MyColumn(MyColumnRow(c))) = AsRead(c, FALSE, FALSE)
         /\ convertColumn(PgColumn(PgColumnRow(c))) = AsRead(c, FALSE, FALSE)
<1>1. /\ c.type \in ColumnType /\ c.length \in Nat /\ c.nullable = ~c.pk
      /\ c.pk \in BOOLEAN /\ c.nullable \in BOOLEAN /\ c.auto \in BOOLEAN
      /\ c.type \notin HasLength => c.length = 0
  BY DEF IsColumn, Column
<1>2. c.type \in {"INT", "CHAR", "VARCHAR", "REAL", "BOOL", "BYTEA", "TEXT"}
  BY <1>1 DEF ColumnType
<1>3. /\ MyColumn(MyColumnRow(c)).type = c.type
      /\ MyColumn(MyColumnRow(c)).length = c.length
      /\ MyColumn(MyColumnRow(c)).notNull = c.pk
      /\ MyColumn(MyColumnRow(c)).serial = c.auto
  BY <1>1, <1>2 DEF MyColumn, MyColumnRow, MyParsed, MyType, HasLength
<1>4. /\ PgColumn(PgColumnRow(c)).type = c.type
      /\ PgColumn(PgColumnRow(c)).length = c.length
      /\ PgColumn(PgColumnRow(c)).notNull = c.pk
      /\ PgColumn(PgColumnRow(c)).serial = c.auto
  BY <1>1, <1>2 DEF PgColumn, PgColumnRow, PgParsed, PgType, HasLength,
     parseTypeModifier
<1>5. c.nullable = ~c.pk
  BY <1>1
<1> HIDE <1>1
<1>6. convertColumn(MyColumn(MyColumnRow(c))) = AsRead(c, FALSE, FALSE)
  BY <1>3, <1>5 DEF convertColumn, AsRead
<1>7. convertColumn(PgColumn(PgColumnRow(c))) = AsRead(c, FALSE, FALSE)
  BY <1>4, <1>5 DEF convertColumn, AsRead
<1> QED BY <1>6, <1>7

\* The answer about the columns.
LEMMA ColumnsInverse ==
  ASSUME NEW t, IsTable(t)
  PROVE  LET d == discoverColumns(t)
         IN  [c \in DOMAIN d |-> convertColumn(d[c])] = ColsRead(t, FALSE, FALSE)
<1>1. \A c \in DOMAIN t.cols : IsColumn(t.cols[c])
  BY DEF IsTable
<1>2. \A c \in DOMAIN t.cols : discoverColumns(t)[c] =
        IF config.mysql THEN MyColumn(MyColumnRow(t.cols[c]))
        ELSE PgColumn(PgColumnRow(t.cols[c]))
  BY DEF discoverColumns
<1>3. \A c \in DOMAIN t.cols :
        convertColumn(discoverColumns(t)[c]) = AsRead(t.cols[c], FALSE, FALSE)
  BY <1>1, <1>2, ColumnInverse
<1>4. DOMAIN discoverColumns(t) = DOMAIN t.cols
  BY DEF discoverColumns
<1> QED BY <1>3, <1>4 DEF ColsRead

\* The answer about the indexes: the rows have every part of every key.
LEMMA IndexesInverse ==
  ASSUME NEW t, IsTable(t)
  PROVE  discoverIndexes(t) = t.idx
<1> DEFINE Row(i, k) == [index |-> i, unique |-> t.idx[i].unique,
                         col |-> t.idx[i].fields[k].col, pos |-> k,
                         desc |-> t.idx[i].fields[k].desc]
           rows == {r \in IndexRows(t) : r.index # "PRIMARY"}
           Of(i) == {r \in rows : r.index = i}
           At(i, k) == CHOOSE r \in Of(i) : r.pos = k
<1>1. /\ t.idx = [i \in DOMAIN t.idx |-> t.idx[i]]
      /\ \A i \in DOMAIN t.idx : /\ t.idx[i] \in Index /\ t.idx[i].fields # << >>
                                 /\ i # "PRIMARY"
  BY DEF IsTable
<1>2. rows = UNION {{Row(i, k) : k \in DOMAIN t.idx[i].fields} : i \in DOMAIN t.idx}
  <2>1. \A i, k : Row(i, k).index = i
    OBVIOUS
  <2> QED BY <1>1, <2>1 DEF IndexRows
<1>3. \A i \in DOMAIN t.idx : Of(i) = {Row(i, k) : k \in DOMAIN t.idx[i].fields}
  <2>1. \A i, k : Row(i, k).index = i
    OBVIOUS
  <2> HIDE DEF Row, rows
  <2> QED BY <1>2, <2>1
<1>4. \A i \in DOMAIN t.idx : 1 \in DOMAIN t.idx[i].fields
  BY <1>1 DEF Index
<1>5. {r.index : r \in rows} = DOMAIN t.idx
  <2>1. \A i, k : Row(i, k).index = i
    OBVIOUS
  <2> HIDE DEF Row, rows
  <2> QED BY <1>2, <1>4, <2>1
<1>6. \A i \in DOMAIN t.idx : \A k \in DOMAIN t.idx[i].fields : At(i, k) = Row(i, k)
  <2>1. \A i, k : Row(i, k).pos = k
    OBVIOUS
  <2> HIDE DEF Row, Of
  <2> QED BY <1>3, <2>1
<1>7. \A i \in DOMAIN t.idx : {r.pos : r \in Of(i)} = DOMAIN t.idx[i].fields
  <2>1. \A i, k : Row(i, k).pos = k
    OBVIOUS
  <2> HIDE DEF Row, Of
  <2> QED BY <1>3, <2>1
<1>8. \A i \in DOMAIN t.idx :
        [unique |-> At(i, 1).unique,
         fields |-> [k \in {r.pos : r \in Of(i)} |->
                       [col |-> At(i, k).col, desc |-> At(i, k).desc]]] = t.idx[i]
  <2> TAKE i \in DOMAIN t.idx
  <2> DEFINE fields == t.idx[i].fields
             n == Len(fields)
  <2>1. /\ t.idx[i] = [unique |-> t.idx[i].unique, fields |-> fields]
        /\ fields \in Seq([col : STRING, desc : BOOLEAN])
    <3>1. t.idx[i] \in [unique : BOOLEAN, fields : Seq([col : STRING, desc : BOOLEAN])]
      BY <1>1 DEF Index
    <3> QED BY <3>1
  <2>2. At(i, 1).unique = t.idx[i].unique
    <3>1. At(i, 1) = Row(i, 1)
      BY <1>4, <1>6
    <3>2. Row(i, 1).unique = t.idx[i].unique
      OBVIOUS
    <3> HIDE DEF At, Row
    <3> QED BY <3>1, <3>2
  <2>3. \A k \in DOMAIN fields : [col |-> At(i, k).col, desc |-> At(i, k).desc] = fields[k]
    <3> TAKE k \in DOMAIN fields
    <3>1. At(i, k) = Row(i, k)
      BY <1>6
    <3>2. Row(i, k).col = fields[k].col /\ Row(i, k).desc = fields[k].desc
      OBVIOUS
    <3> HIDE DEF At, fields, Row
    <3>3. fields[k] \in [col : STRING, desc : BOOLEAN]
      BY <2>1, ElementType
    <3> QED BY <3>1, <3>2, <3>3
  <2>4. [k \in DOMAIN fields |-> [col |-> At(i, k).col, desc |-> At(i, k).desc]] = fields
    <3> HIDE DEF At, fields
    <3>1. fields = [k \in DOMAIN fields |-> fields[k]]
      BY <2>1
    <3> QED BY <2>3, <3>1
  <2>5. {r.pos : r \in Of(i)} = DOMAIN fields
    BY <1>7
  <2> HIDE DEF At, Of, fields
  <2> QED BY <2>1, <2>2, <2>4, <2>5
<1>9. discoverIndexes(t) =
        [i \in {r.index : r \in rows} |->
           [unique |-> At(i, 1).unique,
            fields |-> [k \in {r.pos : r \in Of(i)} |->
                          [col |-> At(i, k).col, desc |-> At(i, k).desc]]]]
  BY Zenon DEF discoverIndexes
<1> HIDE DEF At, Of, rows
<1> QED BY <1>1, <1>5, <1>8, <1>9

\* A record with other columns.
LEMMA WithCols ==
  ASSUME NEW t, IsRecord(t), NEW cols
  PROVE  /\ IsRecord([t EXCEPT !.cols = cols])
         /\ [t EXCEPT !.cols = cols].name = t.name
         /\ [t EXCEPT !.cols = cols].cols = cols
         /\ [t EXCEPT !.cols = cols].idx = t.idx
         /\ [t EXCEPT !.cols = cols].parted = t.parted
         /\ [t EXCEPT !.cols = cols].ranges = t.ranges
<1> DEFINE u == [name |-> t.name, cols |-> t.cols, idx |-> t.idx,
                 parted |-> t.parted, ranges |-> t.ranges]
<1>1. t = u
  BY DEF IsRecord
<1>2. [u EXCEPT !.cols = cols] =
        [name |-> t.name, cols |-> cols, idx |-> t.idx, parted |-> t.parted,
         ranges |-> t.ranges]
  OBVIOUS
<1>3. [t EXCEPT !.cols = cols] =
        [name |-> t.name, cols |-> cols, idx |-> t.idx, parted |-> t.parted,
         ranges |-> t.ranges]
  <2> HIDE DEF u
  <2>1. [t EXCEPT !.cols = cols] = [u EXCEPT !.cols = cols]
    BY <1>1, Zenon
  <2> QED BY <2>1, <1>2
<1> QED BY <1>3 DEF IsRecord

\* A record with other indexes.
LEMMA WithIdx ==
  ASSUME NEW t, IsRecord(t), NEW idx
  PROVE  /\ IsRecord([t EXCEPT !.idx = idx])
         /\ [t EXCEPT !.idx = idx].name = t.name
         /\ [t EXCEPT !.idx = idx].cols = t.cols
         /\ [t EXCEPT !.idx = idx].idx = idx
         /\ [t EXCEPT !.idx = idx].parted = t.parted
         /\ [t EXCEPT !.idx = idx].ranges = t.ranges
<1> DEFINE u == [name |-> t.name, cols |-> t.cols, idx |-> t.idx,
                 parted |-> t.parted, ranges |-> t.ranges]
<1>1. t = u
  BY DEF IsRecord
<1>2. [u EXCEPT !.idx = idx] =
        [name |-> t.name, cols |-> t.cols, idx |-> idx, parted |-> t.parted,
         ranges |-> t.ranges]
  OBVIOUS
<1>3. [t EXCEPT !.idx = idx] =
        [name |-> t.name, cols |-> t.cols, idx |-> idx, parted |-> t.parted,
         ranges |-> t.ranges]
  <2> HIDE DEF u
  <2>1. [t EXCEPT !.idx = idx] = [u EXCEPT !.idx = idx]
    BY <1>1, Zenon
  <2> QED BY <2>1, <1>2
<1> QED BY <1>3 DEF IsRecord

\* What a key adds to a column that was read.
LEMMA KeyFlags ==
  ASSUME NEW c
  PROVE  /\ c.pk \in BOOLEAN =>
              IF c.pk THEN [AsRead(c, FALSE, FALSE) EXCEPT !.pk = TRUE] = AsRead(c, TRUE, FALSE)
              ELSE AsRead(c, FALSE, FALSE) = AsRead(c, TRUE, FALSE)
         /\ c.part \in BOOLEAN =>
              IF c.part THEN [AsRead(c, TRUE, FALSE) EXCEPT !.part = TRUE] = AsRead(c, TRUE, TRUE)
              ELSE AsRead(c, TRUE, FALSE) = AsRead(c, TRUE, TRUE)
<1> DEFINE Rd(pk, part) ==
      [type |-> c.type, length |-> c.length, nullable |-> c.nullable, pk |-> pk,
       part |-> part, auto |-> c.auto, ref |-> NoId]
<1> DEFINE yes == TRUE
           no == FALSE
           With(r) == [r EXCEPT !.pk = TRUE]
           Part(r) == [r EXCEPT !.part = TRUE]
<1>1. /\ AsRead(c, FALSE, FALSE) = Rd(no, no)
      /\ AsRead(c, TRUE, FALSE) = Rd(c.pk, no)
      /\ AsRead(c, TRUE, TRUE) = Rd(c.pk, c.part)
  BY Zenon DEF AsRead
<1>2. \A r : With(r) = [r EXCEPT !.pk = yes] /\ Part(r) = [r EXCEPT !.part = yes]
  BY Zenon
<1>3. /\ c.pk \in BOOLEAN => (c.pk /\ c.pk = yes) \/ (~c.pk /\ c.pk = no)
      /\ c.part \in BOOLEAN => (c.part /\ c.part = yes) \/ (~c.part /\ c.part = no)
  OBVIOUS
<1> HIDE DEF yes, no
<1>4. \A pk, part, x : /\ [Rd(pk, part) EXCEPT !.pk = x] = Rd(x, part)
                       /\ [Rd(pk, part) EXCEPT !.part = x] = Rd(pk, x)
  OBVIOUS
<1> HIDE DEF Rd, With, Part
<1>5. /\ With(Rd(no, no)) = Rd(yes, no)
      /\ Part(Rd(c.pk, no)) = Rd(c.pk, yes)
  <2>1. /\ [Rd(no, no) EXCEPT !.pk = yes] = Rd(yes, no)
        /\ [Rd(c.pk, no) EXCEPT !.part = yes] = Rd(c.pk, yes)
    BY <1>4
  <2>2. /\ With(Rd(no, no)) = [Rd(no, no) EXCEPT !.pk = yes]
        /\ Part(Rd(c.pk, no)) = [Rd(c.pk, no) EXCEPT !.part = yes]
    BY <1>2, Zenon
  <2> QED BY <2>1, <2>2, Zenon
<1>6. c.pk \in BOOLEAN =>
        IF c.pk THEN With(AsRead(c, FALSE, FALSE)) = AsRead(c, TRUE, FALSE)
        ELSE AsRead(c, FALSE, FALSE) = AsRead(c, TRUE, FALSE)
  <2>1. ASSUME c.pk, c.pk = yes PROVE With(AsRead(c, FALSE, FALSE)) = AsRead(c, TRUE, FALSE)
    BY <1>1, <1>5, <2>1, Zenon
  <2>2. ASSUME ~c.pk, c.pk = no PROVE AsRead(c, FALSE, FALSE) = AsRead(c, TRUE, FALSE)
    BY <1>1, <2>2, Zenon
  <2> QED BY <1>3, <2>1, <2>2, Zenon
<1>7. c.part \in BOOLEAN =>
        IF c.part THEN Part(AsRead(c, TRUE, FALSE)) = AsRead(c, TRUE, TRUE)
        ELSE AsRead(c, TRUE, FALSE) = AsRead(c, TRUE, TRUE)
  <2>1. ASSUME c.part, c.part = yes PROVE Part(AsRead(c, TRUE, FALSE)) = AsRead(c, TRUE, TRUE)
    BY <1>1, <1>5, <2>1, Zenon
  <2>2. ASSUME ~c.part, c.part = no PROVE AsRead(c, TRUE, FALSE) = AsRead(c, TRUE, TRUE)
    BY <1>1, <2>2, Zenon
  <2> QED BY <1>3, <2>1, <2>2, Zenon
<1> QED BY <1>6, <1>7, Zenon DEF With, Part

\* The columns that a primary key has, among those of a table.
LEMMA PrimaryColumns ==
  ASSUME NEW t, IsTable(t)
  PROVE  LET read == UNION {Constraints(u) : u \in {t}}
         IN  UNION {x.cols : x \in {x \in read : x.kind = "primary"}} = PrimaryKey(t)
<1> DEFINE read == UNION {Constraints(u) : u \in {t}}
           prim == [kind |-> "primary", cols |-> PrimaryKey(t), target |-> NoName]
<1>1. read = Constraints(t)
  OBVIOUS
<1>2. {x \in Constraints(t) : x.kind = "primary"} = {prim}
  BY DEF Constraints
<1>3. prim.cols = PrimaryKey(t)
  OBVIOUS
<1> HIDE DEF prim, read
<1>4. UNION {x.cols : x \in {prim}} = prim.cols
  OBVIOUS
<1> QED BY <1>1, <1>2, <1>3, <1>4

\* The foreign keys of a table: one for each column that has one.
LEMMA ForeignColumns ==
  ASSUME NEW t, IsTable(t)
  PROVE  ForeignKeys(UNION {Constraints(u) : u \in {t}}) =
           {[col |-> c, target |-> t.cols[c].ref] :
              c \in {c \in DOMAIN t.cols : t.cols[c].ref # NoName}}
<1> DEFINE read == UNION {Constraints(u) : u \in {t}}
           Key(c) == [kind |-> "foreign", cols |-> {c}, target |-> t.cols[c].ref]
           cs == {c \in DOMAIN t.cols : t.cols[c].ref # NoName}
           Of(x) == {[col |-> c, target |-> x.target] : c \in x.cols}
<1>1. read = Constraints(t)
  OBVIOUS
<1>2. {x \in Constraints(t) : x.kind = "foreign"} = {Key(c) : c \in cs}
  BY DEF Constraints
<1>3. \A c : Key(c).cols = {c} /\ Key(c).target = t.cols[c].ref
  OBVIOUS
<1>4. \A c : Of(Key(c)) = {[col |-> c, target |-> t.cols[c].ref]}
  <2> HIDE DEF Key
  <2> QED BY <1>3
<1>5. ForeignKeys(read) = UNION {Of(x) : x \in {x \in read : x.kind = "foreign"}}
  BY Zenon DEF ForeignKeys
<1> HIDE DEF read, Key, Of, cs
<1>6. UNION {Of(x) : x \in {Key(c) : c \in cs}} =
        {[col |-> c, target |-> t.cols[c].ref] : c \in cs}
  BY <1>4
<1>7. ForeignKeys(read) = {[col |-> c, target |-> t.cols[c].ref] : c \in cs}
  BY <1>1, <1>2, <1>5, <1>6
<1> QED BY <1>7 DEF read, cs

\* The answer about the constraints, on the draft.
LEMMA ConstraintsInverse ==
  ASSUME NEW t, IsTable(t), NEW d, IsRecord(d), d.cols = ColsRead(t, FALSE, FALSE)
  PROVE  applyConstraints(d, UNION {Constraints(u) : u \in {t}}).cols
           = ColsRead(t, TRUE, FALSE)
<1> DEFINE read == UNION {Constraints(u) : u \in {t}}
           keys == UNION {x.cols : x \in {x \in read : x.kind = "primary"}}
           cols == [c \in DOMAIN d.cols |-> IF c \in keys
                      THEN [d.cols[c] EXCEPT !.pk = TRUE] ELSE d.cols[c]]
<1>1. keys = PrimaryKey(t)
  BY PrimaryColumns
<1>2. applyConstraints(d, read) = [d EXCEPT !.cols = cols]
  BY Zenon DEF applyConstraints
<1>3. applyConstraints(d, read).cols = cols
  <2> HIDE DEF cols, keys, read
  <2> QED BY <1>2, WithCols
<1>4. \A c \in DOMAIN t.cols : cols[c] = AsRead(t.cols[c], TRUE, FALSE)
  <2> SUFFICES ASSUME NEW c \in DOMAIN t.cols
               PROVE  cols[c] = AsRead(t.cols[c], TRUE, FALSE)
    OBVIOUS
  <2>1. d.cols[c] = AsRead(t.cols[c], FALSE, FALSE) /\ c \in DOMAIN d.cols
    BY DEF ColsRead
  <2>2. t.cols[c].pk \in BOOLEAN
    BY DEF IsTable, IsColumn, Column
  <2>3. c \in keys <=> t.cols[c].pk
    BY <1>1 DEF PrimaryKey
  <2> HIDE DEF keys
  <2>4. cols[c] = IF c \in keys THEN [d.cols[c] EXCEPT !.pk = TRUE] ELSE d.cols[c]
    BY <2>1
  <2> HIDE DEF cols
  <2> QED BY <2>1, <2>2, <2>3, <2>4, KeyFlags
<1>5. cols = [c \in DOMAIN t.cols |-> cols[c]]
  BY DEF ColsRead
<1> HIDE DEF cols, read
<1> QED BY <1>3, <1>4, <1>5 DEF ColsRead, read

\* The answer about the columns of the partition key, on the draft.
LEMMA KeysInverse ==
  ASSUME NEW t, IsTable(t), NEW d, IsRecord(d), d.cols = ColsRead(t, TRUE, FALSE)
  PROVE  applyPartitionKeys(d, UNION {discoverPartitionKeys(u) : u \in {t}}).cols
           = ColsRead(t, TRUE, TRUE)
<1> DEFINE keys == UNION {discoverPartitionKeys(u) : u \in {t}}
           cols == [c \in DOMAIN d.cols |-> IF c \in keys
                      THEN [d.cols[c] EXCEPT !.part = TRUE] ELSE d.cols[c]]
<1>1. keys = {c \in DOMAIN t.cols : t.cols[c].part}
  BY DEF discoverPartitionKeys
<1>2. applyPartitionKeys(d, keys) = [d EXCEPT !.cols = cols]
  BY Zenon DEF applyPartitionKeys
<1>3. applyPartitionKeys(d, keys).cols = cols
  <2> HIDE DEF cols, keys
  <2> QED BY <1>2, WithCols
<1>4. \A c \in DOMAIN t.cols : cols[c] = AsRead(t.cols[c], TRUE, TRUE)
  <2> SUFFICES ASSUME NEW c \in DOMAIN t.cols
               PROVE  cols[c] = AsRead(t.cols[c], TRUE, TRUE)
    OBVIOUS
  <2>1. d.cols[c] = AsRead(t.cols[c], TRUE, FALSE) /\ c \in DOMAIN d.cols
    BY DEF ColsRead
  <2>2. t.cols[c].part \in BOOLEAN
    BY DEF IsTable, IsColumn, Column
  <2>3. c \in keys <=> t.cols[c].part
    BY <1>1
  <2> HIDE DEF keys
  <2>4. cols[c] = IF c \in keys THEN [d.cols[c] EXCEPT !.part = TRUE] ELSE d.cols[c]
    BY <2>1
  <2> HIDE DEF cols
  <2> QED BY <2>1, <2>2, <2>3, <2>4, KeyFlags
<1>5. cols = [c \in DOMAIN t.cols |-> cols[c]]
  BY DEF ColsRead
<1> HIDE DEF cols, keys
<1> QED BY <1>3, <1>4, <1>5 DEF ColsRead, keys

\* A record with the partitions of these names.
LEMMA WithPartitioning ==
  ASSUME NEW d, IsRecord(d), NEW names
  PROVE  LET u == applyPartitioning(d, names)
         IN  /\ IsRecord(u)
             /\ u.name = d.name /\ u.cols = d.cols /\ u.idx = d.idx
             /\ u.parted = (names # {}) /\ u.ranges = {n[Len(n)] : n \in names}
<1> DEFINE u == applyPartitioning(d, names)
           parted == names # {}
           ranges == {n[Len(n)] : n \in names}
           e == [name |-> d.name, cols |-> d.cols, idx |-> d.idx,
                 parted |-> d.parted, ranges |-> d.ranges]
<1>1. u = [[d EXCEPT !.parted = parted] EXCEPT !.ranges = ranges]
  BY Zenon DEF applyPartitioning
<1>2. d = e
  BY Zenon DEF IsRecord
<1> HIDE DEF parted, ranges
<1>3. [e EXCEPT !.parted = parted] =
        [name |-> d.name, cols |-> d.cols, idx |-> d.idx, parted |-> parted,
         ranges |-> d.ranges]
  OBVIOUS
<1>4. [[name |-> d.name, cols |-> d.cols, idx |-> d.idx, parted |-> parted,
        ranges |-> d.ranges] EXCEPT !.ranges = ranges] =
        [name |-> d.name, cols |-> d.cols, idx |-> d.idx, parted |-> parted,
         ranges |-> ranges]
  OBVIOUS
<1>5. u = [name |-> d.name, cols |-> d.cols, idx |-> d.idx, parted |-> parted,
           ranges |-> ranges]
  <2> HIDE DEF e
  <2> QED BY <1>1, <1>2, <1>3, <1>4, Zenon
<1> HIDE DEF u
<1>6. /\ IsRecord(u) /\ u.name = d.name /\ u.cols = d.cols /\ u.idx = d.idx
      /\ u.parted = parted /\ u.ranges = ranges
  BY <1>5 DEF IsRecord
<1> QED BY <1>6, Zenon DEF u, parted, ranges

\* The answer about the partitions: the numbers at the ends of their names.
LEMMA PartitionsInverse ==
  ASSUME NEW t, IsTable(t)
  PROVE  LET names == UNION {PartitionNames(v) : v \in {t}}
         IN  (names # {}) = (t.ranges # {}) /\ {n[Len(n)] : n \in names} = t.ranges
<1> DEFINE names == UNION {PartitionNames(v) : v \in {t}}
<1>1. names = PartitionNames(t)
  OBVIOUS
<1>2. (names # {}) = (t.ranges # {})
  <2>1. CASE config.mysql
    <3>1. names = {<<"p", b>> : b \in t.ranges}
      BY <1>1, <2>1 DEF PartitionNames
    <3> QED BY <3>1
  <2>2. CASE ~config.mysql
    <3>1. names = {<<t.name, "p", b>> : b \in t.ranges}
      BY <1>1, <2>2 DEF PartitionNames
    <3> QED BY <3>1
  <2> QED BY <2>1, <2>2
<1>3. {n[Len(n)] : n \in names} = t.ranges
  <2> DEFINE My(b) == << "p", b >>
             Pg(b) == << t.name, "p", b >>
  <2>1. \A b : My(b)[Len(My(b))] = b /\ Pg(b)[Len(Pg(b))] = b
    OBVIOUS
  <2>2. names = IF config.mysql THEN {My(b) : b \in t.ranges} ELSE {Pg(b) : b \in t.ranges}
    BY <1>1 DEF PartitionNames
  <2> HIDE DEF My, Pg, names
  <2> QED BY <2>1, <2>2
<1> QED BY <1>2, <1>3, Zenon

-----------------------------------------------------------------------------
(* What the operators of a call change. *)

\* With the next table: what changes, and what does not.
LEMMA OnwardIs ==
  ASSUME NEW c, DOMAIN c = CallFields
  PROVE  /\ DOMAIN Onward(c) = CallFields
         /\ Onward(c).step = IF c.todo = << >> THEN "resolve" ELSE "columns"
         /\ Onward(c).draft = NewTable(IF c.todo = << >> THEN NoName ELSE Head(c.todo))
         /\ Onward(c).fks = {}
         /\ Onward(c).kind = c.kind /\ Onward(c).original = c.original
         /\ Onward(c).first = c.first /\ Onward(c).listed = c.listed
         /\ Onward(c).todo = c.todo /\ Onward(c).pending = c.pending
         /\ Onward(c).touched = c.touched /\ Onward(c).skipped = c.skipped
         /\ Onward(c).verdict = c.verdict
  BY DEF Onward, CallFields

\* A new table's record.
LEMMA NewTableIs ==
  ASSUME NEW nm
  PROVE  IsRecord(NewTable(nm)) /\ NewTable(nm).name = nm
  BY DEF IsRecord, NewTable

\* The end of a call.
LEMMA EndedIs ==
  ASSUME NEW c, NEW raised \in BOOLEAN, DOMAIN call = CallFields
  PROVE  LET e == Ended(c, raised)
         IN  /\ DOMAIN e = CallFields
             /\ e.step = "done"
             /\ e.verdict = IF raised THEN (IF call.kind = "validate" THEN "false" ELSE "raised")
                            ELSE IF call.kind = "discover" THEN "none"
                            ELSE IF call.original = normalize(c) THEN "true" ELSE "false"
             /\ e.kind = call.kind /\ e.original = call.original
             /\ e.first = call.first /\ e.listed = call.listed
             /\ e.todo = call.todo /\ e.pending = call.pending
             /\ e.touched = call.touched /\ e.skipped = call.skipped
             /\ e.draft = call.draft
  BY DEF Ended, CallFields

\* The start of a call.
LEMMA BegunIs ==
  ASSUME NEW kind, NEW n
  PROVE  LET b == Begun(kind, n)
         IN  /\ DOMAIN b = CallFields
             /\ b.step = "list" /\ b.kind = kind /\ b.first = nextId
             /\ b.listed = {NoName} /\ b.todo = << >> /\ b.pending = {}
             /\ b.touched = {} /\ b.skipped = {} /\ b.draft = NewTable(NoName)
  BY DEF Begun, CallFields

\* insert() of a new id.
LEMMA InsertedIs ==
  ASSUME NEW c, NEW id, NEW rec
  PROVE  /\ Live(Inserted(c, id, rec)) = Live(c) \cup {id}
         /\ RecOf(Inserted(c, id, rec), id) = rec
         /\ \A x \in Live(c) \ {id} : RecOf(Inserted(c, id, rec), x) = RecOf(c, x)
         /\ DOMAIN Inserted(c, id, rec).names = DOMAIN c.names \cup {rec.name}
         /\ Inserted(c, id, rec).names[rec.name] = id
         /\ \A n \in DOMAIN c.names \ {rec.name} :
              Inserted(c, id, rec).names[n] = c.names[n]
  BY DEF Inserted, Put, Live, RecOf

\* update() of a record that keeps its name.
LEMMA UpdatedIs ==
  ASSUME NEW c, NEW id \in Live(c), NEW rec, rec.name = RecOf(c, id).name
  PROVE  /\ Live(Updated(c, id, rec)) = Live(c)
         /\ RecOf(Updated(c, id, rec), id) = rec
         /\ \A x \in Live(c) \ {id} : RecOf(Updated(c, id, rec), x) = RecOf(c, x)
         /\ Updated(c, id, rec).names = c.names
  BY DEF Updated, Put, Live, RecOf

\* The names still to be read: the first and the others.
LEMMA HeadAndTail ==
  ASSUME NEW s \in Seq(Nat), s # << >>,
         \A i, j \in DOMAIN s : s[i] = s[j] => i = j
  PROVE  /\ Tail(s) \in Seq(Nat)
         /\ \A i, j \in DOMAIN Tail(s) : Tail(s)[i] = Tail(s)[j] => i = j
         /\ Range(s) = {Head(s)} \cup Range(Tail(s))
         /\ Head(s) \notin Range(Tail(s))
<1>1. /\ Tail(s) \in Seq(Nat) /\ Len(Tail(s)) = Len(s) - 1 /\ Len(s) >= 1
      /\ \A i \in 1 .. Len(s) - 1 : Tail(s)[i] = s[i + 1]
      /\ Head(s) = s[1]
  OBVIOUS
<1>2. DOMAIN s = 1 .. Len(s) /\ DOMAIN Tail(s) = 1 .. Len(s) - 1 /\ Len(s) \in Nat
  BY <1>1
<1>3. \A i, j \in DOMAIN Tail(s) : Tail(s)[i] = Tail(s)[j] => i = j
  <2> SUFFICES ASSUME NEW i \in DOMAIN Tail(s), NEW j \in DOMAIN Tail(s),
                      Tail(s)[i] = Tail(s)[j]
               PROVE  i = j
    OBVIOUS
  <2>1. i + 1 \in DOMAIN s /\ j + 1 \in DOMAIN s /\ s[i + 1] = s[j + 1]
    BY <1>1, <1>2
  <2>2. i + 1 = j + 1
    BY <2>1
  <2> QED BY <1>2, <2>2
<1>4. Range(s) = {Head(s)} \cup Range(Tail(s))
  <2>1. \A i \in 1 .. Len(s) : i = 1 \/ (i - 1 \in 1 .. Len(s) - 1 /\ s[i] = Tail(s)[i - 1])
    BY <1>1, <1>2
  <2>2. \A i \in 1 .. Len(s) - 1 : i + 1 \in 1 .. Len(s) /\ s[i + 1] = Tail(s)[i]
    BY <1>1, <1>2
  <2>3. 1 \in 1 .. Len(s)
    BY <1>1, <1>2
  <2>4. \A i \in 1 .. Len(s) : s[i] \in {Head(s)} \cup Range(Tail(s))
    <3> TAKE i \in 1 .. Len(s)
    <3>1. CASE i = 1
      BY <1>1, <3>1
    <3>2. CASE i # 1
      <4>1. i - 1 \in DOMAIN Tail(s) /\ s[i] = Tail(s)[i - 1]
        BY <1>2, <2>1, <3>2
      <4>2. Tail(s)[i - 1] \in Range(Tail(s))
        BY <4>1 DEF Range
      <4> QED BY <4>1, <4>2
    <3> QED BY <3>1, <3>2
  <2>5. \A i \in 1 .. Len(s) - 1 : Tail(s)[i] \in Range(s)
    <3> TAKE i \in 1 .. Len(s) - 1
    <3>1. i + 1 \in DOMAIN s /\ s[i + 1] = Tail(s)[i]
      BY <1>2, <2>2
    <3> QED BY <3>1 DEF Range
  <2>6. Head(s) \in Range(s)
    BY <1>1, <1>2, <2>3 DEF Range
  <2>7. \A x \in Range(s) : x \in {Head(s)} \cup Range(Tail(s))
    BY <1>2, <2>4 DEF Range
  <2>8. \A x \in Range(Tail(s)) : x \in Range(s)
    BY <1>2, <2>5 DEF Range
  <2> QED BY <2>6, <2>7, <2>8
<1>5. Head(s) \notin Range(Tail(s))
  <2>1. \A i \in 1 .. Len(s) - 1 : s[i + 1] # s[1]
    <3> TAKE i \in 1 .. Len(s) - 1
    <3>1. i + 1 \in DOMAIN s /\ 1 \in DOMAIN s /\ i + 1 # 1
      BY <1>1, <1>2
    <3> QED BY <3>1
  <2> QED BY <1>1, <1>2, <2>1 DEF Range
<1> QED BY <1>1, <1>3, <1>4, <1>5

-----------------------------------------------------------------------------
(* What others' changes leave of a table that they did not touch. *)

SameColumn(a, b) ==
  /\ a.type = b.type /\ a.length = b.length /\ a.nullable = b.nullable
  /\ a.pk = b.pk /\ a.part = b.part /\ a.auto = b.auto

\* A reference follows the table that it is to, or goes with it.
RefStep(a, b, touched) ==
  a = b \/ (a # NoName /\ a \in touched /\ b \in touched \cup {NoName})

Evolved(t, u, touched) ==
  /\ t.name = u.name /\ t.idx = u.idx /\ t.ranges = u.ranges
  /\ DOMAIN t.cols = DOMAIN u.cols
  /\ \A c \in DOMAIN t.cols : /\ SameColumn(t.cols[c], u.cols[c])
                              /\ RefStep(t.cols[c].ref, u.cols[c].ref, touched)

\* A table is one of its own past.
LEMMA EvolvedReflexive ==
  ASSUME NEW t, NEW touched
  PROVE  Evolved(t, t, touched)
  BY DEF Evolved, SameColumn, RefStep

\* What was read of a table's columns is what one would read of them now.
LEMMA EvolvedColumns ==
  ASSUME NEW t, NEW u, NEW touched, Evolved(t, u, touched)
  PROVE  /\ \A c \in DOMAIN t.cols : AsRead(t.cols[c], TRUE, TRUE) = AsRead(u.cols[c], TRUE, TRUE)
         /\ ColsRead(t, FALSE, FALSE) = ColsRead(u, FALSE, FALSE)
         /\ ColsRead(t, TRUE, FALSE) = ColsRead(u, TRUE, FALSE)
         /\ ColsRead(t, TRUE, TRUE) = ColsRead(u, TRUE, TRUE)
<1>1. \A c \in DOMAIN t.cols : AsRead(t.cols[c], TRUE, TRUE) = AsRead(u.cols[c], TRUE, TRUE)
  BY DEF Evolved, SameColumn, AsRead
<1>2. \A c \in DOMAIN t.cols : AsRead(t.cols[c], FALSE, FALSE) = AsRead(u.cols[c], FALSE, FALSE)
  BY DEF Evolved, SameColumn, AsRead
<1>3. \A c \in DOMAIN t.cols : AsRead(t.cols[c], TRUE, FALSE) = AsRead(u.cols[c], TRUE, FALSE)
  BY DEF Evolved, SameColumn, AsRead
<1>4. DOMAIN t.cols = DOMAIN u.cols
  BY DEF Evolved
<1>5. ColsRead(t, FALSE, FALSE) = ColsRead(u, FALSE, FALSE)
  BY <1>2, <1>4 DEF ColsRead
<1>6. ColsRead(t, TRUE, FALSE) = ColsRead(u, TRUE, FALSE)
  BY <1>3, <1>4 DEF ColsRead
<1>7. ColsRead(t, TRUE, TRUE) = ColsRead(u, TRUE, TRUE)
  BY <1>1, <1>4 DEF ColsRead
<1> QED BY <1>1, <1>5, <1>6, <1>7

\* A name that was read still means the table that the column refers to, or one
\* that others changed.
LEMMA RefLikeKept ==
  ASSUME NEW a, NEW b, NEW c, NEW old, NEW new, old \subseteq new,
         RefLike(a, b, old), RefStep(b, c, new)
  PROVE  RefLike(a, c, new)
  BY DEF RefLike, RefStep

\* The foreign keys that were read of a table.
LEMMA FksKept ==
  ASSUME NEW fks, NEW t, NEW u, NEW old, NEW new, old \subseteq new,
         FksLike(fks, t, old), Evolved(t, u, new)
  PROVE  FksLike(fks, u, new)
<1>1. \A fk \in fks : /\ fk = [col |-> fk.col, target |-> fk.target]
                      /\ fk.col \in DOMAIN t.cols
                      /\ fk.target # NoName
                      /\ RefLike(fk.target, t.cols[fk.col].ref, old)
  BY DEF FksLike
<1>2. \A fk \in fks : RefLike(fk.target, u.cols[fk.col].ref, new)
  BY <1>1, RefLikeKept DEF Evolved
<1>3. \A c \in DOMAIN u.cols : u.cols[c].ref # NoName => t.cols[c].ref # NoName
  BY DEF Evolved, RefStep
<1>4. DOMAIN t.cols = DOMAIN u.cols
  BY DEF Evolved
<1>5. \A c \in DOMAIN u.cols : u.cols[c].ref # NoName => \E fk \in fks : fk.col = c
  BY <1>3, <1>4 DEF FksLike
<1>6. \A f, g \in fks : f.col = g.col => f = g
  BY DEF FksLike
<1> QED BY <1>1, <1>2, <1>4, <1>5, <1>6 DEF FksLike

\* A record of this call that a step leaves alone.
LEMMA RecordKept ==
  ASSUME NEW id, NEW t, NEW u, RecordLike(id, t),
         Evolved(t, u, call'.touched), call.touched \subseteq call'.touched,
         RecOf(catalog', id) = RecOf(catalog, id),
         \A c \in DOMAIN t.cols : PendingFor(id, c)' = PendingFor(id, c),
         call'.step \in Reading => call.step \in Reading,
         \/ catalog'.names = catalog.names
         \/ /\ call.step \in Reading
            /\ NoName \notin DOMAIN catalog.names /\ NoName \notin DOMAIN catalog'.names
  PROVE  RecordLike(id, u)'
<1> DEFINE r == RecOf(catalog, id)
<1>1. /\ r.idx = t.idx /\ r.ranges = t.ranges /\ r.parted = (t.ranges # {})
      /\ r.cols = [c \in DOMAIN t.cols |->
                     [AsRead(t.cols[c], TRUE, TRUE) EXCEPT !.ref = r.cols[c].ref]]
      /\ \A c \in DOMAIN t.cols : \/ Pends(r, id, c, t.cols[c].ref)
                                  \/ Settled(r, id, c, t.cols[c].ref)
  BY Zenon DEF RecordLike
<1>2. /\ t.idx = u.idx /\ t.ranges = u.ranges /\ DOMAIN t.cols = DOMAIN u.cols
      /\ \A c \in DOMAIN t.cols : RefStep(t.cols[c].ref, u.cols[c].ref, call'.touched)
  BY DEF Evolved
<1>3. \A c \in DOMAIN t.cols : AsRead(t.cols[c], TRUE, TRUE) = AsRead(u.cols[c], TRUE, TRUE)
  BY EvolvedColumns
<1>4. r.cols = [c \in DOMAIN u.cols |->
                  [AsRead(u.cols[c], TRUE, TRUE) EXCEPT !.ref = r.cols[c].ref]]
  BY <1>1, <1>2, <1>3
<1>5. ASSUME NEW c \in DOMAIN t.cols, Pends(r, id, c, t.cols[c].ref)
      PROVE  Pends(r, id, c, u.cols[c].ref)'
  <2>1. PICK p \in PendingFor(id, c) :
          /\ PendingFor(id, c) = {p}
          /\ p.fk.target # NoName
          /\ RefLike(p.fk.target, t.cols[c].ref, call.touched)
    BY <1>5 DEF Pends
  <2>2. RefLike(p.fk.target, u.cols[c].ref, call'.touched)
    BY <1>2, <2>1, RefLikeKept
  <2>3. r.cols[c].ref = NoId
    BY <1>5 DEF Pends
  <2>4. r' = r
    OBVIOUS
  <2> HIDE DEF r
  <2> QED BY <2>1, <2>2, <2>3, <2>4 DEF Pends
<1>6. ASSUME NEW c \in DOMAIN t.cols, Settled(r, id, c, t.cols[c].ref)
      PROVE  Settled(r, id, c, u.cols[c].ref)'
  <2>1. PICK a \in call.touched \cup {t.cols[c].ref} :
          /\ RefLike(a, t.cols[c].ref, call.touched)
          /\ r.cols[c].ref = IdOfName(a)
          /\ call.step \in Reading => a = NoName
    BY <1>6 DEF Settled
  <2>2. RefLike(a, u.cols[c].ref, call'.touched)
    BY <1>2, <2>1, RefLikeKept
  <2>3. a \in call'.touched \cup {u.cols[c].ref}
    BY <2>2 DEF RefLike
  <2>4. IdOfName(a)' = IdOfName(a)
    BY <2>1 DEF IdOfName
  <2>5. PendingFor(id, c) = {}
    BY <1>6 DEF Settled
  <2>6. r' = r
    OBVIOUS
  <2> HIDE DEF r
  <2> QED BY <2>1, <2>2, <2>3, <2>4, <2>5, <2>6 DEF Settled
<1>7. r' = r
  OBVIOUS
<1>8. \A c \in DOMAIN u.cols : \/ Pends(r, id, c, u.cols[c].ref)'
                               \/ Settled(r, id, c, u.cols[c].ref)'
  BY <1>1, <1>2, <1>5, <1>6
<1> QED BY <1>1, <1>2, <1>4, <1>7, <1>8 DEF RecordLike

-----------------------------------------------------------------------------
(* The first states, and the start of a call. *)

\* The catalog that describes tables: every record with a name of its own.
LEMMA CatalogOfIs ==
  ASSUME NEW tables, IsSchema(tables)
  PROVE  LET c == CatalogOf(tables)
         IN  /\ Cardinality(tables) \in Nat
             /\ Live(c) = 1 .. Cardinality(tables)
             /\ \A id \in Live(c) : /\ IsRecord(RecOf(c, id))
                                    /\ RecOf(c, id).name # NoName
                                    /\ RecOf(c, id).name \in DOMAIN c.names
             /\ \A nm \in DOMAIN c.names :
                  c.names[nm] \in Live(c) /\ RecOf(c, c.names[nm]).name = nm
<1> DEFINE n == Cardinality(tables)
           order == InOrder(tables)
           IdOf(nm) == IF nm \notin Range(order) THEN NoId
                       ELSE CHOOSE i \in DOMAIN order : order[i] = nm
           Rec0(t) == [t EXCEPT !.cols = [c \in DOMAIN t.cols |->
                                            [t.cols[c] EXCEPT !.ref = IdOf(@)]]]
           At(i) == CHOOSE t \in tables : t.name = order[i]
           c == CatalogOf(tables)
<1>1. /\ IsFiniteSet(tables)
      /\ \A t \in tables : IsTable(t) /\ IsRecord(t) /\ t.name \in Nat /\ t.name # NoName
      /\ \A t, u \in tables : t.name = u.name => t = u
  BY DEF IsSchema, IsTable, IsRecord
<1>2. n \in Nat /\ Cardinality(Names(tables)) = n
  <2> DEFINE f == [t \in tables |-> t.name]
  <2>1. f \in Surjection(tables, Names(tables))
    BY DEF Surjection, Names
  <2>2. f \in Injection(tables, Names(tables))
    <3>1. f \in [tables -> Names(tables)] /\ \A t, u \in tables : f[t] = f[u] => t = u
      BY <1>1 DEF Names
    <3> HIDE DEF f
    <3> QED BY <3>1 DEF Injection, IsInjective
  <2> HIDE DEF f
  <2> QED BY <1>1, <2>1, <2>2, FS_Surjection, FS_CardinalityType
<1>3. /\ order \in Seq(Nat) /\ DOMAIN order = 1 .. n /\ Range(order) = Names(tables)
      /\ \A i, j \in 1 .. n : order[i] = order[j] => i = j
  BY <1>1, <1>2, InOrderLists
<1>4. c = [slots    |-> [i \in DOMAIN order |-> [rec |-> Rec0(At(i)), pos |-> i]],
           sampling |-> [i \in DOMAIN order |-> i],
           names    |-> [nm \in Range(order) |-> IdOf(nm)]]
  BY Zenon DEF CatalogOf
<1> HIDE DEF c
<1>5. \A i \in 1 .. n : At(i) \in tables /\ At(i).name = order[i]
  <2> TAKE i \in 1 .. n
  <2>1. order[i] \in Names(tables)
    BY <1>3 DEF Range
  <2>2. \E t \in tables : t.name = order[i]
    BY <2>1 DEF Names
  <2> HIDE DEF order
  <2> QED BY <2>2
<1>6. \A i \in 1 .. n : IsRecord(Rec0(At(i))) /\ Rec0(At(i)).name = order[i]
  <2> TAKE i \in 1 .. n
  <2>1. IsRecord(At(i)) /\ At(i).name = order[i]
    BY <1>1, <1>5
  <2> HIDE DEF At, order, IdOf
  <2> QED BY <2>1, WithCols
<1>7. Live(c) = 1 .. n
  <2> HIDE DEF order, Rec0, At, IdOf
  <2> QED BY <1>3, <1>4 DEF Live
<1>8. \A i \in 1 .. n : RecOf(c, i) = Rec0(At(i))
  <2> HIDE DEF order, Rec0, At, IdOf
  <2> QED BY <1>3, <1>4 DEF RecOf
<1>9. DOMAIN c.names = Range(order) /\ \A nm \in Range(order) : c.names[nm] = IdOf(nm)
  <2> HIDE DEF order, Rec0, At, IdOf
  <2> QED BY <1>4
<1>10. \A nm \in Range(order) : IdOf(nm) \in 1 .. n /\ order[IdOf(nm)] = nm
  <2> TAKE nm \in Range(order)
  <2>1. \E i \in DOMAIN order : order[i] = nm
    BY DEF Range
  <2>2. IdOf(nm) = CHOOSE i \in DOMAIN order : order[i] = nm
    OBVIOUS
  <2> HIDE DEF IdOf, order
  <2> QED BY <1>3, <2>1, <2>2
<1>11. \A i \in 1 .. n : order[i] \in Range(order) /\ order[i] # NoName
  <2> TAKE i \in 1 .. n
  <2>1. order[i] \in Range(order)
    BY <1>3 DEF Range
  <2>2. At(i).name # NoName
    BY <1>1, <1>5
  <2> HIDE DEF At, order
  <2> QED BY <1>5, <2>1, <2>2
<1> HIDE DEF order, Rec0, At, IdOf, n
<1>12. \A id \in Live(c) : /\ IsRecord(RecOf(c, id))
                           /\ RecOf(c, id).name # NoName
                           /\ RecOf(c, id).name \in DOMAIN c.names
  BY <1>6, <1>7, <1>8, <1>9, <1>11
<1>13. \A nm \in DOMAIN c.names :
         c.names[nm] \in Live(c) /\ RecOf(c, c.names[nm]).name = nm
  BY <1>6, <1>7, <1>8, <1>9, <1>10
<1> QED BY <1>2, <1>7, <1>12, <1>13 DEF c, n

\* The first states.
LEMMA DiscoveryInitInv == DiscoveryInit => DiscoveryInv
<1> SUFFICES ASSUME DiscoveryInit PROVE DiscoveryInv
  OBVIOUS
<1>1. /\ config \in Configs /\ IsSchema(config.has) /\ IsSchema(config.had)
      /\ server = config.has /\ catalog = CatalogOf(config.had)
      /\ nextId = Cardinality(config.had) + 1
  BY DiscoveryAssumption DEF DiscoveryInit
<1>2. IsSchema(server)
  BY <1>1
<1>3. CatalogInv /\ Live(catalog) = 1 .. nextId - 1 /\ nextId \in Nat
  BY <1>1, CatalogOfIs DEF CatalogInv
<1>4. /\ DOMAIN call = CallFields
      /\ call.step = "done" /\ call.kind = "discover" /\ call.first = nextId
      /\ call.listed = {NoName} /\ call.todo = << >> /\ call.pending = {}
      /\ call.draft = NewTable(NoName)
  <2> DEFINE b == Begun("discover", 0)
  <2>1. call = [b EXCEPT !.step = "done"]
    BY DEF DiscoveryInit
  <2>2. /\ DOMAIN b = CallFields
        /\ b.kind = "discover" /\ b.first = nextId
        /\ b.listed = {NoName} /\ b.todo = << >> /\ b.pending = {}
        /\ b.draft = NewTable(NoName)
    BY BegunIs
  <2> HIDE DEF b
  <2> QED BY <2>1, <2>2 DEF CallFields
<1>5. Made = {}
  BY <1>3, <1>4 DEF Made
<1>6. CallInv
  BY <1>3, <1>4, <1>5, NewTableIs DEF CallInv, Steps, Reading
<1>7. ListedInv /\ RecordInv
  BY <1>4 DEF ListedInv, RecordInv
<1>8. DraftInv /\ VerdictInv
  BY <1>4 DEF DraftInv, VerdictInv, Reading
<1> QED BY <1>1, <1>2, <1>3, <1>6, <1>7, <1>8 DEF DiscoveryInv

\* A call starts: nothing was read, and nothing the catalog has is its own.
LEMMA AskKeepsInv ==
  ASSUME DiscoveryInv, Ask
  PROVE  DiscoveryInv'
<1>1. /\ config' = config /\ server' = server /\ nextId' = nextId
      /\ \/ catalog' = catalog
         \/ catalog' = EmptyCatalog
      /\ \E kind \in {"discover", "validate"} :
           /\ call' = Begun(kind, call.number + 1)
           /\ kind = "validate" => catalog' = EmptyCatalog
  BY DEF Ask, Discover, Validate
<1>2. Live(EmptyCatalog) = {} /\ DOMAIN EmptyCatalog.names = {}
  BY DEF Live, EmptyCatalog, EmptyFcn
<1>3. CatalogInv'
  <2>1. CASE catalog' = catalog
    BY <1>1, <2>1 DEF DiscoveryInv, CatalogInv
  <2>2. CASE catalog' = EmptyCatalog
    BY <1>1, <1>2, <2>2 DEF DiscoveryInv, CatalogInv
  <2> QED BY <1>1, <2>1, <2>2
<1>4. /\ DOMAIN call' = CallFields
      /\ call'.step = "list" /\ call'.first = nextId
      /\ call'.kind = "validate" => catalog' = EmptyCatalog
      /\ call'.listed = {NoName} /\ call'.todo = << >> /\ call'.pending = {}
      /\ call'.touched = {} /\ call'.skipped = {} /\ call'.draft = NewTable(NoName)
  BY <1>1, BegunIs
<1>5. \A id \in Live(catalog)' : id \in 1 .. nextId - 1
  BY <1>1, <1>3 DEF CatalogInv
<1>6. Made' = {} /\ nextId \in Nat
  BY <1>4, <1>5 DEF Made, DiscoveryInv, CatalogInv
<1>7. call'.kind = "validate" => Live(catalog)' = {}
  BY <1>2, <1>4
<1>8. CallInv'
  BY <1>1, <1>4, <1>6, <1>7, NewTableIs DEF CallInv, Steps, Reading
<1>9. ListedInv' /\ RecordInv'
  BY <1>4 DEF ListedInv, RecordInv
<1>10. DraftInv' /\ VerdictInv'
  BY <1>4 DEF DraftInv, VerdictInv, Reading
<1> QED BY <1>1, <1>3, <1>8, <1>9, <1>10 DEF DiscoveryInv

-----------------------------------------------------------------------------
(* The answers. *)

\* The list: every table is still to be read.
LEMMA ListKeepsInv ==
  ASSUME DiscoveryInv, discoverTables
  PROVE  DiscoveryInv'
<1> DEFINE c == [call EXCEPT !.todo = InOrder(server), !.listed = {t.name : t \in server}]
<1>1. /\ call.step = "list" /\ call' = Onward(c)
      /\ config' = config /\ server' = server /\ catalog' = catalog /\ nextId' = nextId
  BY DEF discoverTables, Answer, ServerAndCatalogKept
<1>2. /\ config \in Configs /\ IsSchema(server) /\ CatalogInv /\ CallInv
  BY DEF DiscoveryInv
<1>3. /\ DOMAIN c = CallFields /\ c.todo = InOrder(server) /\ c.listed = Names(server)
      /\ c.kind = call.kind /\ c.first = call.first /\ c.pending = call.pending
      /\ c.touched = call.touched /\ c.skipped = call.skipped
  BY <1>2 DEF CallInv, CallFields, Names
<1> HIDE DEF c
<1>4. /\ DOMAIN call' = CallFields
      /\ call'.step = IF InOrder(server) = << >> THEN "resolve" ELSE "columns"
      /\ call'.draft = NewTable(IF InOrder(server) = << >> THEN NoName
                                ELSE Head(InOrder(server)))
      /\ call'.todo = InOrder(server) /\ call'.listed = Names(server)
      /\ call'.kind = call.kind /\ call'.first = call.first
      /\ call'.pending = call.pending /\ call'.touched = call.touched
      /\ call'.skipped = call.skipped
  BY <1>1, <1>3, OnwardIs
<1>5. /\ call.pending = {} /\ call.skipped = {} /\ Made = {}
  BY <1>1, <1>2 DEF CallInv
<1>6. Made' = {}
  BY <1>1, <1>4, <1>5 DEF Made
<1>7. /\ IsFiniteSet(server)
      /\ \A t \in server : t.name \in Nat /\ t.name # NoName
  BY <1>2 DEF IsSchema, IsTable
<1>8. /\ InOrder(server) \in Seq(Nat)
      /\ \A i, j \in DOMAIN InOrder(server) :
           InOrder(server)[i] = InOrder(server)[j] => i = j
      /\ Range(InOrder(server)) = Names(server)
  BY <1>7, InOrderLists
<1>9. NoName \notin Names(server)
  BY <1>7 DEF Names
<1>10. CatalogInv'
  BY <1>1, <1>2 DEF CatalogInv
<1>11. IsRecord(call'.draft)
       /\ (InOrder(server) # << >> => call'.draft.name = Head(InOrder(server)))
  BY <1>4, NewTableIs
<1>12. CallInv'
  BY <1>1, <1>2, <1>4, <1>5, <1>6, <1>9, <1>11 DEF CallInv, Steps, Reading
<1>13. Names(server)' = Names(server)
  BY <1>1
<1>14. ListedInv'
  BY <1>4, <1>5, <1>6, <1>8, <1>13 DEF ListedInv
<1>15. RecordInv'
  BY <1>4, <1>5, <1>6 DEF RecordInv
<1>16. call'.step \in {"resolve", "columns"}
  BY <1>4
<1>17. DraftInv'
  BY <1>16 DEF DraftInv, DraftLike, Reading
<1>18. VerdictInv'
  BY <1>16 DEF VerdictInv
<1> QED BY <1>1, <1>2, <1>10, <1>12, <1>14, <1>15, <1>17, <1>18 DEF DiscoveryInv

\* Nothing but the step, the draft and its foreign keys.
DraftOnly ==
  /\ DOMAIN call' = CallFields
  /\ call'.kind = call.kind /\ call'.original = call.original
  /\ call'.first = call.first /\ call'.listed = call.listed
  /\ call'.todo = call.todo /\ call'.pending = call.pending
  /\ call'.touched = call.touched /\ call'.skipped = call.skipped
  /\ config' = config /\ server' = server /\ catalog' = catalog /\ nextId' = nextId

\* An answer about a table goes to the draft.
LEMMA AnswerKeepsInv ==
  ASSUME DiscoveryInv, call.step \in Reading, DraftOnly, call'.step \in Reading,
         IsRecord(call'.draft), call'.draft.name = call.draft.name,
         ASSUME NEW t \in Untouched, t.name = call.draft.name, IsTable(t), Found = {t},
                DraftLike(t)
         PROVE  DraftLike(t)'
  PROVE  DiscoveryInv'
<1>1. /\ config \in Configs /\ IsSchema(server) /\ CatalogInv /\ CallInv /\ ListedInv
      /\ DraftInv /\ RecordInv
  BY DEF DiscoveryInv
<1>2. /\ DOMAIN call' = CallFields
      /\ call'.kind = call.kind /\ call'.original = call.original
      /\ call'.first = call.first /\ call'.listed = call.listed
      /\ call'.todo = call.todo /\ call'.pending = call.pending
      /\ call'.touched = call.touched /\ call'.skipped = call.skipped
      /\ config' = config /\ server' = server /\ catalog' = catalog /\ nextId' = nextId
  BY DEF DraftOnly
<1>3. Made' = Made /\ Untouched' = Untouched /\ Names(server)' = Names(server)
  BY <1>2 DEF Made, Untouched
<1>4. CatalogInv'
  BY <1>1, <1>2 DEF CatalogInv
<1>5. CallInv'
  BY <1>1, <1>2, <1>3 DEF CallInv, Reading, Steps
<1>6. ListedInv'
  BY <1>1, <1>2, <1>3 DEF ListedInv
<1>7. RecordInv'
  <2> SUFFICES ASSUME NoName \notin call'.listed
               PROVE  /\ \A t \in Untouched', id \in Made' :
                            RecOf(catalog', id).name = t.name => RecordLike(id, t)'
                      /\ \A p \in call'.pending :
                            p.id \in Made' /\ p = [id |-> p.id, fk |-> p.fk]
    BY DEF RecordInv
  <2>1. /\ \A t \in Untouched, id \in Made :
             RecOf(catalog, id).name = t.name => RecordLike(id, t)
        /\ \A p \in call.pending : p.id \in Made /\ p = [id |-> p.id, fk |-> p.fk]
    BY <1>1, <1>2 DEF RecordInv
  <2>2. ASSUME NEW t \in Untouched, NEW id \in Made, RecordLike(id, t)
        PROVE  RecordLike(id, t)'
    <3>1. Evolved(t, t, call'.touched)
      BY EvolvedReflexive
    <3>2. \A c \in DOMAIN t.cols : PendingFor(id, c)' = PendingFor(id, c)
      BY <1>2 DEF PendingFor
    <3> QED BY <1>2, <2>2, <3>1, <3>2, RecordKept
  <2> QED BY <1>2, <1>3, <2>1, <2>2
<1>8. DraftInv'
  <2> SUFFICES ASSUME NEW t \in Untouched, t.name = call.draft.name
               PROVE  DraftLike(t)'
    BY <1>3 DEF DraftInv
  <2>1. t \in server /\ IsTable(t) /\ \A u \in server : u.name = t.name => u = t
    BY <1>1 DEF Untouched, IsSchema
  <2>2. Found = {t}
    BY <2>1 DEF Found
  <2>3. DraftLike(t)
    BY <1>1 DEF DraftInv
  <2> QED BY <2>1, <2>2, <2>3
<1>9. VerdictInv'
  BY DEF VerdictInv, Reading
<1> QED BY <1>1, <1>2, <1>4, <1>5, <1>6, <1>7, <1>8, <1>9 DEF DiscoveryInv

\* The answer about the columns: the draft's are the table's, without their keys.
LEMMA ColumnsKeepInv ==
  ASSUME DiscoveryInv, ReadColumns
  PROVE  DiscoveryInv'
<1> DEFINE cols == IF Found = {} THEN EmptyFcn
                   ELSE LET d == discoverColumns(CHOOSE t \in Found : TRUE)
                        IN  [c \in DOMAIN d |-> convertColumn(d[c])]
<1>1. /\ call.step = "columns"
      /\ call' = [call EXCEPT !.step = "indexes", !.draft.cols = cols]
      /\ config' = config /\ server' = server /\ catalog' = catalog /\ nextId' = nextId
  BY Zenon DEF ReadColumns, Answer, ServerAndCatalogKept
<1>2. DOMAIN call = CallFields /\ IsRecord(call.draft)
  BY DEF DiscoveryInv, CallInv
<1> HIDE DEF cols
<1>3. DraftOnly /\ call'.step = "indexes" /\ call'.draft = [call.draft EXCEPT !.cols = cols]
  BY <1>1, <1>2 DEF DraftOnly, CallFields
<1>4. IsRecord(call'.draft) /\ call'.draft.name = call.draft.name /\ call'.draft.cols = cols
  BY <1>2, <1>3, WithCols
<1>5. ASSUME NEW t \in Untouched, t.name = call.draft.name, IsTable(t), Found = {t},
             DraftLike(t)
      PROVE  DraftLike(t)'
  <2>1. (CHOOSE u \in Found : TRUE) = t
    BY <1>5
  <2>2. cols = ColsRead(t, FALSE, FALSE)
    BY <1>5, <2>1, ColumnsInverse DEF cols
  <2> QED BY <1>3, <1>4, <2>2 DEF DraftLike
<1> QED BY <1>1, <1>3, <1>4, <1>5, AnswerKeepsInv DEF Reading

\* The answer about the indexes: the draft has the table's, as it is.
LEMMA IndexesKeepInv ==
  ASSUME DiscoveryInv, ReadIndexes
  PROVE  DiscoveryInv'
<1> DEFINE idx == IF Found = {} THEN EmptyFcn
                  ELSE discoverIndexes(CHOOSE t \in Found : TRUE)
<1>1. /\ call.step = "indexes"
      /\ call' = [call EXCEPT !.step = "constraints", !.draft.idx = idx]
      /\ config' = config /\ server' = server /\ catalog' = catalog /\ nextId' = nextId
  BY Zenon DEF ReadIndexes, Answer, ServerAndCatalogKept
<1>2. DOMAIN call = CallFields /\ IsRecord(call.draft)
  BY DEF DiscoveryInv, CallInv
<1> HIDE DEF idx
<1>3. DraftOnly /\ call'.step = "constraints" /\ call'.draft = [call.draft EXCEPT !.idx = idx]
  BY <1>1, <1>2 DEF DraftOnly, CallFields
<1>4. /\ IsRecord(call'.draft) /\ call'.draft.name = call.draft.name
      /\ call'.draft.idx = idx /\ call'.draft.cols = call.draft.cols
  BY <1>2, <1>3, WithIdx
<1>5. ASSUME NEW t \in Untouched, t.name = call.draft.name, IsTable(t), Found = {t},
             DraftLike(t)
      PROVE  DraftLike(t)'
  <2>1. (CHOOSE u \in Found : TRUE) = t
    BY <1>5
  <2>2. idx = t.idx
    BY <1>5, <2>1, IndexesInverse DEF idx
  <2>3. call.draft.cols = ColsRead(t, FALSE, FALSE)
    BY <1>1, <1>5 DEF DraftLike
  <2> QED BY <1>3, <1>4, <2>2, <2>3 DEF DraftLike
<1> QED BY <1>1, <1>3, <1>4, <1>5, AnswerKeepsInv DEF Reading

\* The answer about the constraints: the flags of the primary key, and the foreign
\* keys by name.
LEMMA ConstraintsKeepInv ==
  ASSUME DiscoveryInv, ReadConstraints
  PROVE  DiscoveryInv'
<1> DEFINE read == UNION {Constraints(t) : t \in Found}
           draft == applyConstraints(call.draft, read)
           fks == ForeignKeys(read)
<1>1. /\ call.step = "constraints"
      /\ call' = [call EXCEPT !.step = "keys", !.draft = draft, !.fks = fks]
      /\ config' = config /\ server' = server /\ catalog' = catalog /\ nextId' = nextId
  BY Zenon DEF ReadConstraints, Answer, ServerAndCatalogKept
<1>2. DOMAIN call = CallFields /\ IsRecord(call.draft)
  BY DEF DiscoveryInv, CallInv
<1> HIDE DEF fks, draft
<1>3. DraftOnly /\ call'.step = "keys" /\ call'.draft = draft /\ call'.fks = fks
  BY <1>1, <1>2 DEF DraftOnly, CallFields
<1>4. IsRecord(draft) /\ draft.name = call.draft.name /\ draft.idx = call.draft.idx
  <2> DEFINE keys == UNION {x.cols : x \in {x \in read : x.kind = "primary"}}
             cols == [c \in DOMAIN call.draft.cols |-> IF c \in keys
                        THEN [call.draft.cols[c] EXCEPT !.pk = TRUE]
                        ELSE call.draft.cols[c]]
  <2>1. draft = [call.draft EXCEPT !.cols = cols]
    BY Zenon DEF draft, applyConstraints
  <2> HIDE DEF cols
  <2> QED BY <1>2, <2>1, WithCols
<1>5. ASSUME NEW t \in Untouched, t.name = call.draft.name, IsTable(t), Found = {t},
             DraftLike(t)
      PROVE  DraftLike(t)'
  <2>1. call.draft.cols = ColsRead(t, FALSE, FALSE) /\ call.draft.idx = t.idx
    BY <1>1, <1>5 DEF DraftLike
  <2>2. draft.cols = ColsRead(t, TRUE, FALSE)
    BY <1>2, <1>5, <2>1, ConstraintsInverse DEF draft
  <2>3. fks = {[col |-> c, target |-> t.cols[c].ref] :
                 c \in {c \in DOMAIN t.cols : t.cols[c].ref # NoName}}
    BY <1>5, ForeignColumns DEF fks
  <2>4. FksLike(fks, t, call'.touched)
    <3> DEFINE Fk(c) == [col |-> c, target |-> t.cols[c].ref]
               cs == {c \in DOMAIN t.cols : t.cols[c].ref # NoName}
    <3>1. \A c : Fk(c).col = c /\ Fk(c).target = t.cols[c].ref
                /\ Fk(c) = [col |-> Fk(c).col, target |-> Fk(c).target]
      OBVIOUS
    <3>2. fks = {Fk(c) : c \in cs}
      BY <2>3, Zenon
    <3> HIDE DEF Fk
    <3>3. \A fk \in fks : /\ fk = [col |-> fk.col, target |-> fk.target]
                          /\ fk.col \in cs /\ fk = Fk(fk.col)
                          /\ fk.target = t.cols[fk.col].ref
      <4> TAKE fk \in fks
      <4>1. PICK c \in cs : fk = Fk(c)
        BY <3>2, Zenon
      <4> HIDE DEF cs
      <4> QED BY <3>1, <4>1
    <3>4. \A c \in cs : \E fk \in fks : fk.col = c
      BY <3>1, <3>2
    <3>5. \A f, g \in fks : f.col = g.col => f = g
      BY <3>3
    <3> QED BY <3>3, <3>4, <3>5 DEF FksLike, RefLike
  <2> QED BY <1>3, <1>4, <2>1, <2>2, <2>4 DEF DraftLike
<1> QED BY <1>1, <1>3, <1>4, <1>5, AnswerKeepsInv DEF Reading

\* The answer about the partition key: the flags of its columns.
LEMMA KeysKeepInv ==
  ASSUME DiscoveryInv, ReadPartitionKeys
  PROVE  DiscoveryInv'
<1> DEFINE keys == UNION {discoverPartitionKeys(t) : t \in Found}
           draft == applyPartitionKeys(call.draft, keys)
<1>1. /\ call.step = "keys"
      /\ call' = [call EXCEPT !.step = "partitions", !.draft = draft]
      /\ config' = config /\ server' = server /\ catalog' = catalog /\ nextId' = nextId
  BY Zenon DEF ReadPartitionKeys, Answer, ServerAndCatalogKept
<1>2. DOMAIN call = CallFields /\ IsRecord(call.draft)
  BY DEF DiscoveryInv, CallInv
<1> HIDE DEF draft
<1>3. DraftOnly /\ call'.step = "partitions" /\ call'.draft = draft /\ call'.fks = call.fks
  BY <1>1, <1>2 DEF DraftOnly, CallFields
<1>4. IsRecord(draft) /\ draft.name = call.draft.name /\ draft.idx = call.draft.idx
  <2> DEFINE cols == [c \in DOMAIN call.draft.cols |-> IF c \in keys
                        THEN [call.draft.cols[c] EXCEPT !.part = TRUE]
                        ELSE call.draft.cols[c]]
  <2>1. draft = [call.draft EXCEPT !.cols = cols]
    BY Zenon DEF draft, applyPartitionKeys
  <2> HIDE DEF cols
  <2> QED BY <1>2, <2>1, WithCols
<1>5. ASSUME NEW t \in Untouched, t.name = call.draft.name, IsTable(t), Found = {t},
             DraftLike(t)
      PROVE  DraftLike(t)'
  <2>1. /\ call.draft.cols = ColsRead(t, TRUE, FALSE) /\ call.draft.idx = t.idx
        /\ FksLike(call.fks, t, call.touched)
    BY <1>1, <1>5 DEF DraftLike
  <2>2. draft.cols = ColsRead(t, TRUE, TRUE)
    BY <1>2, <1>5, <2>1, KeysInverse DEF draft
  <2>3. FksLike(call'.fks, t, call'.touched)
    BY <1>3, <2>1 DEF DraftOnly
  <2> QED BY <1>3, <1>4, <2>1, <2>2, <2>3 DEF DraftLike
<1> QED BY <1>1, <1>3, <1>4, <1>5, AnswerKeepsInv DEF Reading

\* A column's reference can be put in place of another.
LEMMA ReferenceReplaced ==
  ASSUME NEW c, NEW a, NEW b
  PROVE  /\ [AsRead(c, TRUE, TRUE) EXCEPT !.ref = a].ref = a
         /\ [[AsRead(c, TRUE, TRUE) EXCEPT !.ref = a] EXCEPT !.ref = b]
              = [AsRead(c, TRUE, TRUE) EXCEPT !.ref = b]
<1> DEFINE w == AsRead(c, TRUE, TRUE)
<1>1. w = [x \in DOMAIN w |-> w[x]] /\ "ref" \in DOMAIN w
  BY DEF AsRead
<1> HIDE DEF w
<1>2. [w EXCEPT !.ref = a].ref = a /\ [[w EXCEPT !.ref = a] EXCEPT !.ref = b] = [w EXCEPT !.ref = b]
  BY <1>1
<1> QED BY <1>2 DEF w

\* The columns of a record that has no reference yet.
LEMMA NoReference ==
  ASSUME NEW c
  PROVE  /\ AsRead(c, TRUE, TRUE).ref = NoId
         /\ [AsRead(c, TRUE, TRUE) EXCEPT !.ref = AsRead(c, TRUE, TRUE).ref]
              = AsRead(c, TRUE, TRUE)
  BY DEF AsRead

\* The record of a table that nobody changed while it was read.
LEMMA DraftBecomesRecord ==
  ASSUME NEW t, IsTable(t), Found = {t}, IsRecord(call.draft),
         call.step = "partitions", DraftLike(t),
         NEW id, NEW r, r = applyPartitioning(call.draft, discoverPartitions),
         RecOf(catalog', id) = r,
         \A c : PendingFor(id, c)' = {[id |-> id, fk |-> fk] : fk \in {f \in call.fks : f.col = c}},
         call'.touched = call.touched, NoName \notin DOMAIN catalog'.names
  PROVE  RecordLike(id, t)'
<1>1. /\ call.draft.cols = ColsRead(t, TRUE, TRUE) /\ call.draft.idx = t.idx
      /\ FksLike(call.fks, t, call.touched)
  BY DEF DraftLike
<1> DEFINE names == UNION {PartitionNames(v) : v \in {t}}
<1>2. r = applyPartitioning(call.draft, names)
  BY Zenon DEF discoverPartitions
<1>3. (names # {}) = (t.ranges # {}) /\ {n[Len(n)] : n \in names} = t.ranges
  BY PartitionsInverse, Zenon
<1> HIDE DEF names
<1>4. /\ r.cols = call.draft.cols /\ r.idx = call.draft.idx
      /\ r.ranges = {n[Len(n)] : n \in names}
  BY <1>2, WithPartitioning
<1>5. r.parted = (names # {})
  <2>1. applyPartitioning(call.draft, names).parted = (names # {})
    BY WithPartitioning, Zenon
  <2> QED BY <1>2, <2>1, Zenon
<1>6. r.parted = (t.ranges # {})
  BY <1>3, <1>5, Zenon
<1>7. r.cols = ColsRead(t, TRUE, TRUE) /\ r.idx = t.idx /\ r.ranges = t.ranges
  BY <1>1, <1>3, <1>4, Zenon
<1>8. \A c \in DOMAIN t.cols : r.cols[c] = AsRead(t.cols[c], TRUE, TRUE) /\ r.cols[c].ref = NoId
  <2>1. \A c \in DOMAIN t.cols : r.cols[c] = AsRead(t.cols[c], TRUE, TRUE)
    BY <1>7 DEF ColsRead
  <2>2. \A c \in DOMAIN t.cols : AsRead(t.cols[c], TRUE, TRUE).ref = NoId
    BY NoReference
  <2> QED BY <2>1, <2>2
<1>9. r.cols = [c \in DOMAIN t.cols |->
                  [AsRead(t.cols[c], TRUE, TRUE) EXCEPT !.ref = r.cols[c].ref]]
  <2>1. \A c \in DOMAIN t.cols :
          r.cols[c] = [AsRead(t.cols[c], TRUE, TRUE) EXCEPT !.ref = r.cols[c].ref]
    BY <1>8, NoReference, Zenon
  <2>2. r.cols = [c \in DOMAIN t.cols |-> r.cols[c]]
    BY <1>7 DEF ColsRead
  <2> QED BY <2>1, <2>2
<1>10. ASSUME NEW c \in DOMAIN t.cols, NEW fk \in call.fks, fk.col = c
      PROVE  Pends(r, id, c, t.cols[c].ref)'
  <2> DEFINE p == [id |-> id, fk |-> fk]
  <2>1. {f \in call.fks : f.col = c} = {fk}
    BY <1>1, <1>10 DEF FksLike
  <2>2. PendingFor(id, c)' = {p}
    BY <2>1
  <2>3. p.fk = fk
    OBVIOUS
  <2>4. fk.target # NoName /\ RefLike(fk.target, t.cols[c].ref, call'.touched)
    BY <1>1, <1>10 DEF FksLike
  <2> HIDE DEF p
  <2> QED BY <1>8, <2>2, <2>3, <2>4 DEF Pends
<1>11. ASSUME NEW c \in DOMAIN t.cols, \A fk \in call.fks : fk.col # c
      PROVE  Settled(r, id, c, t.cols[c].ref)'
  <2>1. PendingFor(id, c)' = {}
    BY <1>11
  <2>2. t.cols[c].ref = NoName
    BY <1>1, <1>11 DEF FksLike
  <2>3. IdOfName(NoName)' = NoId
    BY DEF IdOfName
  <2>4. RefLike(NoName, NoName, call'.touched)
    BY DEF RefLike
  <2> QED BY <1>8, <2>1, <2>2, <2>3, <2>4 DEF Settled
<1>12. \A c \in DOMAIN t.cols : \/ Pends(r, id, c, t.cols[c].ref)'
                               \/ Settled(r, id, c, t.cols[c].ref)'
  BY <1>10, <1>11
<1> QED BY <1>9, <1>12, <1>6, <1>7 DEF RecordLike

\* The last answer: the draft becomes a record, with an id of its own.
LEMMA PartitionsKeepInv ==
  ASSUME DiscoveryInv, ReadPartitions
  PROVE  DiscoveryInv'
<1> DEFINE new == {[id |-> nextId, fk |-> fk] : fk \in call.fks}
           c == [call EXCEPT !.todo = Tail(@), !.pending = @ \cup new]
           n == call.draft.name
<1>1. /\ config \in Configs /\ IsSchema(server) /\ CatalogInv /\ CallInv /\ ListedInv
      /\ DraftInv /\ RecordInv
  BY DEF DiscoveryInv
<1>2. Insertable(catalog, nextId)
  BY <1>1 DEF CatalogInv, Insertable, NoId
<1>3. /\ call.step = "partitions"
      /\ catalog' = Inserted(catalog, nextId, applyPartitioning(call.draft, discoverPartitions))
      /\ call' = Onward(c)
      /\ nextId' = nextId + 1 /\ config' = config /\ server' = server
  BY <1>2, Zenon DEF ReadPartitions, Answer, NextId
<1>4. PICK r : r = applyPartitioning(call.draft, discoverPartitions)
  OBVIOUS
<1>5. catalog' = Inserted(catalog, nextId, r)
  BY <1>3, <1>4, Zenon
<1>6. DOMAIN call = CallFields /\ IsRecord(call.draft) /\ NoName \notin call.listed
      /\ call.todo # << >> /\ n = Head(call.todo)
  BY <1>1, <1>3 DEF CallInv, Reading
<1>7. /\ DOMAIN c = CallFields /\ c.todo = Tail(call.todo)
      /\ c.pending = call.pending \cup new
      /\ c.kind = call.kind /\ c.first = call.first /\ c.listed = call.listed
      /\ c.touched = call.touched /\ c.skipped = call.skipped
  <2> HIDE DEF new
  <2> QED BY <1>6 DEF CallFields
<1> HIDE DEF c
<1>8. /\ DOMAIN call' = CallFields
      /\ call'.step = IF Tail(call.todo) = << >> THEN "resolve" ELSE "columns"
      /\ call'.draft = NewTable(IF Tail(call.todo) = << >> THEN NoName
                                ELSE Head(Tail(call.todo)))
      /\ call'.todo = Tail(call.todo) /\ call'.pending = call.pending \cup new
      /\ call'.kind = call.kind /\ call'.first = call.first
      /\ call'.listed = call.listed /\ call'.touched = call.touched
      /\ call'.skipped = call.skipped
  <2>1. PICK w : w = c
    OBVIOUS
  <2>2. /\ DOMAIN w = CallFields /\ w.todo = Tail(call.todo)
        /\ w.pending = call.pending \cup new
        /\ w.kind = call.kind /\ w.first = call.first /\ w.listed = call.listed
        /\ w.touched = call.touched /\ w.skipped = call.skipped
    BY <1>7, <2>1, Zenon
  <2>3. call' = Onward(w)
    BY <1>3, <2>1, Zenon
  <2>4. /\ DOMAIN Onward(w) = CallFields
        /\ Onward(w).step = IF w.todo = << >> THEN "resolve" ELSE "columns"
        /\ Onward(w).draft = NewTable(IF w.todo = << >> THEN NoName ELSE Head(w.todo))
        /\ Onward(w).kind = w.kind /\ Onward(w).first = w.first
        /\ Onward(w).listed = w.listed /\ Onward(w).todo = w.todo
        /\ Onward(w).pending = w.pending /\ Onward(w).touched = w.touched
        /\ Onward(w).skipped = w.skipped
    BY <2>2, OnwardIs, Zenon
  <2> HIDE DEF new
  <2> QED BY <2>2, <2>3, <2>4, Zenon
<1>9. /\ call'.step \in {"resolve", "columns"} /\ IsRecord(call'.draft)
      /\ (Tail(call.todo) = << >> <=> call'.step = "resolve")
      /\ (Tail(call.todo) # << >> => call'.draft.name = Head(Tail(call.todo)))
  BY <1>8, NewTableIs
<1>10. IsRecord(r) /\ r.name = n
  BY <1>4, <1>6, WithPartitioning
<1>11. /\ call.todo \in Seq(Nat)
       /\ \A i, j \in DOMAIN call.todo : call.todo[i] = call.todo[j] => i = j
       /\ Range(call.todo) \subseteq call.listed
       /\ Range(call.todo) \cap call.skipped = {}
       /\ \A id \in Made : /\ RecOf(catalog, id).name \in call.listed
                           /\ RecOf(catalog, id).name \notin Range(call.todo)
                           /\ RecOf(catalog, id).name \notin call.skipped
                           /\ \A other \in Made :
                                RecOf(catalog, other).name = RecOf(catalog, id).name
                                  => other = id
       /\ \A m \in call.listed : \/ m \in Range(call.todo) \/ m \in call.skipped
                                 \/ \E id \in Made : RecOf(catalog, id).name = m
       /\ Names(server) \ call.touched = call.listed \ call.touched
  BY <1>1, <1>6 DEF ListedInv
<1>12. /\ Tail(call.todo) \in Seq(Nat)
       /\ \A i, j \in DOMAIN Tail(call.todo) :
            Tail(call.todo)[i] = Tail(call.todo)[j] => i = j
       /\ Range(call.todo) = {n} \cup Range(Tail(call.todo))
       /\ n \notin Range(Tail(call.todo))
  <2>1. /\ call.todo \in Seq(Nat) /\ call.todo # << >>
        /\ \A i, j \in DOMAIN call.todo : call.todo[i] = call.todo[j] => i = j
    BY <1>6, <1>11
  <2>2. n = Head(call.todo)
    BY <1>6
  <2> HIDE DEF n
  <2> QED BY <2>1, <2>2, HeadAndTail, Zenon
<1>13. n \in call.listed /\ n # NoName
  BY <1>6, <1>11, <1>12
<1>14. /\ Live(catalog') = Live(catalog) \cup {nextId}
       /\ RecOf(catalog', nextId) = r
       /\ \A x \in Live(catalog) \ {nextId} : RecOf(catalog', x) = RecOf(catalog, x)
       /\ DOMAIN catalog'.names = DOMAIN catalog.names \cup {n}
       /\ catalog'.names[n] = nextId
       /\ \A m \in DOMAIN catalog.names \ {n} : catalog'.names[m] = catalog.names[m]
  BY <1>5, <1>10, InsertedIs
<1>15. /\ nextId \in Nat \ {0}
       /\ \A id \in Live(catalog) : id \in 1 .. nextId - 1 /\ id # nextId
  BY <1>1 DEF CatalogInv
<1>16. CatalogInv'
  <2>1. \A id \in Live(catalog') :
          /\ id \in 1 .. nextId' - 1
          /\ IsRecord(RecOf(catalog', id))
          /\ RecOf(catalog', id).name # NoName
          /\ RecOf(catalog', id).name \in DOMAIN catalog'.names
    BY <1>1, <1>3, <1>10, <1>13, <1>14, <1>15 DEF CatalogInv
  <2>2. \A m \in DOMAIN catalog'.names :
          catalog'.names[m] \in Live(catalog') /\ RecOf(catalog', catalog'.names[m]).name = m
    BY <1>1, <1>10, <1>14, <1>15 DEF CatalogInv
  <2>3. nextId' \in Nat \ {0}
    BY <1>3, <1>15
  <2> QED BY <2>1, <2>2, <2>3 DEF CatalogInv
<1>17. Made' = Made \cup {nextId} /\ nextId \notin Made
  <2>1. nextId >= call.first
    BY <1>1, <1>15 DEF CallInv
  <2> QED BY <1>8, <1>14, <1>15, <2>1 DEF Made
<1>18. CallInv'
  <2>1. call'.first \in Nat /\ call'.first <= nextId'
    BY <1>1, <1>3, <1>8, <1>15 DEF CallInv
  <2>2. call'.kind = "validate" => Live(catalog') = Made'
    BY <1>1, <1>8, <1>14, <1>17 DEF CallInv
  <2> QED BY <1>6, <1>8, <1>9, <2>1, <2>2 DEF CallInv, Steps, Reading
<1>19. \A id \in Made : RecOf(catalog', id) = RecOf(catalog, id)
  BY <1>14, <1>15 DEF Made
<1>20. ListedInv'
  <2>1. /\ Range(call'.todo) \subseteq call.listed
        /\ Range(call'.todo) \cap call.skipped = {}
    BY <1>8, <1>11, <1>12
  <2>2. \A id \in Made' : /\ RecOf(catalog', id).name \in call.listed
                          /\ RecOf(catalog', id).name \notin Range(call'.todo)
                          /\ RecOf(catalog', id).name \notin call.skipped
    BY <1>8, <1>10, <1>11, <1>12, <1>13, <1>14, <1>17, <1>19
  <2>3. \A id, other \in Made' :
          RecOf(catalog', other).name = RecOf(catalog', id).name => other = id
    BY <1>10, <1>11, <1>12, <1>14, <1>17, <1>19
  <2>4. \A m \in call.listed : \/ m \in Range(call'.todo) \/ m \in call.skipped
                               \/ \E id \in Made' : RecOf(catalog', id).name = m
    <3> SUFFICES ASSUME NEW m \in call.listed, m \notin Range(call'.todo),
                        m \notin call.skipped
                 PROVE  \E id \in Made' : RecOf(catalog', id).name = m
      OBVIOUS
    <3>1. CASE m = n
      BY <1>10, <1>14, <1>17, <3>1
    <3>2. CASE m # n
      <4>1. PICK id \in Made : RecOf(catalog, id).name = m
        BY <1>8, <1>11, <1>12, <3>2
      <4> QED BY <1>17, <1>19, <4>1
    <3> QED BY <3>1, <3>2
  <2>5. Names(server)' = Names(server)
    BY <1>3
  <2> QED BY <1>8, <1>11, <1>12, <2>1, <2>2, <2>3, <2>4, <2>5 DEF ListedInv
<1>21. NoName \notin DOMAIN catalog.names /\ NoName \notin DOMAIN catalog'.names
  BY <1>1, <1>13, <1>14 DEF CatalogInv
<1>22. /\ \A t \in Untouched, id \in Made :
             RecOf(catalog, id).name = t.name => RecordLike(id, t)
       /\ \A p \in call.pending : p.id \in Made /\ p = [id |-> p.id, fk |-> p.fk]
  BY <1>1, <1>6 DEF RecordInv
<1>23. \A p \in new : p.id = nextId /\ p = [id |-> p.id, fk |-> p.fk]
  OBVIOUS
<1>24. Untouched' = Untouched
  BY <1>3, <1>8 DEF Untouched
<1>25. ASSUME NEW t \in Untouched, NEW id \in Made, RecOf(catalog', id).name = t.name
       PROVE  RecordLike(id, t)'
  <2>1. RecordLike(id, t)
    BY <1>19, <1>22, <1>25
  <2>2. Evolved(t, t, call'.touched)
    BY EvolvedReflexive
  <2>3. \A x \in DOMAIN t.cols : PendingFor(id, x)' = PendingFor(id, x)
    <3> HIDE DEF new
    <3> QED BY <1>8, <1>17, <1>23 DEF PendingFor
  <2>4. call.step \in Reading
    BY <1>3 DEF Reading
  <2> QED BY <1>8, <1>19, <1>21, <2>1, <2>2, <2>3, <2>4, RecordKept
<1>26. ASSUME NEW t \in Untouched, NEW k, k = nextId, RecOf(catalog', k).name = t.name
       PROVE  RecordLike(k, t)'
  <2>1. t.name = n
    BY <1>10, <1>14, <1>26
  <2>2. t \in server /\ IsTable(t) /\ \A u \in server : u.name = t.name => u = t
    BY <1>1 DEF Untouched, IsSchema
  <2>3. Found = {t}
    BY <2>1, <2>2 DEF Found
  <2>4. DraftLike(t)
    BY <1>1, <1>3, <2>1 DEF DraftInv, Reading
  <2> DEFINE P(fk) == [id |-> k, fk |-> fk]
  <2>5. \A x : PendingFor(k, x)' = {P(fk) : fk \in {f \in call.fks : f.col = x}}
    <3> TAKE x
    <3>1. \A p \in call.pending : p.id # k
      BY <1>17, <1>22, <1>26
    <3>2. \A fk : P(fk).id = k /\ P(fk).fk = fk
      OBVIOUS
    <3>3. new = {P(fk) : fk \in call.fks}
      BY <1>26
    <3> HIDE DEF new, P
    <3>4. PendingFor(k, x)' = {p \in new : p.fk.col = x}
      BY <1>8, <3>1, <3>2, <3>3 DEF PendingFor
    <3> QED BY <3>2, <3>3, <3>4
  <2>6. RecOf(catalog', k) = r
    BY <1>14, <1>26
  <2> QED BY <1>3, <1>4, <1>6, <1>8, <1>21, <2>2, <2>3, <2>4, <2>5, <2>6, DraftBecomesRecord
<1>27. RecordInv'
  <2>1. \A t \in Untouched', id \in Made' :
          RecOf(catalog', id).name = t.name => RecordLike(id, t)'
    <3> SUFFICES ASSUME NEW t \in Untouched', NEW id \in Made',
                        RecOf(catalog', id).name = t.name
                 PROVE  RecordLike(id, t)'
      OBVIOUS
    <3>1. t \in Untouched /\ (id \in Made \/ id = nextId)
      BY <1>17, <1>24
    <3> QED BY <1>25, <1>26, <3>1
  <2>2. \A p \in call'.pending : p.id \in Made' /\ p = [id |-> p.id, fk |-> p.fk]
    <3> HIDE DEF new
    <3> QED BY <1>8, <1>17, <1>22, <1>23
  <2> QED BY <2>1, <2>2 DEF RecordInv
<1>28. DraftInv' /\ VerdictInv'
  BY <1>9 DEF DraftInv, DraftLike, VerdictInv
<1>29. IsSchema(server)' /\ config' \in Configs
  BY <1>1, <1>3
<1> QED BY <1>16, <1>18, <1>20, <1>27, <1>28, <1>29 DEF DiscoveryInv

-----------------------------------------------------------------------------
(* A query that fails, the references, and the end of a call. *)

\* A table that could not be read is skipped; without the list the call ends.
LEMMA FailKeepsInv ==
  ASSUME DiscoveryInv, Fail
  PROVE  DiscoveryInv'
<1>1. /\ config \in Configs /\ IsSchema(server) /\ CatalogInv /\ CallInv /\ ListedInv
      /\ DraftInv /\ RecordInv
  BY DEF DiscoveryInv
<1>2. /\ call.step \in Reading \cup {"list"} /\ DOMAIN call = CallFields
      /\ config' = config /\ server' = server /\ catalog' = catalog /\ nextId' = nextId
  BY <1>1 DEF Fail, ServerAndCatalogKept, CallInv, Reading
<1>3. IsSchema(server)' /\ CatalogInv'
  BY <1>1, <1>2 DEF CatalogInv
<1>4. CASE call.step = "list"
  <2>1. PICK lost \in BOOLEAN :
          LET c == [call EXCEPT !.up = ~lost, !.faults = IF call.up THEN @ - 1 ELSE @]
          IN  call' = [Ended(catalog, TRUE) EXCEPT !.up = c.up, !.faults = c.faults]
    BY <1>4 DEF Fail
  <2> DEFINE e == Ended(catalog, TRUE)
  <2>2. /\ DOMAIN e = CallFields /\ e.step = "done"
        /\ e.verdict = IF call.kind = "validate" THEN "false" ELSE "raised"
        /\ e.kind = call.kind /\ e.first = call.first /\ e.listed = call.listed
        /\ e.todo = call.todo /\ e.pending = call.pending /\ e.draft = call.draft
    BY <1>2, EndedIs
  <2> HIDE DEF e
  <2>3. /\ DOMAIN call' = CallFields /\ call'.step = "done"
        /\ call'.verdict = IF call.kind = "validate" THEN "false" ELSE "raised"
        /\ call'.kind = call.kind /\ call'.first = call.first /\ call'.listed = call.listed
        /\ call'.todo = call.todo /\ call'.pending = call.pending /\ call'.draft = call.draft
    BY <2>1, <2>2 DEF e, CallFields
  <2>4. call.listed = {NoName} /\ call.pending = {} /\ call.todo = << >>
    BY <1>1, <1>4 DEF CallInv
  <2>5. Made' = Made
    BY <1>2, <2>3 DEF Made
  <2>6. CallInv'
    BY <1>1, <1>2, <2>3, <2>4, <2>5 DEF CallInv, Steps, Reading
  <2>7. ListedInv' /\ RecordInv' /\ DraftInv' /\ VerdictInv'
    BY <2>3, <2>4 DEF ListedInv, RecordInv, DraftInv, VerdictInv, Reading
  <2> QED BY <1>1, <1>2, <1>3, <2>6, <2>7 DEF DiscoveryInv
<1>5. CASE call.step \in Reading
  <2> DEFINE n == call.draft.name
  <2>1. PICK lost \in BOOLEAN :
          LET c == [call EXCEPT !.up = ~lost, !.faults = IF call.up THEN @ - 1 ELSE @]
          IN  call' = Onward([c EXCEPT !.todo = Tail(@), !.skipped = @ \cup {call.draft.name}])
    BY <1>5 DEF Fail, Reading
  <2> DEFINE c == [call EXCEPT !.up = ~lost, !.faults = IF call.up THEN @ - 1 ELSE @]
             d == [c EXCEPT !.todo = Tail(@), !.skipped = @ \cup {call.draft.name}]
  <2>2. /\ DOMAIN d = CallFields /\ d.todo = Tail(call.todo)
        /\ d.skipped = call.skipped \cup {n} /\ d.pending = call.pending
        /\ d.kind = call.kind /\ d.first = call.first /\ d.listed = call.listed
        /\ d.touched = call.touched
    BY <1>2 DEF CallFields
  <2>3. call' = Onward(d)
    BY <2>1, Zenon
  <2> HIDE DEF c, d
  <2>4. /\ DOMAIN call' = CallFields
        /\ call'.step = IF Tail(call.todo) = << >> THEN "resolve" ELSE "columns"
        /\ call'.draft = NewTable(IF Tail(call.todo) = << >> THEN NoName
                                  ELSE Head(Tail(call.todo)))
        /\ call'.todo = Tail(call.todo) /\ call'.pending = call.pending
        /\ call'.kind = call.kind /\ call'.first = call.first
        /\ call'.listed = call.listed /\ call'.touched = call.touched
        /\ call'.skipped = call.skipped \cup {n}
    <3>1. PICK w : w = d
      OBVIOUS
    <3>2. /\ DOMAIN w = CallFields /\ w.todo = Tail(call.todo)
          /\ w.skipped = call.skipped \cup {n} /\ w.pending = call.pending
          /\ w.kind = call.kind /\ w.first = call.first /\ w.listed = call.listed
          /\ w.touched = call.touched
      BY <2>2, <3>1, Zenon
    <3>3. call' = Onward(w)
      BY <2>3, <3>1, Zenon
    <3>4. /\ DOMAIN Onward(w) = CallFields
          /\ Onward(w).step = IF w.todo = << >> THEN "resolve" ELSE "columns"
          /\ Onward(w).draft = NewTable(IF w.todo = << >> THEN NoName ELSE Head(w.todo))
          /\ Onward(w).kind = w.kind /\ Onward(w).first = w.first
          /\ Onward(w).listed = w.listed /\ Onward(w).todo = w.todo
          /\ Onward(w).pending = w.pending /\ Onward(w).touched = w.touched
          /\ Onward(w).skipped = w.skipped
      BY <3>2, OnwardIs, Zenon
    <3> HIDE DEF n
    <3> QED BY <3>2, <3>3, <3>4, Zenon
  <2>5. /\ call'.step \in {"resolve", "columns"} /\ IsRecord(call'.draft)
        /\ (Tail(call.todo) = << >> <=> call'.step = "resolve")
        /\ (Tail(call.todo) # << >> => call'.draft.name = Head(Tail(call.todo)))
    BY <2>4, NewTableIs
  <2>6. NoName \notin call.listed /\ call.todo # << >> /\ n = Head(call.todo)
    BY <1>1, <1>5 DEF CallInv
  <2>7. /\ Made' = Made /\ Untouched' = Untouched /\ Names(server)' = Names(server)
    BY <1>2, <2>4 DEF Made, Untouched
  <2>8. /\ call.todo \in Seq(Nat)
        /\ \A i, j \in DOMAIN call.todo : call.todo[i] = call.todo[j] => i = j
        /\ Range(call.todo) \subseteq call.listed
        /\ Range(call.todo) \cap call.skipped = {}
        /\ \A id \in Made : /\ RecOf(catalog, id).name \in call.listed
                            /\ RecOf(catalog, id).name \notin Range(call.todo)
                            /\ RecOf(catalog, id).name \notin call.skipped
                            /\ \A other \in Made :
                                 RecOf(catalog, other).name = RecOf(catalog, id).name
                                   => other = id
        /\ \A m \in call.listed : \/ m \in Range(call.todo) \/ m \in call.skipped
                                  \/ \E id \in Made : RecOf(catalog, id).name = m
        /\ Names(server) \ call.touched = call.listed \ call.touched
    BY <1>1, <2>6 DEF ListedInv
  <2>9. /\ Tail(call.todo) \in Seq(Nat)
        /\ \A i, j \in DOMAIN Tail(call.todo) :
             Tail(call.todo)[i] = Tail(call.todo)[j] => i = j
        /\ Range(call.todo) = {n} \cup Range(Tail(call.todo))
        /\ n \notin Range(Tail(call.todo))
    <3>1. /\ call.todo \in Seq(Nat) /\ call.todo # << >>
          /\ \A i, j \in DOMAIN call.todo : call.todo[i] = call.todo[j] => i = j
      BY <2>6, <2>8
    <3>2. n = Head(call.todo)
      BY <2>6
    <3> HIDE DEF n
    <3> QED BY <3>1, <3>2, HeadAndTail, Zenon
  <2>10. CallInv'
    <3>1. call.first \in Nat /\ call.first <= nextId /\ (call.kind = "validate" => Live(catalog) = Made)
      BY <1>1 DEF CallInv
    <3>2. /\ DOMAIN call' = CallFields /\ call'.todo = Tail(call.todo)
          /\ call'.kind = call.kind /\ call'.first = call.first
          /\ call'.listed = call.listed
      BY <2>4
    <3>3. /\ call'.step # "list" /\ call'.step # "done" /\ call'.step \in Steps
      BY <2>5 DEF Steps, Reading
    <3>4. call'.step \in Reading => /\ call'.todo # << >>
                                    /\ call'.draft.name = Head(call'.todo)
      BY <2>5, <3>2 DEF Reading
    <3>5. call'.step \in {"resolve", "done"} => call'.todo = << >>
      BY <2>5, <3>2
    <3>6. /\ call'.first \in Nat /\ call'.first <= nextId'
          /\ NoName \notin call'.listed
      BY <1>2, <2>6, <3>1, <3>2
    <3>7. call'.kind = "validate" => Live(catalog') = Made'
      BY <1>2, <2>7, <3>1, <3>2
    <3> HIDE DEF n
    <3> QED BY <2>5, <3>2, <3>3, <3>4, <3>5, <3>6, <3>7, Zenon DEF CallInv
  <2>11. ListedInv'
    <3>1. /\ call'.todo = Tail(call.todo) /\ call'.listed = call.listed
          /\ call'.skipped = call.skipped \cup {n} /\ call'.touched = call.touched
      BY <2>4
    <3>2. catalog' = catalog
      BY <1>2
    <3> HIDE DEF n
    <3>3. /\ Range(call'.todo) \subseteq call'.listed
          /\ Range(call'.todo) \cap call'.skipped = {}
      BY <2>8, <2>9, <3>1
    <3>4. \A id \in Made' :
             /\ RecOf(catalog, id)'.name \in call'.listed
             /\ RecOf(catalog, id)'.name \notin Range(call'.todo)
             /\ RecOf(catalog, id)'.name \notin call'.skipped
             /\ \A other \in Made' :
                  RecOf(catalog, other)'.name = RecOf(catalog, id)'.name => other = id
      BY <2>7, <2>8, <2>9, <3>1, <3>2
    <3>5. \A m \in call'.listed :
             \/ m \in Range(call'.todo) \/ m \in call'.skipped
             \/ \E id \in Made' : RecOf(catalog, id)'.name = m
      BY <2>7, <2>8, <2>9, <3>1, <3>2
    <3>6. Names(server)' \ call'.touched = call'.listed \ call'.touched
      BY <2>7, <2>8, <3>1
    <3> QED BY <2>9, <3>1, <3>3, <3>4, <3>5, <3>6, Zenon DEF ListedInv
  <2>12. RecordInv'
    <3>1. /\ \A t \in Untouched, id \in Made :
               RecOf(catalog, id).name = t.name => RecordLike(id, t)
          /\ \A p \in call.pending : p.id \in Made /\ p = [id |-> p.id, fk |-> p.fk]
      BY <1>1, <2>6 DEF RecordInv
    <3>2. ASSUME NEW t \in Untouched, NEW id \in Made, RecordLike(id, t)
          PROVE  RecordLike(id, t)'
      <4>1. Evolved(t, t, call'.touched)
        BY EvolvedReflexive
      <4>2. \A x \in DOMAIN t.cols : PendingFor(id, x)' = PendingFor(id, x)
        BY <2>4 DEF PendingFor
      <4> QED BY <1>2, <1>5, <2>4, <3>2, <4>1, <4>2, RecordKept
    <3> QED BY <1>2, <2>4, <2>7, <3>1, <3>2 DEF RecordInv
  <2>13. DraftInv' /\ VerdictInv'
    BY <2>5 DEF DraftInv, DraftLike, VerdictInv
  <2> QED BY <1>1, <1>2, <1>3, <2>10, <2>11, <2>12, <2>13 DEF DiscoveryInv
<1> QED BY <1>2, <1>4, <1>5

\* The end of a call that was not raised: the verdict compares what there is.
LEMMA FinishKeepsInv ==
  ASSUME DiscoveryInv, Finish
  PROVE  DiscoveryInv'
<1>1. /\ config \in Configs /\ IsSchema(server) /\ CatalogInv /\ CallInv /\ ListedInv
      /\ DraftInv /\ RecordInv
  BY DEF DiscoveryInv
<1>2. /\ call.step = "resolve" /\ call.pending = {}
      /\ config' = config /\ server' = server /\ catalog' = catalog /\ nextId' = nextId
  BY DEF Finish, ServerAndCatalogKept
<1>3. DOMAIN call = CallFields /\ NoName \notin call.listed /\ call.todo = << >>
  BY <1>1, <1>2 DEF CallInv
<1>4. /\ DOMAIN call' = CallFields /\ call'.step = "done"
      /\ call'.verdict = IF call.kind = "discover" THEN "none"
                         ELSE IF call.original = normalize(catalog) THEN "true" ELSE "false"
      /\ call'.kind = call.kind /\ call'.original = call.original
      /\ call'.first = call.first /\ call'.listed = call.listed
      /\ call'.todo = call.todo /\ call'.pending = call.pending
      /\ call'.touched = call.touched /\ call'.skipped = call.skipped
      /\ call'.draft = call.draft
  <2>1. call' = Ended(catalog, FALSE)
    BY DEF Finish
  <2> QED BY <1>3, <2>1, EndedIs
<1>5. IsSchema(server)' /\ CatalogInv'
  BY <1>1, <1>2 DEF CatalogInv
<1>6. Made' = Made /\ Untouched' = Untouched /\ Names(server)' = Names(server)
  BY <1>2, <1>4 DEF Made, Untouched
<1>7. CallInv'
  BY <1>1, <1>2, <1>3, <1>4, <1>6 DEF CallInv, Steps, Reading
<1>8. ListedInv'
  BY <1>1, <1>2, <1>4, <1>6 DEF ListedInv
<1>9. RecordInv'
  <2>1. /\ \A t \in Untouched, id \in Made :
             RecOf(catalog, id).name = t.name => RecordLike(id, t)
        /\ \A p \in call.pending : p.id \in Made /\ p = [id |-> p.id, fk |-> p.fk]
    BY <1>1, <1>3 DEF RecordInv
  <2>2. ASSUME NEW t \in Untouched, NEW id \in Made, RecordLike(id, t)
        PROVE  RecordLike(id, t)'
    <3>1. Evolved(t, t, call'.touched)
      BY EvolvedReflexive
    <3>2. \A x \in DOMAIN t.cols : PendingFor(id, x)' = PendingFor(id, x)
      BY <1>4 DEF PendingFor
    <3>3. call'.step \notin Reading
      BY <1>4 DEF Reading
    <3> QED BY <1>2, <1>4, <2>2, <3>1, <3>2, <3>3, RecordKept
  <2> QED BY <1>2, <1>4, <1>6, <2>1, <2>2 DEF RecordInv
<1>10. DraftInv'
  BY <1>4 DEF DraftInv, Reading
<1>11. VerdictInv'
  <2>1. normalize(catalog)' = normalize(catalog)
    BY <1>2 DEF normalize, Normal, Target
  <2> QED BY <1>3, <1>4, <2>1 DEF VerdictInv
<1> QED BY <1>1, <1>2, <1>5, <1>7, <1>8, <1>9, <1>10, <1>11 DEF DiscoveryInv

\* A reference that was pending is settled: it is an id now if the catalog knows
\* the name.
LEMMA RecordSettles ==
  ASSUME NEW id, NEW t, RecordLike(id, t), NEW p \in call.pending, p.id = id,
         call'.pending = call.pending \ {p}, call'.touched = call.touched,
         call'.step = "resolve", catalog'.names = catalog.names,
         NEW r, r = RecOf(catalog, id), NEW s, s = RecOf(catalog', id),
         \/ s = r /\ (p.fk.target \notin DOMAIN catalog.names \/ p.fk.col \notin DOMAIN r.cols)
         \/ /\ p.fk.target \in DOMAIN catalog.names /\ p.fk.col \in DOMAIN r.cols
            /\ s.idx = r.idx /\ s.ranges = r.ranges /\ s.parted = r.parted
            /\ s.cols = [r.cols EXCEPT ![p.fk.col] =
                           [r.cols[p.fk.col] EXCEPT !.ref = catalog.names[p.fk.target]]]
  PROVE  RecordLike(id, t)'
<1> DEFINE x == p.fk.col
           AsNow(c, ref) == [AsRead(t.cols[c], TRUE, TRUE) EXCEPT !.ref = ref]
<1>1. /\ r.idx = t.idx /\ r.ranges = t.ranges
      /\ r.cols = [c \in DOMAIN t.cols |-> AsNow(c, r.cols[c].ref)]
      /\ \A c \in DOMAIN t.cols : \/ Pends(r, id, c, t.cols[c].ref)
                                  \/ Settled(r, id, c, t.cols[c].ref)
  BY ZenonT(40) DEF RecordLike
<1>2. r.parted = (t.ranges # {})
  BY Zenon DEF RecordLike
<1>3. s.parted = (t.ranges # {})
  BY <1>2, Zenon
<1>4. s.idx = t.idx /\ s.ranges = t.ranges
  BY <1>1, Zenon
<1>5. \A c, a, b : /\ AsNow(c, a).ref = a
                   /\ [AsNow(c, a) EXCEPT !.ref = b] = AsNow(c, b)
  BY ReferenceReplaced, Zenon
<1> HIDE DEF AsNow
<1>6. DOMAIN r.cols = DOMAIN t.cols /\ DOMAIN s.cols = DOMAIN t.cols
  BY <1>1
<1>7. \A c \in DOMAIN t.cols \ {x} : s.cols[c] = r.cols[c]
  BY <1>1
<1>8. s.cols = [c \in DOMAIN t.cols |-> AsNow(c, s.cols[c].ref)]
  <2>1. CASE s = r
    BY <1>1, <2>1
  <2>2. CASE /\ x \in DOMAIN r.cols
             /\ s.cols = [r.cols EXCEPT ![x] =
                            [r.cols[x] EXCEPT !.ref = catalog.names[p.fk.target]]]
    <3>1. s.cols[x] = [r.cols[x] EXCEPT !.ref = catalog.names[p.fk.target]]
      BY <2>2
    <3>2. r.cols[x] = AsNow(x, r.cols[x].ref)
      BY <1>1, <1>6, <2>2
    <3>3. s.cols[x] = AsNow(x, catalog.names[p.fk.target])
      BY <1>5, <3>1, <3>2
    <3>4. s.cols[x] = AsNow(x, s.cols[x].ref)
      BY <1>5, <3>3
    <3>5. \A c \in DOMAIN t.cols : s.cols[c] = AsNow(c, s.cols[c].ref)
      BY <1>1, <1>7, <3>4
    <3>6. s.cols = [c \in DOMAIN t.cols |-> s.cols[c]]
      BY <1>6, <2>2
    <3> QED BY <3>5, <3>6
  <2> QED BY <2>1, <2>2
<1>9. ASSUME NEW c \in DOMAIN t.cols \ {x}
      PROVE  \/ Pends(s, id, c, t.cols[c].ref)'
             \/ Settled(s, id, c, t.cols[c].ref)'
  <2>1. PendingFor(id, c)' = PendingFor(id, c)
    BY DEF PendingFor
  <2>2. s.cols[c].ref = r.cols[c].ref
    BY <1>7
  <2>3. ASSUME Pends(r, id, c, t.cols[c].ref)
        PROVE  Pends(s, id, c, t.cols[c].ref)'
    BY <2>1, <2>2, <2>3 DEF Pends
  <2>4. ASSUME Settled(r, id, c, t.cols[c].ref)
        PROVE  Settled(s, id, c, t.cols[c].ref)'
    <3>1. \A a : IdOfName(a)' = IdOfName(a)
      BY DEF IdOfName
    <3> QED BY <2>1, <2>2, <2>4, <3>1 DEF Settled, Reading
  <2> QED BY <1>1, <2>3, <2>4
<1>10. ASSUME x \in DOMAIN t.cols
       PROVE  Settled(s, id, x, t.cols[x].ref)'
  <2>1. p \in PendingFor(id, x)
    BY DEF PendingFor
  <2>2. Pends(r, id, x, t.cols[x].ref)
    BY <1>1, <1>10, <2>1 DEF Settled
  <2>3. /\ PendingFor(id, x) = {p} /\ p.fk.target # NoName
        /\ RefLike(p.fk.target, t.cols[x].ref, call.touched)
        /\ r.cols[x].ref = NoId
    BY <2>1, <2>2 DEF Pends
  <2>4. PendingFor(id, x)' = {}
    BY <2>3 DEF PendingFor
  <2>5. p.fk.target \in call.touched \cup {t.cols[x].ref}
    BY <2>3 DEF RefLike
  <2>6. s.cols[x].ref = IdOfName(p.fk.target)
    <3>1. CASE s = r /\ p.fk.target \notin DOMAIN catalog.names
      BY <2>3, <3>1 DEF IdOfName
    <3>2. CASE /\ p.fk.target \in DOMAIN catalog.names
               /\ s.cols = [r.cols EXCEPT ![x] =
                              [r.cols[x] EXCEPT !.ref = catalog.names[p.fk.target]]]
      <4>1. s.cols[x] = [r.cols[x] EXCEPT !.ref = catalog.names[p.fk.target]]
        BY <1>6, <1>10, <3>2
      <4>2. r.cols[x] = AsNow(x, r.cols[x].ref)
        BY <1>1, <1>10
      <4>3. s.cols[x] = AsNow(x, catalog.names[p.fk.target])
        BY <1>5, <4>1, <4>2
      <4> QED BY <1>5, <3>2, <4>3 DEF IdOfName
    <3> QED BY <1>6, <1>10, <3>1, <3>2
  <2>7. IdOfName(p.fk.target)' = IdOfName(p.fk.target)
    BY DEF IdOfName
  <2> QED BY <2>3, <2>4, <2>5, <2>6, <2>7 DEF Settled, Reading
<1>11. \A c \in DOMAIN t.cols : \/ Pends(s, id, c, t.cols[c].ref)'
                                \/ Settled(s, id, c, t.cols[c].ref)'
  BY <1>9, <1>10
<1>12. s.cols = [c \in DOMAIN t.cols |->
                   [AsRead(t.cols[c], TRUE, TRUE) EXCEPT !.ref = s.cols[c].ref]]
  BY <1>8 DEF AsNow
<1>13. RecOf(catalog, id)' = s
  OBVIOUS
<1> HIDE DEF x
<1>14. /\ RecOf(catalog', id).idx = t.idx /\ RecOf(catalog', id).ranges = t.ranges
       /\ RecOf(catalog', id).cols =
            [c \in DOMAIN t.cols |->
               [AsRead(t.cols[c], TRUE, TRUE) EXCEPT !.ref = RecOf(catalog', id).cols[c].ref]]
  <2>1. \A u : u = s =>
          u.cols = [c \in DOMAIN t.cols |->
                      [AsRead(t.cols[c], TRUE, TRUE) EXCEPT !.ref = u.cols[c].ref]]
    BY <1>12
  <2>2. RecOf(catalog', id) = s
    OBVIOUS
  <2>3. RecOf(catalog', id).cols =
          [c \in DOMAIN t.cols |->
             [AsRead(t.cols[c], TRUE, TRUE) EXCEPT !.ref = RecOf(catalog', id).cols[c].ref]]
    BY <2>1, <2>2, Zenon
  <2>4. RecOf(catalog', id).idx = t.idx /\ RecOf(catalog', id).ranges = t.ranges
    BY <1>4, <2>2, Zenon
  <2> QED BY <2>3, <2>4, Zenon
<1>15. RecOf(catalog', id).parted = (t.ranges # {})
  BY <1>3, Zenon
<1>16. \A c \in DOMAIN t.cols : \/ Pends(RecOf(catalog, id), id, c, t.cols[c].ref)'
                                \/ Settled(RecOf(catalog, id), id, c, t.cols[c].ref)'
  BY <1>11, <1>13, Zenon
<1> QED BY <1>14, <1>15, <1>16, Zenon DEF RecordLike

\* A reference of the second pass.
LEMMA ResolveKeepsInv ==
  ASSUME DiscoveryInv, Resolve
  PROVE  DiscoveryInv'
<1>1. /\ config \in Configs /\ IsSchema(server) /\ CatalogInv /\ CallInv /\ ListedInv
      /\ DraftInv /\ RecordInv
  BY DEF DiscoveryInv
<1>2. PICK p \in call.pending : /\ catalog' = Resolved(p)
                                /\ call' = [call EXCEPT !.pending = @ \ {p}]
  BY DEF Resolve
<1>3. /\ call.step = "resolve"
      /\ config' = config /\ server' = server /\ nextId' = nextId
  BY DEF Resolve
<1>4. DOMAIN call = CallFields /\ NoName \notin call.listed
  BY <1>1, <1>3 DEF CallInv
<1>5. /\ DOMAIN call' = CallFields /\ call'.step = "resolve"
      /\ call'.pending = call.pending \ {p}
      /\ call'.kind = call.kind /\ call'.first = call.first
      /\ call'.listed = call.listed /\ call'.todo = call.todo
      /\ call'.touched = call.touched /\ call'.skipped = call.skipped
      /\ call'.draft = call.draft
  BY <1>2, <1>3, <1>4 DEF CallFields
<1>6. /\ \A t \in Untouched, id \in Made :
             RecOf(catalog, id).name = t.name => RecordLike(id, t)
      /\ \A q \in call.pending : q.id \in Made /\ q = [id |-> q.id, fk |-> q.fk]
  BY <1>1, <1>4 DEF RecordInv
<1> DEFINE id0 == p.id
           r == RecOf(catalog, id0)
           x == p.fk.col
           ref == catalog.names[p.fk.target]
           cols == [r.cols EXCEPT ![x] = [r.cols[x] EXCEPT !.ref = ref]]
           s == [r EXCEPT !.cols = cols]
<1>7. id0 \in Made /\ id0 \in Live(catalog)
  BY <1>6 DEF Made
<1>8. \/ /\ catalog' = catalog
         /\ p.fk.target \notin DOMAIN catalog.names \/ x \notin DOMAIN r.cols
      \/ /\ p.fk.target \in DOMAIN catalog.names /\ x \in DOMAIN r.cols
         /\ catalog' = Updated(catalog, id0, s)
  BY <1>2, Zenon DEF Resolved
<1>9. IsRecord(r)
  BY <1>1, <1>7 DEF CatalogInv
<1>10. /\ IsRecord(s) /\ s.name = r.name /\ s.cols = cols
       /\ s.idx = r.idx /\ s.ranges = r.ranges /\ s.parted = r.parted
  <2> HIDE DEF cols, r
  <2> QED BY <1>9, WithCols
<1> HIDE DEF s
<1>11. /\ Live(catalog') = Live(catalog) /\ catalog'.names = catalog.names
       /\ \A id \in Live(catalog) \ {id0} : RecOf(catalog', id) = RecOf(catalog, id)
       /\ \/ /\ RecOf(catalog', id0) = r
             /\ p.fk.target \notin DOMAIN catalog.names \/ x \notin DOMAIN r.cols
          \/ /\ p.fk.target \in DOMAIN catalog.names /\ x \in DOMAIN r.cols
             /\ RecOf(catalog', id0) = s
  <2>1. CASE /\ catalog' = catalog
             /\ p.fk.target \notin DOMAIN catalog.names \/ x \notin DOMAIN r.cols
    BY <2>1, <1>7
  <2>2. CASE /\ p.fk.target \in DOMAIN catalog.names /\ x \in DOMAIN r.cols
             /\ catalog' = Updated(catalog, id0, s)
    <3>1. /\ Live(Updated(catalog, id0, s)) = Live(catalog)
          /\ RecOf(Updated(catalog, id0, s), id0) = s
          /\ \A id \in Live(catalog) \ {id0} :
               RecOf(Updated(catalog, id0, s), id) = RecOf(catalog, id)
          /\ Updated(catalog, id0, s).names = catalog.names
      BY <1>7, <1>10, UpdatedIs
    <3> QED BY <2>2, <3>1
  <2> QED BY <1>8, <2>1, <2>2
<1>12. \A id \in Live(catalog) : /\ IsRecord(RecOf(catalog', id))
                                 /\ RecOf(catalog', id).name = RecOf(catalog, id).name
  BY <1>1, <1>9, <1>10, <1>11 DEF CatalogInv
<1>13. CatalogInv'
  BY <1>1, <1>3, <1>11, <1>12 DEF CatalogInv
<1>14. Made' = Made /\ Untouched' = Untouched /\ Names(server)' = Names(server)
  BY <1>3, <1>5, <1>11 DEF Made, Untouched
<1>15. CallInv'
  BY <1>1, <1>3, <1>4, <1>5, <1>11, <1>14 DEF CallInv, Steps, Reading
<1>16. \A id \in Made : RecOf(catalog', id).name = RecOf(catalog, id).name
  BY <1>12 DEF Made
<1>17. ListedInv'
  BY <1>1, <1>4, <1>5, <1>14, <1>16 DEF ListedInv
<1>18. ASSUME NEW t \in Untouched, NEW id \in Made, RecordLike(id, t)
       PROVE  RecordLike(id, t)'
  <2>1. CASE id # id0
    <3>1. Evolved(t, t, call'.touched)
      BY EvolvedReflexive
    <3>2. \A c \in DOMAIN t.cols : PendingFor(id, c)' = PendingFor(id, c)
      BY <1>5, <2>1 DEF PendingFor
    <3>3. RecOf(catalog', id) = RecOf(catalog, id)
      BY <1>11, <2>1 DEF Made
    <3>4. call'.step \notin Reading
      BY <1>5 DEF Reading
    <3> QED BY <1>5, <1>11, <1>18, <3>1, <3>2, <3>3, <3>4, RecordKept
  <2>2. CASE id = id0
    <3>1. PICK r0 : r0 = r
      OBVIOUS
    <3>2. PICK s0 : s0 = RecOf(catalog', id)
      OBVIOUS
    <3>3. \/ s0 = r0 /\ (p.fk.target \notin DOMAIN catalog.names \/ x \notin DOMAIN r0.cols)
          \/ /\ p.fk.target \in DOMAIN catalog.names /\ x \in DOMAIN r0.cols
             /\ s0.idx = r0.idx /\ s0.ranges = r0.ranges /\ s0.parted = r0.parted
             /\ s0.cols = [r0.cols EXCEPT ![x] = [r0.cols[x] EXCEPT !.ref = ref]]
      <4> HIDE DEF r
      <4> QED BY <1>10, <1>11, <2>2, <3>1, <3>2
    <3>4. r0 = RecOf(catalog, id)
      BY <2>2, <3>1
    <3> HIDE DEF r
    <3> QED BY <1>5, <1>11, <1>18, <2>2, <3>2, <3>3, <3>4, RecordSettles
  <2> QED BY <2>1, <2>2
<1>19. RecordInv'
  <2>1. \A t \in Untouched', id \in Made' :
          RecOf(catalog', id).name = t.name => RecordLike(id, t)'
    BY <1>6, <1>14, <1>16, <1>18
  <2>2. \A q \in call'.pending : q.id \in Made' /\ q = [id |-> q.id, fk |-> q.fk]
    BY <1>5, <1>6, <1>14
  <2> QED BY <2>1, <2>2 DEF RecordInv
<1>20. DraftInv' /\ VerdictInv'
  BY <1>5 DEF DraftInv, VerdictInv, Reading
<1>21. IsSchema(server)' /\ config' \in Configs
  BY <1>1, <1>3
<1> QED BY <1>13, <1>15, <1>17, <1>19, <1>20, <1>21 DEF DiscoveryInv

-----------------------------------------------------------------------------
(* A session that changes the server during a call. *)

\* A table with other columns is a table.
LEMMA TableWithCols ==
  ASSUME NEW t, IsTable(t), NEW cols, cols = [c \in DOMAIN cols |-> cols[c]],
         "id" \in DOMAIN cols, \A c \in DOMAIN cols : IsColumn(cols[c])
  PROVE  IsTable([t EXCEPT !.cols = cols])
<1>1. IsRecord(t)
  BY DEF IsTable, IsRecord
<1> DEFINE u == [t EXCEPT !.cols = cols]
<1>2. /\ IsRecord(u) /\ u.name = t.name /\ u.cols = cols /\ u.idx = t.idx
      /\ u.parted = t.parted /\ u.ranges = t.ranges
  BY <1>1, WithCols
<1>3. /\ t.name \in Nat \ {NoName} /\ t.ranges \subseteq Nat
      /\ t.idx = [i \in DOMAIN t.idx |-> t.idx[i]] /\ "PRIMARY" \notin DOMAIN t.idx
      /\ \A i \in DOMAIN t.idx : t.idx[i] \in Index /\ t.idx[i].fields # << >>
  BY DEF IsTable
<1>4. t.parted \in BOOLEAN
  BY DEF IsTable
<1> HIDE DEF u
<1>5. u.parted \in BOOLEAN
  BY <1>2, <1>4, Zenon
<1>6. u = [name |-> u.name, cols |-> u.cols, idx |-> u.idx, parted |-> u.parted,
           ranges |-> u.ranges]
  BY <1>2, Zenon DEF IsRecord
<1>7. IsTable(u)
  BY <1>2, <1>3, <1>5, <1>6 DEF IsTable
<1> QED BY <1>7 DEF u

\* A table with its references to one led to another.
Pointed(t, from, to) ==
  [t EXCEPT !.cols = [c \in DOMAIN t.cols |->
                        IF t.cols[c].ref = from THEN [t.cols[c] EXCEPT !.ref = to]
                        ELSE t.cols[c]]]

\* A reference is all that changes of a column.
LEMMA PointedColumn ==
  ASSUME NEW c, IsColumn(c), NEW to \in Nat
  PROVE  /\ IsColumn([c EXCEPT !.ref = to]) /\ [c EXCEPT !.ref = to].ref = to
         /\ SameColumn(c, [c EXCEPT !.ref = to])
<1>1. c \in Column
  BY DEF IsColumn
<1>2. /\ [c EXCEPT !.ref = to] \in Column /\ [c EXCEPT !.ref = to].ref = to
      /\ [c EXCEPT !.ref = to].type = c.type /\ [c EXCEPT !.ref = to].length = c.length
      /\ [c EXCEPT !.ref = to].nullable = c.nullable /\ [c EXCEPT !.ref = to].pk = c.pk
      /\ [c EXCEPT !.ref = to].part = c.part /\ [c EXCEPT !.ref = to].auto = c.auto
  BY <1>1 DEF Column
<1> QED BY <1>2 DEF IsColumn, SameColumn

\* A table that was led elsewhere is a table, and one's later self.
LEMMA PointedIs ==
  ASSUME NEW t, IsTable(t), NEW from \in Nat \ {NoName}, NEW to \in Nat,
         NEW touched, from \in touched, to \in touched \cup {NoName}
  PROVE  IsTable(Pointed(t, from, to)) /\ Evolved(t, Pointed(t, from, to), touched)
<1> DEFINE cols == [c \in DOMAIN t.cols |->
                      IF t.cols[c].ref = from THEN [t.cols[c] EXCEPT !.ref = to]
                      ELSE t.cols[c]]
<1>1. IsRecord(t) /\ "id" \in DOMAIN t.cols /\ \A c \in DOMAIN t.cols : IsColumn(t.cols[c])
  BY DEF IsTable, IsRecord
<1>2. ASSUME NEW c \in DOMAIN t.cols
      PROVE  /\ IsColumn(cols[c]) /\ SameColumn(t.cols[c], cols[c])
             /\ RefStep(t.cols[c].ref, cols[c].ref, touched)
  <2>1. CASE t.cols[c].ref = from
    <3>1. IsColumn(t.cols[c])
      BY <1>1
    <3>2. cols[c] = [t.cols[c] EXCEPT !.ref = to]
      BY <2>1
    <3>3. IsColumn(cols[c]) /\ cols[c].ref = to /\ SameColumn(t.cols[c], cols[c])
      <4> HIDE DEF cols
      <4> QED BY <3>1, <3>2, PointedColumn
    <3> QED BY <2>1, <3>3 DEF RefStep
  <2>2. CASE t.cols[c].ref # from
    <3>1. cols[c] = t.cols[c]
      BY <2>2
    <3> QED BY <1>1, <3>1 DEF SameColumn, RefStep
  <2> QED BY <2>1, <2>2
<1>3. /\ DOMAIN cols = DOMAIN t.cols /\ cols = [c \in DOMAIN cols |-> cols[c]]
  OBVIOUS
<1>4. Pointed(t, from, to) = [t EXCEPT !.cols = cols]
  BY DEF Pointed
<1> HIDE DEF cols
<1>5. IsTable(Pointed(t, from, to))
  BY <1>1, <1>2, <1>3, <1>4, TableWithCols
<1>6. /\ Pointed(t, from, to).name = t.name /\ Pointed(t, from, to).cols = cols
      /\ Pointed(t, from, to).idx = t.idx /\ Pointed(t, from, to).ranges = t.ranges
  BY <1>1, <1>4, WithCols
<1> QED BY <1>2, <1>3, <1>5, <1>6 DEF Evolved

\* What becomes of every table of a schema, if names stay their own.
LEMMA ImageSchema ==
  ASSUME NEW tables, IsSchema(tables), NEW f, DOMAIN f = tables,
         \A t \in tables : IsTable(f[t]),
         \A t, u \in tables : f[t].name = f[u].name => t = u
  PROVE  IsSchema({f[t] : t \in tables})
<1> DEFINE image == {f[t] : t \in tables}
<1>1. IsFiniteSet(image)
  <2>1. [t \in tables |-> f[t]] \in Surjection(tables, image)
    BY DEF Surjection
  <2>2. IsFiniteSet(tables)
    BY DEF IsSchema
  <2> HIDE DEF image
  <2> QED BY <2>1, <2>2, FS_Surjection
<1>2. \A u \in image : IsTable(u)
  OBVIOUS
<1>3. \A u, v \in image : u.name = v.name => u = v
  OBVIOUS
<1> HIDE DEF image
<1>4. IsSchema(image)
  BY <1>1, <1>2, <1>3 DEF IsSchema
<1> QED BY <1>4 DEF image

\* Some of the tables.
LEMMA SubSchema ==
  ASSUME NEW tables, IsSchema(tables), NEW some \in SUBSET tables
  PROVE  IsSchema(some)
<1>1. IsFiniteSet(some)
  BY FS_Subset DEF IsSchema
<1> QED BY <1>1 DEF IsSchema

\* What a step of another session leaves of the tables it does not touch.
Carries(tables, touched) ==
  /\ IsSchema(tables)
  /\ \A u \in tables : u.name \notin touched => \E t \in server : Evolved(t, u, touched)
  /\ \A t \in server : t.name \notin touched => \E u \in tables : u.name = t.name

\* The tables, with the references to one led to another.
LEMMA RepointedCarries ==
  ASSUME IsSchema(server), NEW from \in Nat \ {NoName}, NEW to \in Nat,
         NEW touched, from \in touched, to \in touched \cup {NoName}
  PROVE  /\ Carries(Repointed(from, to), touched)
         /\ Names(Repointed(from, to)) = Names(server)
<1> DEFINE f == [t \in server |-> Pointed(t, from, to)]
<1>1. Repointed(from, to) = {f[t] : t \in server}
  BY DEF Repointed, Pointed
<1>2. \A t \in server : IsTable(f[t]) /\ Evolved(t, f[t], touched)
  BY PointedIs DEF IsSchema
<1> HIDE DEF f
<1>3. \A t \in server : f[t].name = t.name
  BY <1>2 DEF Evolved
<1>4. \A t, u \in server : f[t].name = f[u].name => t = u
  BY <1>3 DEF IsSchema
<1>5. DOMAIN f = server
  BY DEF f
<1>6. IsSchema(Repointed(from, to))
  BY <1>1, <1>2, <1>4, <1>5, ImageSchema
<1>7. Names(Repointed(from, to)) = Names(server)
  BY <1>1, <1>3 DEF Names
<1> QED BY <1>1, <1>2, <1>3, <1>6, <1>7 DEF Carries

\* DROP TABLE: the others stay what they were, or lose a reference to it.
LEMMA DropCarries ==
  ASSUME IsSchema(server), NEW t \in server,
         NEW left, left = IF config.mysql THEN server ELSE Repointed(t.name, NoName)
  PROVE  Carries({u \in left : u.name # t.name}, {t.name})
<1>1. t.name \in Nat \ {NoName}
  BY DEF IsSchema, IsTable
<1>2. Carries(server, {t.name})
  BY EvolvedReflexive DEF Carries
<1>3. Carries(Repointed(t.name, NoName), {t.name})
  <2>1. NoName \in Nat
    BY DEF NoName
  <2> QED BY <1>1, <2>1, RepointedCarries
<1>4. Carries(left, {t.name})
  BY <1>2, <1>3
<1> DEFINE some == {u \in left : u.name # t.name}
<1>5. IsSchema(some)
  <2>1. some \in SUBSET left
    OBVIOUS
  <2> QED BY <1>4, <2>1, SubSchema DEF Carries
<1>6. \A u \in server : u.name \notin {t.name} => \E v \in some : v.name = u.name
  BY <1>4 DEF Carries
<1>7. \A u \in some : u.name \notin {t.name} => \E v \in server : Evolved(v, u, {t.name})
  BY <1>4 DEF Carries
<1> HIDE DEF some
<1>8. Carries(some, {t.name})
  BY <1>5, <1>6, <1>7 DEF Carries
<1> QED BY <1>8 DEF some

\* A table with another name.
LEMMA Renamed ==
  ASSUME NEW t, IsTable(t), NEW nm \in Nat \ {NoName}
  PROVE  IsTable([t EXCEPT !.name = nm]) /\ [t EXCEPT !.name = nm].name = nm
<1> DEFINE u == [name |-> t.name, cols |-> t.cols, idx |-> t.idx,
                 parted |-> t.parted, ranges |-> t.ranges]
           v == [name |-> nm, cols |-> t.cols, idx |-> t.idx,
                 parted |-> t.parted, ranges |-> t.ranges]
<1>1. t = u
  BY DEF IsTable
<1>2. [u EXCEPT !.name = nm] = v
  OBVIOUS
<1>3. [t EXCEPT !.name = nm] = v
  <2> HIDE DEF u
  <2>1. [t EXCEPT !.name = nm] = [u EXCEPT !.name = nm]
    BY <1>1, Zenon
  <2> QED BY <2>1, <1>2
<1>4. /\ v.name = nm /\ v.cols = t.cols /\ v.idx = t.idx /\ v.ranges = t.ranges
      /\ v = [name |-> v.name, cols |-> v.cols, idx |-> v.idx, parted |-> v.parted,
              ranges |-> v.ranges]
  OBVIOUS
<1>5. v.parted = t.parted
  OBVIOUS
<1>6. t.parted \in BOOLEAN
  BY DEF IsTable
<1> HIDE DEF v
<1>7. v.parted \in BOOLEAN
  BY <1>5, <1>6, Zenon
<1>8. IsTable(v)
  <2>1. /\ t.ranges \subseteq Nat
        /\ t.cols = [c \in DOMAIN t.cols |-> t.cols[c]] /\ "id" \in DOMAIN t.cols
        /\ \A c \in DOMAIN t.cols : IsColumn(t.cols[c])
        /\ t.idx = [i \in DOMAIN t.idx |-> t.idx[i]] /\ "PRIMARY" \notin DOMAIN t.idx
        /\ \A i \in DOMAIN t.idx : t.idx[i] \in Index /\ t.idx[i].fields # << >>
    BY DEF IsTable
  <2> QED BY <1>4, <1>7, <2>1 DEF IsTable
<1> QED BY <1>3, <1>4, <1>8

\* RENAME: the references follow the table.
LEMMA RenameCarries ==
  ASSUME IsSchema(server), NEW t \in server, \A u \in server : u.name # Fresh
  PROVE  Carries({IF u.name = t.name THEN [u EXCEPT !.name = Fresh] ELSE u
                    : u \in Repointed(t.name, Fresh)}, {t.name, Fresh})
<1>1. t.name \in Nat \ {NoName} /\ Fresh \in Nat \ {NoName}
  <2>1. t.name \in Nat \ {NoName}
    BY DEF IsSchema, IsTable
  <2>2. Fresh \in Nat \ {NoName}
    BY DEF Fresh, NoName
  <2> QED BY <2>1, <2>2
<1>2. /\ Carries(Repointed(t.name, Fresh), {t.name, Fresh})
      /\ Names(Repointed(t.name, Fresh)) = Names(server)
  BY <1>1, RepointedCarries
<1> DEFINE tables == Repointed(t.name, Fresh)
           f == [u \in tables |-> IF u.name = t.name THEN [u EXCEPT !.name = Fresh] ELSE u]
<1> HIDE DEF tables
<1>3. /\ IsSchema(tables) /\ \A u \in tables : u.name # Fresh
  <2>1. Fresh \notin Names(tables)
    BY <1>2 DEF Names, tables
  <2> QED BY <1>2, <2>1 DEF Carries, Names, tables
<1>4. \A u \in tables : /\ IsTable(f[u])
                        /\ f[u].name = IF u.name = t.name THEN Fresh ELSE u.name
                        /\ u.name # t.name => f[u] = u
  <2> TAKE u \in tables
  <2>1. IsTable(u)
    BY <1>3 DEF IsSchema
  <2>2. CASE u.name = t.name
    <3>1. f[u] = [u EXCEPT !.name = Fresh]
      BY <2>2
    <3> QED BY <1>1, <2>1, <2>2, <3>1, Renamed
  <2>3. CASE u.name # t.name
    BY <2>1, <2>3
  <2> QED BY <2>2, <2>3
<1>5. DOMAIN f = tables
  OBVIOUS
<1>6. {IF u.name = t.name THEN [u EXCEPT !.name = Fresh] ELSE u : u \in tables}
        = {f[u] : u \in tables}
  OBVIOUS
<1> HIDE DEF f
<1>7. \A u, v \in tables : f[u].name = f[v].name => u = v
  BY <1>3, <1>4 DEF IsSchema
<1> DEFINE image == {f[u] : u \in tables}
<1>8. IsSchema(image)
  BY <1>3, <1>4, <1>5, <1>7, ImageSchema
<1>9. \A u \in image : u.name \notin {t.name, Fresh} =>
        \E v \in server : Evolved(v, u, {t.name, Fresh})
  <2>1. \A u \in image : u.name \notin {t.name, Fresh} => u \in tables
    BY <1>4
  <2> QED BY <1>2, <2>1 DEF Carries, tables
<1>10. \A v \in server : v.name \notin {t.name, Fresh} => \E u \in image : u.name = v.name
  <2>1. \A v \in server : v.name \notin {t.name, Fresh} => \E u \in tables : u.name = v.name
    BY <1>2 DEF Carries, tables
  <2> QED BY <1>4, <2>1
<1> HIDE DEF image
<1>11. Carries(image, {t.name, Fresh})
  BY <1>8, <1>9, <1>10 DEF Carries
<1> QED BY <1>6, <1>11 DEF image, tables

\* ADD COLUMN: a column like the first, without its keys.
LEMMA AlterCarries ==
  ASSUME IsSchema(server), NEW t \in server,
         NEW u, u = [t EXCEPT !.cols = Put(@, "new", [t.cols["id"] EXCEPT
                       !.pk = FALSE, !.part = FALSE, !.auto = FALSE, !.nullable = TRUE])]
  PROVE  Carries((server \ {t}) \cup {u}, {t.name})
<1>1. IsTable(t) /\ IsRecord(t) /\ "id" \in DOMAIN t.cols
  BY DEF IsSchema, IsTable, IsRecord
<1> DEFINE old == t.cols["id"]
           new == [old EXCEPT !.pk = FALSE, !.part = FALSE, !.auto = FALSE, !.nullable = TRUE]
           cols == Put(t.cols, "new", new)
           tables == (server \ {t}) \cup {u}
<1>2. IsColumn(new)
  <2>1. IsColumn(old)
    BY <1>1 DEF IsTable
  <2> HIDE DEF old
  <2>2. new \in Column /\ new.type = old.type /\ new.length = old.length
    BY <2>1 DEF IsColumn, Column
  <2>3. new.nullable = ~new.pk
    BY <2>1 DEF IsColumn, Column
  <2> HIDE DEF new
  <2> QED BY <2>1, <2>2, <2>3 DEF IsColumn
<1> HIDE DEF new
<1>3. /\ cols = [c \in DOMAIN cols |-> cols[c]] /\ "id" \in DOMAIN cols
      /\ \A c \in DOMAIN cols : IsColumn(cols[c])
  BY <1>1, <1>2 DEF Put, IsTable
<1>4. u = [t EXCEPT !.cols = cols]
  BY DEF new
<1> HIDE DEF cols
<1>5. IsTable(u) /\ u.name = t.name
  BY <1>1, <1>3, <1>4, TableWithCols, WithCols
<1>6. IsFiniteSet(tables)
  <2>1. IsFiniteSet(server \ {t})
    BY FS_RemoveElement DEF IsSchema
  <2> QED BY <2>1, FS_AddElement
<1>7. IsSchema(tables)
  BY <1>5, <1>6 DEF IsSchema
<1>8. \A v \in tables : v.name \notin {t.name} => \E w \in server : Evolved(w, v, {t.name})
  BY <1>5, EvolvedReflexive
<1>9. \A w \in server : w.name \notin {t.name} => \E v \in tables : v.name = w.name
  OBVIOUS
<1> HIDE DEF tables
<1>10. Carries(tables, {t.name})
  BY <1>7, <1>8, <1>9 DEF Carries
<1> QED BY <1>10 DEF tables

\* Other steps of a call are blind to what a session touched more.
LEMMA EvolvedMore ==
  ASSUME NEW t, NEW u, NEW some, NEW more, some \subseteq more, Evolved(t, u, some)
  PROVE  Evolved(t, u, more)
<1>1. \A c \in DOMAIN t.cols : RefStep(t.cols[c].ref, u.cols[c].ref, more)
  BY DEF Evolved, RefStep
<1> QED BY <1>1 DEF Evolved

\* A step of another session: what the call read of the tables that it did not
\* touch is still what one would read of them.
LEMMA OthersKeepInv ==
  ASSUME DiscoveryInv, NEW tables, NEW touched, Carries(tables, touched),
         call.step # "done", server' = tables,
         \E races : call' = [call EXCEPT !.races = races, !.touched = @ \cup touched],
         config' = config, catalog' = catalog, nextId' = nextId
  PROVE  DiscoveryInv'
<1>1. /\ config \in Configs /\ IsSchema(server) /\ CatalogInv /\ CallInv /\ ListedInv
      /\ DraftInv /\ RecordInv
  BY DEF DiscoveryInv
<1>2. /\ DOMAIN call' = CallFields /\ call'.step = call.step /\ call'.kind = call.kind
      /\ call'.first = call.first /\ call'.listed = call.listed
      /\ call'.todo = call.todo /\ call'.draft = call.draft /\ call'.fks = call.fks
      /\ call'.pending = call.pending /\ call'.skipped = call.skipped
      /\ call'.touched = call.touched \cup touched
  <2>1. DOMAIN call = CallFields
    BY <1>1 DEF CallInv
  <2> QED BY <2>1 DEF CallFields
<1>3. /\ IsSchema(tables)
      /\ \A u \in tables : u.name \notin touched => \E t \in server : Evolved(t, u, touched)
      /\ \A t \in server : t.name \notin touched => \E u \in tables : u.name = t.name
  BY DEF Carries
<1>4. Made' = Made
  BY <1>2 DEF Made
<1>5. CatalogInv' /\ CallInv' /\ IsSchema(server)' /\ config' \in Configs
  <2>1. CatalogInv'
    BY <1>1 DEF CatalogInv
  <2>2. CallInv'
    BY <1>1, <1>2, <1>4 DEF CallInv
  <2> QED BY <1>1, <1>3, <2>1, <2>2
<1>6. \A u \in Untouched' : \E t \in Untouched : /\ t.name = u.name
                                                 /\ Evolved(t, u, call'.touched)
  <2> TAKE u \in Untouched'
  <2>1. u \in tables /\ u.name \notin call.touched /\ u.name \notin touched
    BY <1>2 DEF Untouched
  <2>2. PICK t \in server : Evolved(t, u, touched)
    BY <1>3, <2>1
  <2>3. t.name = u.name
    BY <2>2 DEF Evolved
  <2>4. t \in Untouched
    BY <2>1, <2>3 DEF Untouched
  <2>5. Evolved(t, u, call'.touched)
    BY <1>2, <2>2, EvolvedMore
  <2> QED BY <2>3, <2>4, <2>5
<1>7. Names(tables) \ call'.touched = Names(server) \ call'.touched
  <2>1. \A u \in tables : u.name \notin touched => \E t \in server : t.name = u.name
    BY <1>3 DEF Evolved
  <2> QED BY <1>2, <1>3, <2>1 DEF Names
<1>8. ListedInv'
  <2>1. Names(server) \ call.touched = call.listed \ call.touched =>
          Names(tables) \ call'.touched = call.listed \ call'.touched
    BY <1>2, <1>7
  <2>2. Names(server)' = Names(tables)
    BY DEF Names
  <2> QED BY <1>1, <1>2, <1>4, <2>1, <2>2 DEF ListedInv
<1>9. RecordInv'
  <2> SUFFICES ASSUME NoName \notin call.listed
               PROVE  RecordInv'
    BY <1>2 DEF RecordInv
  <2>1. /\ \A t \in Untouched, id \in Made :
             RecOf(catalog, id).name = t.name => RecordLike(id, t)
        /\ \A p \in call.pending : p.id \in Made /\ p = [id |-> p.id, fk |-> p.fk]
    BY <1>1 DEF RecordInv
  <2>2. ASSUME NEW u \in Untouched', NEW id \in Made, RecOf(catalog, id).name = u.name
        PROVE  RecordLike(id, u)'
    <3>1. PICK t \in Untouched : t.name = u.name /\ Evolved(t, u, call'.touched)
      BY <1>6
    <3>2. RecordLike(id, t)
      BY <2>1, <2>2, <3>1
    <3>3. \A c \in DOMAIN t.cols : PendingFor(id, c)' = PendingFor(id, c)
      BY <1>2 DEF PendingFor
    <3> QED BY <1>2, <3>1, <3>2, <3>3, RecordKept
  <2> QED BY <1>2, <1>4, <2>1, <2>2 DEF RecordInv
<1>10. DraftInv'
  <2> SUFFICES ASSUME call.step \in Reading, NEW u \in Untouched', u.name = call.draft.name
               PROVE  DraftLike(u)'
    BY <1>2 DEF DraftInv
  <2>1. PICK t \in Untouched : t.name = u.name /\ Evolved(t, u, call'.touched)
    BY <1>6
  <2>2. DraftLike(t)
    BY <1>1, <2>1 DEF DraftInv
  <2>3. /\ ColsRead(t, FALSE, FALSE) = ColsRead(u, FALSE, FALSE)
        /\ ColsRead(t, TRUE, FALSE) = ColsRead(u, TRUE, FALSE)
        /\ ColsRead(t, TRUE, TRUE) = ColsRead(u, TRUE, TRUE)
    BY <2>1, EvolvedColumns
  <2>4. t.idx = u.idx
    BY <2>1 DEF Evolved
  <2>5. FksLike(call.fks, t, call.touched) => FksLike(call.fks, u, call'.touched)
    BY <1>2, <2>1, FksKept
  <2> QED BY <1>2, <2>2, <2>3, <2>4, <2>5, Zenon DEF DraftLike
<1>11. VerdictInv'
  BY <1>2 DEF VerdictInv
<1> QED BY <1>5, <1>8, <1>9, <1>10, <1>11 DEF DiscoveryInv

\* DROP TABLE, RENAME and ADD COLUMN.
LEMMA SessionsKeepInv ==
  ASSUME DiscoveryInv, Others
  PROVE  DiscoveryInv'
<1>1. IsSchema(server)
  BY DEF DiscoveryInv
<1>2. ASSUME NEW tables, NEW touched, Carries(tables, touched), Foreign(tables, touched)
      PROVE  DiscoveryInv'
  <2>1. /\ call.step # "done" /\ server' = tables
        /\ config' = config /\ catalog' = catalog /\ nextId' = nextId
        /\ call' = [call EXCEPT !.races = @ - 1, !.touched = @ \cup touched]
    BY <1>2 DEF Foreign
  <2>2. \E races : call' = [call EXCEPT !.races = races, !.touched = @ \cup touched]
    BY <2>1
  <2> QED BY <1>2, <2>1, <2>2, OthersKeepInv
<1>3. CASE ForeignDrop
  <2>1. PICK t \in server :
          LET left == IF config.mysql THEN server ELSE Repointed(t.name, NoName)
          IN  Foreign({u \in left : u.name # t.name}, {t.name})
    BY <1>3 DEF ForeignDrop
  <2> DEFINE left == IF config.mysql THEN server ELSE Repointed(t.name, NoName)
  <2>2. Carries({u \in left : u.name # t.name}, {t.name})
    BY <1>1, DropCarries
  <2>3. Foreign({u \in left : u.name # t.name}, {t.name})
    BY <2>1
  <2> QED BY <1>2, <2>2, <2>3
<1>4. CASE ForeignRename
  <2>1. PICK t \in server :
          Foreign({IF u.name = t.name THEN [u EXCEPT !.name = Fresh] ELSE u
                     : u \in Repointed(t.name, Fresh)}, {t.name, Fresh})
    BY <1>4 DEF ForeignRename
  <2>2. \A u \in server : u.name # Fresh
    BY <1>4 DEF ForeignRename
  <2>3. Carries({IF u.name = t.name THEN [u EXCEPT !.name = Fresh] ELSE u
                   : u \in Repointed(t.name, Fresh)}, {t.name, Fresh})
    BY <1>1, <2>2, RenameCarries
  <2> QED BY <1>2, <2>1, <2>3
<1>5. CASE ForeignAlter
  <2>1. PICK t \in server :
          Foreign((server \ {t}) \cup
                    {[t EXCEPT !.cols = Put(@, "new", [t.cols["id"] EXCEPT
                          !.pk = FALSE, !.part = FALSE, !.auto = FALSE, !.nullable = TRUE])]},
                  {t.name})
    BY <1>5 DEF ForeignAlter
  <2> DEFINE u == [t EXCEPT !.cols = Put(@, "new", [t.cols["id"] EXCEPT
                      !.pk = FALSE, !.part = FALSE, !.auto = FALSE, !.nullable = TRUE])]
  <2>2. Carries((server \ {t}) \cup {u}, {t.name})
    BY <1>1, AlterCarries
  <2> QED BY <1>2, <2>1, <2>2
<1> QED BY <1>3, <1>4, <1>5 DEF Others

-----------------------------------------------------------------------------
(* The end of a call: what the records say, and what the server holds. *)

\* What is told of a table, with these references of its columns.
Told(t, refs) ==
  [name |-> t.name,
   cols |-> [c \in DOMAIN t.cols |-> [AsRead(t.cols[c], TRUE, TRUE) EXCEPT !.ref = refs[c]]],
   idx |-> t.idx, parted |-> t.ranges # {}, ranges |-> t.ranges]

\* A record with other columns and another mark, spelled out.
LEMMA WithColsAndMark ==
  ASSUME NEW t, IsRecord(t), NEW cols, NEW parted
  PROVE  /\ [t EXCEPT !.cols = cols] =
              [name |-> t.name, cols |-> cols, idx |-> t.idx, parted |-> t.parted,
               ranges |-> t.ranges]
         /\ [[t EXCEPT !.parted = parted] EXCEPT !.cols = cols] =
              [name |-> t.name, cols |-> cols, idx |-> t.idx, parted |-> parted,
               ranges |-> t.ranges]
<1> DEFINE u == [name |-> t.name, cols |-> t.cols, idx |-> t.idx,
                 parted |-> t.parted, ranges |-> t.ranges]
<1>1. t = u
  BY DEF IsRecord
<1>2. [u EXCEPT !.cols = cols] =
        [name |-> t.name, cols |-> cols, idx |-> t.idx, parted |-> t.parted,
         ranges |-> t.ranges]
  OBVIOUS
<1>3. [[u EXCEPT !.parted = parted] EXCEPT !.cols = cols] =
        [name |-> t.name, cols |-> cols, idx |-> t.idx, parted |-> parted,
         ranges |-> t.ranges]
  <2> DEFINE v == [name |-> t.name, cols |-> t.cols, idx |-> t.idx,
                   parted |-> parted, ranges |-> t.ranges]
  <2>1. [u EXCEPT !.parted = parted] = v
    OBVIOUS
  <2>2. [v EXCEPT !.cols = cols] =
          [name |-> t.name, cols |-> cols, idx |-> t.idx, parted |-> parted,
           ranges |-> t.ranges]
    OBVIOUS
  <2> HIDE DEF u, v
  <2> QED BY <2>1, <2>2, Zenon
<1> HIDE DEF u
<1>4. [t EXCEPT !.cols = cols] = [u EXCEPT !.cols = cols]
  BY <1>1, Zenon
<1>5. [[t EXCEPT !.parted = parted] EXCEPT !.cols = cols] = [[u EXCEPT !.parted = parted] EXCEPT !.cols = cols]
  BY <1>1, Zenon
<1> QED BY <1>2, <1>3, <1>4, <1>5, Zenon

\* Only the references count.
LEMMA ToldSame ==
  ASSUME NEW t, NEW refs, NEW others, \A c \in DOMAIN t.cols : refs[c] = others[c]
  PROVE  Told(t, refs) = Told(t, others)
<1>1. [c \in DOMAIN t.cols |-> [AsRead(t.cols[c], TRUE, TRUE) EXCEPT !.ref = refs[c]]]
        = [c \in DOMAIN t.cols |-> [AsRead(t.cols[c], TRUE, TRUE) EXCEPT !.ref = others[c]]]
  OBVIOUS
<1> QED BY <1>1, Zenon DEF Told

\* What the server holds, in these terms.
LEMMA TruthIs ==
  ASSUME NEW t, IsTable(t)
  PROVE  Truth(t) = Told(t, [c \in DOMAIN t.cols |-> {t.cols[c].ref} \cap Names(server)])
<1> DEFINE cols == [c \in DOMAIN t.cols |->
                      [t.cols[c] EXCEPT !.ref = {@} \cap {u.name : u \in server}]]
           refs == [c \in DOMAIN t.cols |-> {t.cols[c].ref} \cap Names(server)]
<1>1. IsRecord(t) /\ \A c \in DOMAIN t.cols : t.cols[c] \in Column
  BY DEF IsTable, IsRecord, IsColumn
<1>2. Truth(t) = [name |-> t.name, cols |-> cols, idx |-> t.idx,
                  parted |-> t.ranges # {}, ranges |-> t.ranges]
  <2>1. Truth(t) = [[t EXCEPT !.parted = t.ranges # {}] EXCEPT !.cols = cols]
    BY Zenon DEF Truth
  <2> HIDE DEF cols
  <2> QED BY <1>1, <2>1, WithColsAndMark, Zenon
<1>3. \A c \in DOMAIN t.cols : cols[c] = [AsRead(t.cols[c], TRUE, TRUE) EXCEPT !.ref = refs[c]]
  <2> TAKE c \in DOMAIN t.cols
  <2>1. cols[c] = [t.cols[c] EXCEPT !.ref = refs[c]]
    BY DEF Names
  <2>2. refs[c] = {t.cols[c].ref} \cap Names(server)
    OBVIOUS
  <2> HIDE DEF cols, refs
  <2> QED BY <1>1, <2>1 DEF AsRead, Column
<1>4. cols = [c \in DOMAIN t.cols |-> cols[c]]
  OBVIOUS
<1> HIDE DEF cols, refs
<1>5. cols = [c \in DOMAIN t.cols |-> [AsRead(t.cols[c], TRUE, TRUE) EXCEPT !.ref = refs[c]]]
  BY <1>3, <1>4
<1>6. Truth(t) = Told(t, refs)
  BY <1>2, <1>5, Zenon DEF Told
<1> QED BY <1>6 DEF refs

\* What a record of this call says of its table.
LEMMA NormalIs ==
  ASSUME NEW id, NEW t, NEW r, r = RecOf(catalog, id), IsRecord(r), r.name = t.name,
         RecordLike(id, t)
  PROVE  Normal(catalog, id) =
           Told(t, [c \in DOMAIN t.cols |-> Target(catalog, r.cols[c].ref)])
<1> DEFINE cols == [c \in DOMAIN r.cols |->
                      [r.cols[c] EXCEPT !.ref = Target(catalog, r.cols[c].ref)]]
           refs == [c \in DOMAIN t.cols |-> Target(catalog, r.cols[c].ref)]
<1>1. /\ r.idx = t.idx /\ r.ranges = t.ranges
      /\ r.cols = [c \in DOMAIN t.cols |->
                     [AsRead(t.cols[c], TRUE, TRUE) EXCEPT !.ref = r.cols[c].ref]]
  BY Zenon DEF RecordLike
<1>2. r.parted = (t.ranges # {})
  BY Zenon DEF RecordLike
<1>3. Normal(catalog, id) = [name |-> r.name, cols |-> cols, idx |-> r.idx,
                             parted |-> r.parted, ranges |-> r.ranges]
  <2>1. Normal(catalog, id) = [r EXCEPT !.cols = cols]
    BY DEF Normal
  <2> HIDE DEF cols
  <2> QED BY <2>1, WithColsAndMark
<1>4. \A c, a, b : [[AsRead(c, TRUE, TRUE) EXCEPT !.ref = a] EXCEPT !.ref = b]
                     = [AsRead(c, TRUE, TRUE) EXCEPT !.ref = b]
  BY ReferenceReplaced, Zenon
<1>5. \A c \in DOMAIN t.cols : cols[c] = [AsRead(t.cols[c], TRUE, TRUE) EXCEPT !.ref = refs[c]]
  <2> TAKE c \in DOMAIN t.cols
  <2>1. cols[c] = [r.cols[c] EXCEPT !.ref = refs[c]]
    BY <1>1
  <2>2. r.cols[c] = [AsRead(t.cols[c], TRUE, TRUE) EXCEPT !.ref = r.cols[c].ref]
    BY <1>1
  <2> HIDE DEF cols, refs
  <2> QED BY <1>4, <2>1, <2>2
<1>6. DOMAIN r.cols = DOMAIN t.cols
  BY <1>1
<1>7. cols = [c \in DOMAIN t.cols |-> cols[c]]
  BY <1>6
<1> HIDE DEF cols, refs
<1>8. cols = [c \in DOMAIN t.cols |-> [AsRead(t.cols[c], TRUE, TRUE) EXCEPT !.ref = refs[c]]]
  BY <1>5, <1>7
<1>9. Normal(catalog, id) = Told(t, refs)
  BY <1>1, <1>2, <1>3, <1>8, Zenon DEF Told
<1> QED BY <1>9 DEF refs

\* Without the references to some tables.
LEMMA BlindIs ==
  ASSUME NEW t, NEW refs, NEW names
  PROVE  Blind(Told(t, refs), names) = Told(t, [c \in DOMAIN t.cols |-> refs[c] \ names])
<1> DEFINE told == Told(t, refs)
           cols == [c \in DOMAIN told.cols |-> [told.cols[c] EXCEPT !.ref = @ \ names]]
           left == [c \in DOMAIN t.cols |-> refs[c] \ names]
<1>1. /\ IsRecord(told) /\ told.name = t.name /\ told.idx = t.idx /\ told.ranges = t.ranges
      /\ told.cols = [c \in DOMAIN t.cols |->
                        [AsRead(t.cols[c], TRUE, TRUE) EXCEPT !.ref = refs[c]]]
  BY DEF Told, IsRecord
<1>2. told.parted = (t.ranges # {})
  BY DEF Told
<1>3. Blind(told, names) = [name |-> told.name, cols |-> cols, idx |-> told.idx,
                            parted |-> told.parted, ranges |-> told.ranges]
  <2>1. Blind(told, names) = [told EXCEPT !.cols = cols]
    BY DEF Blind
  <2> HIDE DEF cols, told
  <2> QED BY <1>1, <2>1, WithColsAndMark
<1> HIDE DEF told
<1>4. \A c, a, b : /\ [[AsRead(c, TRUE, TRUE) EXCEPT !.ref = a] EXCEPT !.ref = b]
                        = [AsRead(c, TRUE, TRUE) EXCEPT !.ref = b]
                   /\ [AsRead(c, TRUE, TRUE) EXCEPT !.ref = a].ref = a
  BY ReferenceReplaced, Zenon
<1>5. \A c \in DOMAIN t.cols : cols[c] = [AsRead(t.cols[c], TRUE, TRUE) EXCEPT !.ref = left[c]]
  <2> TAKE c \in DOMAIN t.cols
  <2>1. cols[c] = [told.cols[c] EXCEPT !.ref = told.cols[c].ref \ names]
    BY <1>1
  <2>2. told.cols[c] = [AsRead(t.cols[c], TRUE, TRUE) EXCEPT !.ref = refs[c]]
    BY <1>1
  <2>3. left[c] = refs[c] \ names
    OBVIOUS
  <2> HIDE DEF cols, left
  <2>4. told.cols[c].ref = refs[c]
    <3>1. [AsRead(t.cols[c], TRUE, TRUE) EXCEPT !.ref = refs[c]].ref = refs[c]
      BY <1>4, Zenon
    <3> QED BY <2>2, <3>1, Zenon
  <2>5. [told.cols[c] EXCEPT !.ref = left[c]] = [AsRead(t.cols[c], TRUE, TRUE) EXCEPT !.ref = left[c]]
    BY <1>4, <2>2, Zenon
  <2> QED BY <2>1, <2>3, <2>4, <2>5, Zenon
<1>6. cols = [c \in DOMAIN t.cols |-> cols[c]]
  BY <1>1
<1> HIDE DEF cols, left
<1>7. cols = [c \in DOMAIN t.cols |-> [AsRead(t.cols[c], TRUE, TRUE) EXCEPT !.ref = left[c]]]
  BY <1>5, <1>6
<1>8. Blind(told, names) = Told(t, left)
  BY <1>1, <1>2, <1>3, <1>7, Zenon DEF Told
<1> QED BY <1>8 DEF left, told

\* A reference of a record that is done is to a name the catalog has, or to none.
LEMMA ReferenceTold ==
  ASSUME CatalogInv, CallInv, call.step = "done", NEW id, NEW t, RecordLike(id, t),
         NEW c \in DOMAIN t.cols
  PROVE  \E a : /\ RefLike(a, t.cols[c].ref, call.touched)
                /\ Target(catalog, RecOf(catalog, id).cols[c].ref)
                     = {a} \cap DOMAIN catalog.names
<1> DEFINE r == RecOf(catalog, id)
<1>1. \/ Pends(r, id, c, t.cols[c].ref)
      \/ Settled(r, id, c, t.cols[c].ref)
  BY Zenon DEF RecordLike
<1>2. PendingFor(id, c) = {}
  BY DEF CallInv, PendingFor
<1> HIDE DEF r
<1>3. Settled(r, id, c, t.cols[c].ref)
  BY <1>1, <1>2 DEF Pends
<1>4. PICK a : RefLike(a, t.cols[c].ref, call.touched) /\ r.cols[c].ref = IdOfName(a)
  BY <1>3 DEF Settled
<1>5. CASE a \in DOMAIN catalog.names
  <2>1. /\ IdOfName(a) = catalog.names[a] /\ catalog.names[a] \in Live(catalog)
        /\ RecOf(catalog, catalog.names[a]).name = a /\ catalog.names[a] # NoId
    BY <1>5 DEF CatalogInv, IdOfName, NoId
  <2>2. Target(catalog, r.cols[c].ref) = {a}
    BY <1>4, <2>1 DEF Target
  <2> QED BY <1>4, <1>5, <2>2 DEF r
<1>6. CASE a \notin DOMAIN catalog.names
  <2>1. Target(catalog, r.cols[c].ref) = {}
    BY <1>4, <1>6 DEF IdOfName, Target
  <2> QED BY <1>4, <1>6, <2>1 DEF r
<1> QED BY <1>5, <1>6

\* The names of tables that only the catalog has, and that this call left.
OldNames == {RecOf(catalog, id).name : id \in Live(catalog) \ Made} \ call.listed

\* The catalog knows the names that the server has, but for those that were lost
\* and those that were there before.
LEMMA NamesKnown ==
  ASSUME DiscoveryInv, call.step = "done", NoName \notin call.listed,
         NEW a, a \notin call.skipped \cup call.touched \cup OldNames
  PROVE  a \in DOMAIN catalog.names <=> a \in Names(server)
<1>1. CatalogInv /\ CallInv /\ ListedInv
  BY DEF DiscoveryInv
<1>2. Range(call.todo) = {}
  <2>1. call.todo = << >>
    BY <1>1 DEF CallInv
  <2> QED BY <2>1 DEF Range
<1>3. /\ \A id \in Made : RecOf(catalog, id).name \in call.listed
      /\ \A n \in call.listed : \/ n \in Range(call.todo) \/ n \in call.skipped
                                \/ \E id \in Made : RecOf(catalog, id).name = n
      /\ Names(server) \ call.touched = call.listed \ call.touched
  BY <1>1 DEF ListedInv
<1>4. ASSUME a \in DOMAIN catalog.names
      PROVE  a \in Names(server)
  <2>1. catalog.names[a] \in Live(catalog) /\ RecOf(catalog, catalog.names[a]).name = a
    BY <1>1, <1>4 DEF CatalogInv
  <2>2. a \in call.listed
    BY <1>3, <2>1 DEF OldNames
  <2> QED BY <1>3, <2>2
<1>5. ASSUME a \in Names(server)
      PROVE  a \in DOMAIN catalog.names
  <2>1. PICK id \in Made : RecOf(catalog, id).name = a
    BY <1>2, <1>3, <1>5
  <2> QED BY <1>1, <2>1 DEF CatalogInv, Made
<1> QED BY <1>4, <1>5

\* The record of a table that nobody changed tells what the server holds, but for
\* the references to what was lost.
LEMMA RecordTold ==
  ASSUME DiscoveryInv, call.step = "done", NoName \notin call.listed,
         NEW t \in Untouched, NEW id \in Made, RecOf(catalog, id).name = t.name
  PROVE  LET blind == call.skipped \cup call.touched \cup OldNames
         IN  /\ Blind(Normal(catalog, id), blind) = Blind(Truth(t), blind)
             /\ call.touched = {} /\ Live(catalog) = Made =>
                  Normal(catalog, id) = Blind(Truth(t), call.skipped)
<1> DEFINE r == RecOf(catalog, id)
           blind == call.skipped \cup call.touched \cup OldNames
           told == [c \in DOMAIN t.cols |-> Target(catalog, r.cols[c].ref)]
           true == [c \in DOMAIN t.cols |-> {t.cols[c].ref} \cap Names(server)]
<1>1. CatalogInv /\ CallInv /\ ListedInv /\ RecordInv /\ IsSchema(server)
  BY DEF DiscoveryInv
<1>2. t \in server /\ IsTable(t) /\ RecordLike(id, t) /\ IsRecord(r)
  BY <1>1 DEF Untouched, IsSchema, RecordInv, CatalogInv, Made
<1>3. Normal(catalog, id) = Told(t, told) /\ Truth(t) = Told(t, true)
  BY <1>2, NormalIs, TruthIs
<1>4. NoName \notin Names(server)
  BY <1>1 DEF IsSchema, IsTable, Names
<1>5. \A a : a \notin blind => (a \in DOMAIN catalog.names <=> a \in Names(server))
  BY NamesKnown
<1>6. \A c \in DOMAIN t.cols :
        \E a : /\ RefLike(a, t.cols[c].ref, call.touched)
               /\ told[c] = {a} \cap DOMAIN catalog.names
  BY <1>1, <1>2, ReferenceTold
<1>7. \A c \in DOMAIN t.cols : true[c] = {t.cols[c].ref} \cap Names(server)
  OBVIOUS
<1> HIDE DEF told, true, r
<1>8. ASSUME NEW c \in DOMAIN t.cols
      PROVE  told[c] \ blind = true[c] \ blind
  <2> DEFINE b == t.cols[c].ref
  <2>1. PICK a : RefLike(a, b, call.touched) /\ told[c] = {a} \cap DOMAIN catalog.names
    BY <1>6
  <2>2. true[c] = {b} \cap Names(server)
    BY <1>7
  <2> HIDE DEF b
  <2>3. CASE a = b
    BY <1>5, <2>1, <2>2, <2>3
  <2>4. CASE a \in call.touched /\ b \in call.touched \cup {NoName}
    BY <1>4, <2>1, <2>2, <2>4
  <2> QED BY <2>1, <2>3, <2>4 DEF RefLike
<1>9. Blind(Normal(catalog, id), blind) = Blind(Truth(t), blind)
  <2> DEFINE f == [c \in DOMAIN t.cols |-> told[c] \ blind]
             g == [c \in DOMAIN t.cols |-> true[c] \ blind]
  <2>1. Told(t, f) = Told(t, g)
    <3>1. f = g
      BY <1>8
    <3> QED BY <3>1
  <2>2. Blind(Told(t, told), blind) = Told(t, f) /\ Blind(Told(t, true), blind) = Told(t, g)
    BY BlindIs
  <2> HIDE DEF f, g, blind
  <2> QED BY <1>3, <2>1, <2>2
<1>10. ASSUME call.touched = {}, Live(catalog) = Made
       PROVE  Normal(catalog, id) = Blind(Truth(t), call.skipped)
  <2> DEFINE g == [c \in DOMAIN t.cols |-> true[c] \ call.skipped]
  <2>1. \A a \in DOMAIN catalog.names : a \notin call.skipped
    <3> TAKE a \in DOMAIN catalog.names
    <3>1. catalog.names[a] \in Made /\ RecOf(catalog, catalog.names[a]).name = a
      BY <1>1, <1>10 DEF CatalogInv
    <3> QED BY <1>1, <3>1 DEF ListedInv
  <2>2. \A a : a \notin call.skipped => (a \in DOMAIN catalog.names <=> a \in Names(server))
    BY <1>5, <1>10 DEF OldNames
  <2>3. \A c \in DOMAIN t.cols : told[c] = {t.cols[c].ref} \cap DOMAIN catalog.names
    BY <1>6, <1>10 DEF RefLike
  <2>4. \A c \in DOMAIN t.cols : told[c] = g[c]
    <3> TAKE c \in DOMAIN t.cols
    <3>1. g[c] = ({t.cols[c].ref} \cap Names(server)) \ call.skipped
      BY <1>7
    <3> QED BY <2>1, <2>2, <2>3, <3>1
  <2>5. Told(t, told) = Told(t, g)
    <3> HIDE DEF g
    <3> QED BY <2>4, ToldSame
  <2>6. Blind(Told(t, true), call.skipped) = Told(t, g)
    BY BlindIs
  <2> HIDE DEF g
  <2> QED BY <1>3, <2>5, <2>6
<1> HIDE DEF blind
<1>11. /\ Blind(Normal(catalog, id), blind) = Blind(Truth(t), blind)
       /\ call.touched = {} /\ Live(catalog) = Made =>
            Normal(catalog, id) = Blind(Truth(t), call.skipped)
  BY <1>9, <1>10
<1> QED BY <1>11 DEF blind

-----------------------------------------------------------------------------
(* The theorems. *)

\* A step that changes nothing.
LEMMA StillKeepsInv ==
  ASSUME DiscoveryInv, UNCHANGED discoveryVars
  PROVE  DiscoveryInv'
<1>1. /\ config' = config /\ server' = server /\ catalog' = catalog /\ nextId' = nextId
      /\ call' = call
  BY DEF discoveryVars
<1>2. Made' = Made /\ Untouched' = Untouched /\ Names(server)' = Names(server)
  BY <1>1 DEF Made, Untouched
<1>3. config' \in Configs /\ IsSchema(server)' /\ CatalogInv' /\ CallInv' /\ ListedInv'
  BY <1>1, <1>2 DEF DiscoveryInv, CatalogInv, CallInv, ListedInv
<1>4. \A t : DraftLike(t)' = DraftLike(t)
  BY <1>1 DEF DraftLike, FksLike
<1>5. DraftInv'
  BY <1>1, <1>2, <1>4 DEF DiscoveryInv, DraftInv
<1>6. ASSUME NEW id, NEW t, RecordLike(id, t)
      PROVE  RecordLike(id, t)'
  <2>1. Evolved(t, t, call'.touched)
    BY EvolvedReflexive
  <2>2. \A c \in DOMAIN t.cols : PendingFor(id, c)' = PendingFor(id, c)
    BY <1>1 DEF PendingFor
  <2> QED BY <1>1, <1>6, <2>1, <2>2, RecordKept
<1>7. RecordInv'
  BY <1>1, <1>2, <1>6 DEF DiscoveryInv, RecordInv
<1>8. VerdictInv'
  <2>1. normalize(catalog)' = normalize(catalog)
    BY <1>1 DEF normalize, Normal, Target
  <2> QED BY <1>1, <2>1 DEF DiscoveryInv, VerdictInv
<1> QED BY <1>3, <1>5, <1>7, <1>8 DEF DiscoveryInv

\* What the parts of a call know of each other, whatever fails and whatever
\* another session does between two answers: the inductive invariant.
THEOREM DiscoveryInductiveInv == DiscoverySpec => []DiscoveryInv
<1>1. DiscoveryInit => DiscoveryInv
  BY DiscoveryInitInv
<1>2. DiscoveryInv /\ [DiscoveryNext]_discoveryVars => DiscoveryInv'
  <2> SUFFICES ASSUME DiscoveryInv, [DiscoveryNext]_discoveryVars
               PROVE  DiscoveryInv'
    OBVIOUS
  <2>1. CASE Ask
    BY <2>1, AskKeepsInv
  <2>2. CASE Read
    BY <2>2, ListKeepsInv, ColumnsKeepInv, IndexesKeepInv, ConstraintsKeepInv,
       KeysKeepInv, PartitionsKeepInv, FailKeepsInv DEF Read
  <2>3. CASE Resolve
    BY <2>3, ResolveKeepsInv
  <2>4. CASE Finish
    BY <2>4, FinishKeepsInv
  <2>5. CASE Others
    BY <2>5, SessionsKeepInv
  <2>6. CASE UNCHANGED discoveryVars
    BY <2>6, StillKeepsInv
  <2> QED BY <2>1, <2>2, <2>3, <2>4, <2>5, <2>6 DEF DiscoveryNext
<1> QED BY <1>1, <1>2, PTL DEF DiscoverySpec

\* Every table that a discovery could read and nobody changed has one record, which
\* says exactly what the server holds.
LEMMA FaithfulFollows == DiscoveryInv => Faithful
<1> DEFINE lost == call.skipped \cup call.touched
<1> SUFFICES ASSUME DiscoveryInv, call.step = "done", NoName \notin call.listed
             PROVE  /\ \A id \in Made : RecOf(catalog, id).name \in call.listed
                    /\ \A t \in {t \in server : t.name \in call.listed \ lost} :
                         \E id \in Made :
                           /\ Blind(Normal(catalog, id), lost \cup OldNames)
                                = Blind(Truth(t), lost \cup OldNames)
                           /\ \A other \in Made \ {id} : RecOf(catalog, other).name # t.name
  BY DEF Faithful, OldNames
<1>1. /\ CallInv /\ ListedInv
  BY DEF DiscoveryInv
<1>2. \A id \in Made : /\ RecOf(catalog, id).name \in call.listed
                       /\ \A other \in Made :
                            RecOf(catalog, other).name = RecOf(catalog, id).name
                              => other = id
  BY <1>1 DEF ListedInv
<1>3. Range(call.todo) = {}
  <2>1. call.todo = << >>
    BY <1>1 DEF CallInv
  <2> QED BY <2>1 DEF Range
<1>4. ASSUME NEW t \in server, t.name \in call.listed \ lost
      PROVE  \E id \in Made :
               /\ Blind(Normal(catalog, id), lost \cup OldNames)
                    = Blind(Truth(t), lost \cup OldNames)
               /\ \A other \in Made \ {id} : RecOf(catalog, other).name # t.name
  <2>1. PICK id \in Made : RecOf(catalog, id).name = t.name
    BY <1>1, <1>3, <1>4 DEF ListedInv
  <2>2. t \in Untouched
    BY <1>4 DEF Untouched
  <2>3. Blind(Normal(catalog, id), lost \cup OldNames) = Blind(Truth(t), lost \cup OldNames)
    BY <2>1, <2>2, RecordTold
  <2> HIDE DEF lost
  <2> QED BY <1>2, <2>1, <2>3
<1> QED BY <1>2, <1>4

\* Faithful, for every server that the program's DDL can make, of any size, and any
\* number of calls, failures and changes.
THEOREM DiscoveryFaithful == DiscoverySpec => []Faithful
  BY DiscoveryInductiveInv, FaithfulFollows, PTL

\* The records of a validate that nobody disturbed: one for each table that was
\* read, all different.
LEMMA WholeCatalogTold ==
  ASSUME DiscoveryInv, call.step = "done", call.kind = "validate",
         NoName \notin call.listed, call.touched = {}
  PROVE  normalize(catalog) =
           [x \in {Blind(Truth(t), call.skipped)
                     : t \in {t \in server : t.name \notin call.skipped}} |-> 1]
<1> DEFINE read == {t \in server : t.name \notin call.skipped}
           N(id) == Normal(catalog, id)
           T(t) == Blind(Truth(t), call.skipped)
           said == {N(id) : id \in Live(catalog)}
           there == {T(t) : t \in read}
           count(x) == Cardinality({id \in Live(catalog) : N(id) = x})
<1>1. CallInv /\ ListedInv /\ IsSchema(server)
  BY DEF DiscoveryInv
<1>2. Live(catalog) = Made
  BY <1>1 DEF CallInv
<1>3. Range(call.todo) = {}
  <2>1. call.todo = << >>
    BY <1>1 DEF CallInv
  <2> QED BY <2>1 DEF Range
<1>4. /\ \A id \in Made : /\ RecOf(catalog, id).name \in call.listed
                          /\ RecOf(catalog, id).name \notin call.skipped
                          /\ \A other \in Made :
                               RecOf(catalog, other).name = RecOf(catalog, id).name
                                 => other = id
      /\ \A n \in call.listed : n \in call.skipped \/ \E id \in Made : RecOf(catalog, id).name = n
      /\ Names(server) = call.listed
  BY <1>1, <1>3 DEF ListedInv
<1>5. \A id \in Made, t \in server : RecOf(catalog, id).name = t.name => N(id) = T(t)
  <2> SUFFICES ASSUME NEW id \in Made, NEW t \in server, RecOf(catalog, id).name = t.name
               PROVE  N(id) = T(t)
    OBVIOUS
  <2>1. t \in Untouched
    BY DEF Untouched
  <2> QED BY <1>2, <2>1, RecordTold
<1>6. \A id \in Made : N(id).name = RecOf(catalog, id).name
  <2> TAKE id \in Made
  <2>1. IsRecord(RecOf(catalog, id))
    BY DEF DiscoveryInv, CatalogInv, Made
  <2> QED BY <2>1, WithCols DEF Normal
<1> HIDE DEF N, T
<1>7. said = there
  <2>1. \A id \in Made : \E t \in read : N(id) = T(t)
    <3> TAKE id \in Made
    <3>1. PICK t \in server : t.name = RecOf(catalog, id).name
      BY <1>4 DEF Names
    <3> QED BY <1>4, <1>5, <3>1
  <2>2. \A t \in read : \E id \in Made : N(id) = T(t)
    <3> TAKE t \in read
    <3>1. t.name \in call.listed
      BY <1>4 DEF Names
    <3>2. PICK id \in Made : RecOf(catalog, id).name = t.name
      BY <1>4, <3>1
    <3> QED BY <1>5, <3>2
  <2> HIDE DEF read
  <2> QED BY <1>2, <2>1, <2>2
<1>8. \A x \in said : count(x) = 1
  <2> TAKE x \in said
  <2>1. PICK id \in Made : x = N(id)
    BY <1>2
  <2>2. {other \in Live(catalog) : N(other) = x} = {id}
    BY <1>2, <1>4, <1>6, <2>1
  <2> QED BY <2>2, FS_Singleton
<1>9. normalize(catalog) = [x \in said |-> count(x)]
  BY DEF normalize, N
<1> HIDE DEF said, there, count
<1>10. normalize(catalog) = [x \in there |-> 1]
  BY <1>7, <1>8, <1>9
<1> QED BY <1>10 DEF there, T

\* The verdict follows from what the records say.
LEMMA VerdictFollows == DiscoveryInv => VerdictTruthful
<1> SUFFICES ASSUME DiscoveryInv, call.step = "done", call.kind = "validate",
                    call.touched = {}
             PROVE  call.verdict = "true" <=>
                      /\ NoName \notin call.listed
                      /\ call.original =
                           [x \in {Blind(Truth(t), call.skipped)
                                     : t \in {t \in server : t.name \notin call.skipped}} |-> 1]
  BY DEF VerdictTruthful
<1>1. call.verdict = "true" <=>
        NoName \notin call.listed /\ call.original = normalize(catalog)
  BY DEF DiscoveryInv, VerdictInv
<1> QED BY <1>1, WholeCatalogTold

\* VerdictTruthful: validate_metadata() accepts just when the catalog was what the
\* server holds, without the tables that could not be read.
THEOREM VerdictsTruthful == DiscoverySpec => []VerdictTruthful
  BY DiscoveryInductiveInv, VerdictFollows, PTL

=============================================================================

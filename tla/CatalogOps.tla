----------------------------- MODULE CatalogOps -----------------------------
(***************************************************************************)
(* metadata::Catalog<T> (core/include/metadata/catalog.hpp) as a value.    *)
(* Every public method of the class takes its lock once and runs one map   *)
(* operation or one merge, so each method is one operator here and one     *)
(* atomic step of the modules that use it.                                 *)
(*                                                                         *)
(* A catalog is a record of the class's three members:                     *)
(*   slots     id -> [rec, pos], pos being the id's place in sampling      *)
(*   sampling  the ids as a sequence, for O(1) random picks                *)
(*   names     name -> id of the object that published that name last      *)
(* Places count from 1 (sampling_[i] is sampling[i + 1]).  A record is     *)
(* anything with a field "name": the modules that use the catalog choose   *)
(* the rest.                                                               *)
(***************************************************************************)
EXTENDS Naturals, Sequences, Functions

\* The reserved id: "no object" in a Ref, refused by insert().
NoId == 0

EmptyFcn == [x \in {} |-> x]

EmptyCatalog == [slots |-> EmptyFcn, sampling |-> << >>, names |-> EmptyFcn]

Put(f, k, v) == [x \in DOMAIN f \cup {k} |-> IF x = k THEN v ELSE f[x]]

Live(c) == DOMAIN c.slots

RecOf(c, id) == c.slots[id].rec

SnapshotIds(c) == {c.sampling[i] : i \in DOMAIN c.sampling}

CatalogSize(c) == Len(c.sampling)

-----------------------------------------------------------------------------
\* insert(): refuses id 0 and an id that is already there.
Insertable(c, id) == id # NoId /\ id \notin Live(c)

Inserted(c, id, rec) ==
  [slots    |-> Put(c.slots, id, [rec |-> rec, pos |-> Len(c.sampling) + 1]),
   sampling |-> Append(c.sampling, id),
   names    |-> Put(c.names, rec.name, id)]

\* Mutants: the entry stays; the entry goes whoever owns it.
KeepName(c, id) == c.names
DropAnyName(c, id) ==
  Restrict(c.names, DOMAIN c.names \ {RecOf(c, id).name})

\* The name index without the entry of id's current name, if id owns it.
NamesWithout(c, id) ==
  LET old == RecOf(c, id).name
  IN  IF old \in DOMAIN c.names /\ c.names[old] = id
      THEN Restrict(c.names, DOMAIN c.names \ {old})
      ELSE c.names

\* update(): rec is what the delta made of the current record.
Updated(c, id, rec) ==
  [slots    |-> Put(c.slots, id, [rec |-> rec, pos |-> c.slots[id].pos]),
   sampling |-> c.sampling,
   names    |-> IF rec.name # RecOf(c, id).name
                THEN Put(NamesWithout(c, id), rec.name, id)
                ELSE c.names]

\* Mutant of Erased: the moved id's slot does not learn its new place.
ErasedNoMove(c, id) ==
  LET last == Len(c.sampling)
  IN  [slots    |-> Restrict(c.slots, Live(c) \ {id}),
       sampling |-> SubSeq([c.sampling EXCEPT ![c.slots[id].pos] =
                              c.sampling[last]], 1, last - 1),
       names    |-> NamesWithout(c, id)]

\* erase(): the last id of sampling moves into the place that becomes free.
Erased(c, id) ==
  LET pos    == c.slots[id].pos
      last   == Len(c.sampling)
      lastId == c.sampling[last]
  IN  [slots    |-> Restrict(Put(c.slots, lastId,
                                 [rec |-> RecOf(c, lastId), pos |-> pos]),
                             Live(c) \ {id}),
       sampling |-> SubSeq([c.sampling EXCEPT ![pos] = lastId], 1, last - 1),
       names    |-> NamesWithout(c, id)]
=============================================================================

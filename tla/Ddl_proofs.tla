----------------------------- MODULE Ddl_proofs -----------------------------
(***************************************************************************)
(* Proofs about Ddl: for any number of workers, on both server families,   *)
(* with any limits, no reference dangles at rest, no limit is overshot by  *)
(* more than the other workers, the catalog holds the server's tables at   *)
(* rest, and the drift oracle accepts them unless a named race took place. *)
(*                                                                         *)
(* The first half is about the catalog alone (Inv); the second adds the    *)
(* server (DriftInv): ids, names and numbers have one owner, and the       *)
(* records of a table on both sides differ by what is still pending.       *)
(***************************************************************************)
EXTENDS Ddl, FiniteSetTheorems, TLAPS

-----------------------------------------------------------------------------
(* Types.  A job by its kind; "unref" is the sweep's second half.            *)

CreateJob  == [kind : {"create"}, id : Nat, step : {"sql", "publish", "recheck"},
               ref : Nat, parted : BOOLEAN, ranges : SUBSET Nat, says : Nat]
DropJob    == [kind : {"drop"}, id : Nat, step : {"sql", "publish", "sweep"},
               says : Nat]
AlterJob   == [kind : {"alter"}, id : Nat, step : {"sql", "publish"},
               drops : SUBSET Nat, widens : SUBSET Nat, adds : SUBSET Nat,
               says : Nat]
RenameJob  == [kind : {"rename"}, id : Nat, step : {"sql", "publish"}, to : Nat,
               says : Nat]
IndexJob   == [kind : {"index"}, id : Nat, step : {"sql", "publish"},
               index : Index, says : Nat]
NoIndexJob == [kind : {"unindex"}, id : Nat, step : {"sql", "publish"}, no : Nat,
               says : Nat]
RangeJob   == [kind : {"part"}, id : Nat, step : {"sql", "publish"}, base : Nat,
               says : Nat]
NoRangeJob == [kind : {"unpart"}, id : Nat, step : {"sql", "publish", "sweep"},
               base : Nat, says : Nat]
UnrefJob   == [kind : {"drop", "unpart"}, id : Nat, step : {"unref"},
               todo : SUBSET Nat]

AnyJob == {Idle} \cup CreateJob \cup DropJob \cup AlterJob \cup RenameJob
            \cup IndexJob \cup NoIndexJob \cup RangeJob \cup NoRangeJob
            \cup UnrefJob

CatalogType == /\ DOMAIN catalog \subseteq Nat
               /\ catalog \in [DOMAIN catalog -> CatalogRec]

TypeInv == /\ config \in Config /\ drawn \in Nat
           /\ job \in [Worker -> AnyJob] /\ CatalogType

LEMMA ConfigTyped ==
  ASSUME config \in Config
  PROVE  /\ Workers \in Nat \ {0} /\ Workers <= Cardinality(Worker)
         /\ NewCols \in Nat \ {0} /\ MaxClauses \in Nat
         /\ {MinTables, MaxTables, MaxParts, MaxDraws} \subseteq Nat
         /\ MinParts \in Nat \ {0}
         /\ Postgres \in BOOLEAN /\ FirstDraw \in Nat
<1>1. Cardinality(Worker) \in Nat
  BY DdlAssumption, FS_CardinalityType
<1>2. QED
  BY <1>1 DEF Config, Workers, NewCols, MaxClauses, MinTables, MaxTables, MinParts,
     MaxParts, MaxDraws, Postgres, FirstDraw

-----------------------------------------------------------------------------
(* The catalog as a function: what its operations do to a record.            *)

LEMMA PutTyped ==
  ASSUME CatalogType, NEW id \in Nat, NEW rec \in CatalogRec,
         catalog' = Put(catalog, id, rec)
  PROVE  /\ CatalogType' /\ DOMAIN catalog' = DOMAIN catalog \cup {id}
         /\ catalog'[id] = rec
         /\ \A t \in DOMAIN catalog : t # id => catalog'[t] = catalog[t]
BY DEF CatalogType, Put

LEMMA WithoutTyped ==
  ASSUME CatalogType, NEW id, catalog' = Without(catalog, id)
  PROVE  /\ CatalogType' /\ DOMAIN catalog' = DOMAIN catalog \ {id}
         /\ \A t \in DOMAIN catalog' : catalog'[t] = catalog[t]
BY DEF CatalogType, Without, Restrict

LEMMA UpdateTyped ==
  ASSUME CatalogType, NEW id, NEW rec, Update(id, rec),
         id \in DOMAIN catalog => rec \in CatalogRec
  PROVE  /\ CatalogType' /\ DOMAIN catalog' = DOMAIN catalog
         /\ id \in DOMAIN catalog => catalog'[id] = rec
         /\ \A t \in DOMAIN catalog : t # id => catalog'[t] = catalog[t]
BY DEF CatalogType, Update

\* n is r up to the reference.
SameBesides(n, r) ==
  /\ n.name = r.name /\ n.cols = r.cols /\ n.wide = r.wide /\ n.idx = r.idx
  /\ n.parted = r.parted /\ n.ranges = r.ranges

LEMMA RemovedReferences ==
  ASSUME CatalogType, NEW t, NEW id, RemoveReferences(t, id)
  PROVE  /\ CatalogType' /\ DOMAIN catalog' = DOMAIN catalog
         /\ \A s \in DOMAIN catalog :
              /\ catalog'[s].ref = IF s = t /\ catalog[s].ref = id THEN NoId
                                   ELSE catalog[s].ref
              /\ SameBesides(catalog'[s], catalog[s])
<1> DEFINE new == IF catalog[t].ref = id THEN [catalog[t] EXCEPT !.ref = NoId]
                  ELSE catalog[t]
<1>1. t \in DOMAIN catalog =>
        /\ new \in CatalogRec /\ SameBesides(new, catalog[t])
        /\ new.ref = IF catalog[t].ref = id THEN NoId ELSE catalog[t].ref
  BY DEF CatalogType, CatalogRec, NoId, SameBesides
<1>2. Update(t, new)
  BY DEF RemoveReferences
<1> HIDE DEF new
<1>3. \A s \in DOMAIN catalog : SameBesides(catalog[s], catalog[s])
  BY DEF SameBesides
<1>4. QED
  BY <1>1, <1>2, <1>3, UpdateTyped

-----------------------------------------------------------------------------
(* Jobs: what a worker's step tells of its job, and how a job goes on.       *)

LEMMA JobByStep ==
  ASSUME NEW j \in AnyJob
  PROVE  /\ j.step # "idle" => j # Idle /\ j.id \in Nat
         /\ j.step \in {"sql", "publish"} =>
              /\ j.kind = "create"  => j \in CreateJob
              /\ j.kind = "drop"    => j \in DropJob
              /\ j.kind = "alter"   => j \in AlterJob
              /\ j.kind = "rename"  => j \in RenameJob
              /\ j.kind = "index"   => j \in IndexJob
              /\ j.kind = "unindex" => j \in NoIndexJob
              /\ j.kind = "part"    => j \in RangeJob
              /\ j.kind = "unpart"  => j \in NoRangeJob
         /\ j.step = "recheck" => j \in CreateJob
         /\ j.step = "sweep"   => j \in DropJob \cup NoRangeJob
         /\ j.step = "unref"   => j \in UnrefJob
BY DEF AnyJob, Idle, CreateJob, DropJob, AlterJob, RenameJob, IndexJob, NoIndexJob,
   RangeJob, NoRangeJob, UnrefJob

\* n goes on with j: of what was decided, only a partition may be missing.
GoesOn(n, j) ==
  /\ n.kind = j.kind /\ n.id = j.id /\ n.says = j.says
  /\ j.kind = "create" =>
       n.ref = j.ref /\ n.parted = j.parted /\ n.ranges \subseteq j.ranges
  /\ j.kind = "alter" =>
       n.drops = j.drops /\ n.widens = j.widens /\ n.adds = j.adds
  /\ j.kind = "rename" => n.to = j.to
  /\ j.kind = "index" => n.index = j.index
  /\ j.kind = "unindex" => n.no = j.no
  /\ j.kind \in {"part", "unpart"} => n.base = j.base

LEMMA Published ==
  ASSUME NEW j \in AnyJob, j.step = "sql", j.kind # "create",
         NEW n, n = [j EXCEPT !.step = "publish"]
  PROVE  n \in AnyJob /\ n.step = "publish" /\ GoesOn(n, j)
<1>1. CASE j \in DropJob \cup AlterJob
  <2>1. j \in DropJob => n \in DropJob /\ n.step = "publish" /\ GoesOn(n, j)
    BY DEF GoesOn, DropJob
  <2>2. j \in AlterJob => n \in AlterJob /\ n.step = "publish" /\ GoesOn(n, j)
    BY DEF GoesOn, AlterJob
  <2>3. QED
    BY <1>1, <2>1, <2>2 DEF AnyJob
<1>2. CASE j \in RenameJob \cup IndexJob \cup NoIndexJob
  <2>1. j \in RenameJob => n \in RenameJob /\ n.step = "publish" /\ GoesOn(n, j)
    BY DEF GoesOn, RenameJob
  <2>2. j \in IndexJob => n \in IndexJob /\ n.step = "publish" /\ GoesOn(n, j)
    BY DEF GoesOn, IndexJob
  <2>3. j \in NoIndexJob => n \in NoIndexJob /\ n.step = "publish" /\ GoesOn(n, j)
    BY DEF GoesOn, NoIndexJob
  <2>4. QED
    BY <1>2, <2>1, <2>2, <2>3 DEF AnyJob
<1>3. CASE j \in RangeJob \cup NoRangeJob
  <2>1. j \in RangeJob => n \in RangeJob /\ n.step = "publish" /\ GoesOn(n, j)
    BY DEF GoesOn, RangeJob
  <2>2. j \in NoRangeJob => n \in NoRangeJob /\ n.step = "publish" /\ GoesOn(n, j)
    BY DEF GoesOn, NoRangeJob
  <2>3. QED
    BY <1>3, <2>1, <2>2 DEF AnyJob
<1>4. j \in DropJob \cup AlterJob \cup RenameJob \cup IndexJob
        \cup NoIndexJob \cup RangeJob \cup NoRangeJob
  BY DEF AnyJob, Idle, CreateJob, DropJob, AlterJob, RenameJob, IndexJob, NoIndexJob,
     RangeJob, NoRangeJob, UnrefJob
<1>5. QED
  BY <1>1, <1>2, <1>3, <1>4

LEMMA CreatePublished ==
  \A j \in CreateJob : \A made \in SUBSET j.ranges : \A n :
    n = [j EXCEPT !.step = "publish", !.ranges = made]
      => n \in CreateJob /\ n.step = "publish" /\ GoesOn(n, j)
<1> SUFFICES ASSUME NEW j \in CreateJob, NEW made \in SUBSET j.ranges, NEW n,
                    n = [j EXCEPT !.step = "publish", !.ranges = made]
             PROVE  n \in CreateJob /\ n.step = "publish" /\ GoesOn(n, j)
  OBVIOUS
<1>1. n \in CreateJob /\ n.step = "publish"
  BY DEF CreateJob
<1>2. /\ n.kind = j.kind /\ n.id = j.id /\ n.says = j.says /\ n.ref = j.ref
      /\ n.parted = j.parted /\ n.ranges = made /\ j.kind = "create"
  BY DEF CreateJob
<1> QED BY <1>1, <1>2 DEF GoesOn

LEMMA JobReplaced ==
  ASSUME job \in [Worker -> AnyJob], NEW w \in Worker, NEW n \in AnyJob,
         job' = [job EXCEPT ![w] = n]
  PROVE  /\ job' \in [Worker -> AnyJob] /\ job'[w] = n
         /\ \A v \in Worker \ {w} : job'[v] = job[v]
OBVIOUS

-----------------------------------------------------------------------------
(* A step on the server: the catalog stays, the job ends or goes on.         *)

SqlOf(w) == \/ Refused(w) \/ CreateSql(w) \/ DropSql(w) \/ AlterSql(w)
            \/ RenameSql(w) \/ CreateIndexSql(w) \/ DropIndexSql(w)
            \/ CreatePartitionSql(w) \/ DropPartitionSql(w)

ServerStep(w) ==
  /\ job[w].step = "sql"
  /\ UNCHANGED << config, catalog, drawn >> /\ clashes \subseteq clashes'
  /\ job' \in [Worker -> AnyJob]
  /\ \A v \in Worker \ {w} : job'[v] = job[v]
  /\ \/ job'[w] = Idle
     \/ job'[w].step = "publish" /\ GoesOn(job'[w], job[w])

LEMMA SqlIsServerStep ==
  ASSUME TypeInv, NEW w \in Worker, SqlOf(w)
  PROVE  ServerStep(w)
<1>0. job \in [Worker -> AnyJob] /\ job[w] \in AnyJob
  BY DEF TypeInv
<1>1. ASSUME job[w].step = "sql", job' = [job EXCEPT ![w] = Idle],
             UNCHANGED << config, catalog, drawn >>, clashes \subseteq clashes'
      PROVE  ServerStep(w)
  BY <1>0, <1>1, JobReplaced DEF ServerStep, AnyJob
<1>2. ASSUME job[w].step = "sql", job[w].kind # "create", Succeeds(w),
             UNCHANGED << config, catalog, drawn >>, clashes \subseteq clashes'
      PROVE  ServerStep(w)
  <2> DEFINE n == [job[w] EXCEPT !.step = "publish"]
  <2>1. n \in AnyJob /\ n.step = "publish" /\ GoesOn(n, job[w])
    BY <1>0, <1>2, Published
  <2>2. job' = [job EXCEPT ![w] = n]
    BY <1>0, <1>2, Zenon DEF Succeeds, Goes
  <2> HIDE DEF n
  <2>3. QED
    BY <1>0, <1>2, <2>1, <2>2, JobReplaced DEF ServerStep
<1>3. CASE Refused(w)
  BY <1>1, <1>3 DEF Refused, ServerOnly
<1>4. CASE CreateSql(w)
  <2>1. job[w].step = "sql" /\ job[w].kind = "create"
    BY <1>4 DEF CreateSql, Sends
  <2>2. job[w] \in CreateJob
    BY <1>0, <2>1, JobByStep
  <2>3. /\ UNCHANGED << config, catalog, drawn >>
        /\ \E made \in IF Postgres THEN SUBSET job[w].ranges ELSE {job[w].ranges} :
             /\ IF made = {} /\ job[w].ranges # {} THEN HalfDone("empty table")
                ELSE UNCHANGED clashes
             /\ job' = [job EXCEPT ![w] =
                          [@ EXCEPT !.step = "publish", !.ranges = made]]
    BY <1>4, Zenon DEF CreateSql
  <2>4. PICK made \in SUBSET job[w].ranges :
             /\ IF made = {} /\ job[w].ranges # {} THEN HalfDone("empty table")
                ELSE UNCHANGED clashes
             /\ job' = [job EXCEPT ![w] =
                          [@ EXCEPT !.step = "publish", !.ranges = made]]
    BY <2>3, Zenon
  <2>5. PICK n : n = [job[w] EXCEPT !.step = "publish", !.ranges = made]
    OBVIOUS
  <2>6. n \in CreateJob /\ n.step = "publish" /\ GoesOn(n, job[w])
    BY <2>2, <2>5, CreatePublished, Zenon
  <2>7. job' = [job EXCEPT ![w] = n]
    BY <1>0, <2>4, <2>5, Zenon
  <2>8. clashes \subseteq clashes'
    BY <2>4 DEF HalfDone
  <2>9. QED
    BY <1>0, <2>1, <2>3, <2>6, <2>7, <2>8, JobReplaced DEF ServerStep, AnyJob
<1>5. CASE DropSql(w)
  BY <1>2, <1>5 DEF DropSql, Sends, ServerOnly
<1>6. CASE AlterSql(w)
  <2>1. job[w].step = "sql" /\ job[w].kind = "alter" /\ Succeeds(w) /\ ServerOnly
    BY <1>6, Zenon DEF AlterSql, Sends
  <2>2. QED
    BY <1>2, <2>1 DEF ServerOnly
<1>7. CASE RenameSql(w)
  <2>1. job[w].step = "sql" /\ job[w].kind = "rename" /\ Succeeds(w) /\ ServerOnly
    BY <1>7, Zenon DEF RenameSql, Sends
  <2>2. QED
    BY <1>2, <2>1 DEF ServerOnly
<1>8. CASE CreateIndexSql(w)
  <2>1. /\ job[w].step = "sql" /\ job[w].kind = "index"
        /\ UNCHANGED << config, catalog, drawn >>
        /\ \/ Succeeds(w) /\ UNCHANGED clashes
           \/ job' = [job EXCEPT ![w] = Idle] /\ HalfDone("invalid index")
    BY <1>8, Zenon DEF CreateIndexSql, Sends
  <2>2. clashes \subseteq clashes'
    BY <2>1 DEF HalfDone
  <2>3. QED
    BY <1>1, <1>2, <2>1, <2>2
<1>9. CASE DropIndexSql(w)
  <2>1. job[w].step = "sql" /\ job[w].kind = "unindex" /\ Succeeds(w) /\ ServerOnly
    BY <1>9, Zenon DEF DropIndexSql, Sends
  <2>2. QED
    BY <1>2, <2>1 DEF ServerOnly
<1>10. CASE CreatePartitionSql(w)
  <2>1. job[w].step = "sql" /\ job[w].kind = "part" /\ Succeeds(w) /\ ServerOnly
    BY <1>10, Zenon DEF CreatePartitionSql, Sends
  <2>2. QED
    BY <1>2, <2>1 DEF ServerOnly
<1>11. CASE DropPartitionSql(w)
  <2>1. job[w].step = "sql" /\ job[w].kind = "unpart" /\ Succeeds(w) /\ ServerOnly
    BY <1>11, Zenon DEF DropPartitionSql, Sends
  <2>2. QED
    BY <1>2, <2>1 DEF ServerOnly
<1>12. QED
  BY <1>3, <1>4, <1>5, <1>6, <1>7, <1>8, <1>9, <1>10, <1>11 DEF SqlOf

-----------------------------------------------------------------------------
(* Pick: what is known of a job when it is chosen.                           *)

\* The table a job's SQL says the name of.
Aim(p) == IF p.kind = "create" THEN p.ref ELSE p.id

\* What the snapshot told the worker of its job p.
Chosen(p) ==
  /\ p.says = IF Aim(p) = NoId THEN NoId ELSE catalog[Aim(p)].name
  /\ p.kind = "create" =>
       /\ BelowLimit /\ p.id = drawn + 1 /\ p.ref \in DOMAIN catalog \cup {NoId}
       /\ p.ranges \subseteq 0 .. MaxParts
       /\ IsFiniteSet(p.ranges) /\ Cardinality(p.ranges) <= MaxParts
       /\ p.parted <=> p.ranges # {}
  /\ p.kind # "create" => p.id \in DOMAIN catalog
  /\ p.kind = "alter" =>
       /\ IsFiniteSet(p.adds) /\ \A c \in p.adds : c > drawn
       /\ p.drops \cup p.widens \subseteq catalog[p.id].cols
       /\ p.drops \cap p.widens = {}
  /\ p.kind = "alter" /\ p.drops # {} => MayDrop(catalog[p.id].cols, p.drops)
  /\ p.kind = "rename" => p.to = drawn + 1
  /\ p.kind = "index" => p.index.no = drawn + 1 /\ p.index.on # {}
  /\ p.kind = "unindex" => \E x \in catalog[p.id].idx : x.no = p.no
  /\ p.kind = "part" =>
       /\ Cardinality(catalog[p.id].ranges) <= MaxParts - 1
       /\ catalog[p.id].parted /\ p.base = drawn + 1
  /\ p.kind = "unpart" =>
       /\ p.base \in catalog[p.id].ranges
       /\ Cardinality(catalog[p.id].ranges) >= 2

\* What it draws for it: d numbers.
Drawing(p, d) ==
  /\ d \in Nat /\ (p.kind \in {"create", "rename", "index", "part"} => d = 1)
  /\ p.kind = "alter" => \A c \in p.adds : c <= drawn + d

LEMMA NewTyped ==
  ASSUME drawn \in Nat, NEW n \in Nat
  PROVE  New(n) \subseteq Nat /\ IsFiniteSet(New(n)) /\ Cardinality(New(n)) \in Nat
<1>1. IsFiniteSet(New(n))
  BY FS_Interval DEF New
<1>2. QED
  BY <1>1, FS_CardinalityType DEF New

\* p is j with the name it says: nothing that clashes tells them apart.
Alike(p, j) == /\ p.kind = j.kind /\ p.id = j.id
               /\ p.kind = "create" => p.ref = j.ref
               /\ p.kind = "alter" => p.drops = j.drops
               /\ p.kind = "index" => p.index = j.index

LEMMA SaysTyped ==
  ASSUME CatalogType, NEW j,
         IF j.kind = "create" THEN j.ref \in DOMAIN catalog \cup {NoId}
         ELSE j.id \in DOMAIN catalog
  PROVE  /\ Says(j) \in Nat
         /\ Says(j) = IF Aim(j) = NoId THEN NoId ELSE catalog[Aim(j)].name
BY DEF CatalogType, CatalogRec, Says, NoId, Aim

LEMMA NewOne ==
  ASSUME drawn \in Nat, NEW n \in New(1)
  PROVE  n \in Nat /\ n = drawn + 1
BY DEF New

LEMMA CreateChosen ==
  ASSUME TypeInv, NEW j \in CreateJobs, NEW p, p = Put(j, "says", Says(j))
  PROVE  p \in CreateJob /\ p.step = "sql" /\ Chosen(p) /\ Drawing(p, Draws(j))
         /\ Alike(p, j)
<1>1. /\ j \in [kind : {"create"}, id : New(1), step : {"sql"},
                ref : DOMAIN catalog \cup {NoId}, parted : BOOLEAN,
                ranges : {0 .. n - 1 : n \in MinParts .. MaxParts} \cup {{}}]
      /\ BelowLimit /\ (j.parted <=> j.ranges # {})
  BY DEF CreateJobs
<1>2. /\ DOMAIN j = {"kind", "id", "step", "ref", "parted", "ranges"}
      /\ j = [kind |-> j.kind, id |-> j.id, step |-> j.step, ref |-> j.ref,
              parted |-> j.parted, ranges |-> j.ranges]
      /\ j.kind = "create" /\ j.id \in New(1) /\ j.step = "sql"
      /\ j.ref \in DOMAIN catalog \cup {NoId} /\ j.parted \in BOOLEAN
      /\ j.ranges \in {0 .. n - 1 : n \in MinParts .. MaxParts} \cup {{}}
  BY <1>1
<1>3. /\ Says(j) \in Nat
      /\ Says(j) = IF Aim(j) = NoId THEN NoId ELSE catalog[Aim(j)].name
  BY <1>2, SaysTyped DEF TypeInv
<1>4. j.id = drawn + 1 /\ j.id \in Nat
  BY <1>2, NewOne DEF TypeInv
<1>5. MinParts \in Nat /\ MaxParts \in Nat
  BY ConfigTyped DEF TypeInv
<1>6. /\ j.ranges \subseteq Nat /\ IsFiniteSet(j.ranges)
      /\ Cardinality(j.ranges) <= MaxParts /\ j.ranges \subseteq 0 .. MaxParts
  <2>1. CASE j.ranges = {}
    BY <2>1, <1>5, FS_EmptySet
  <2>2. CASE j.ranges # {}
    <3>1. PICK n \in MinParts .. MaxParts : j.ranges = 0 .. n - 1
      BY <1>2, <2>2
    <3>2. n \in Nat /\ n - 1 \in Int /\ n <= MaxParts /\ 0 .. n - 1 \subseteq Nat
          /\ 0 .. n - 1 \subseteq 0 .. MaxParts
      BY <1>5, <3>1
    <3>3. /\ IsFiniteSet(0 .. n - 1)
          /\ Cardinality(0 .. n - 1) = IF 0 > n - 1 THEN 0 ELSE n - 1 - 0 + 1
      BY <3>2, FS_Interval
    <3>4. QED
      BY <1>5, <3>1, <3>2, <3>3
  <2>3. QED
    BY <2>1, <2>2
<1>7. /\ p.kind = "create" /\ p.id = j.id /\ p.step = "sql" /\ p.ref = j.ref
      /\ p.parted = j.parted /\ p.ranges = j.ranges /\ p.says = Says(j)
      /\ p = [kind |-> j.kind, id |-> j.id, step |-> j.step, ref |-> j.ref,
              parted |-> j.parted, ranges |-> j.ranges, says |-> Says(j)]
  BY <1>2 DEF Put
<1>8. j.ref \in Nat
  BY <1>2 DEF TypeInv, CatalogType, NoId
<1>9. p \in CreateJob
  BY <1>2, <1>3, <1>4, <1>6, <1>7, <1>8 DEF CreateJob
<1>10. Draws(j) = 1 /\ Alike(p, j) /\ Aim(p) = Aim(j)
  BY <1>2, <1>7 DEF Draws, Alike, Aim
<1>11. Chosen(p)
  BY <1>1, <1>2, <1>3, <1>4, <1>6, <1>7, <1>10 DEF Chosen
<1>12. QED
  BY <1>7, <1>9, <1>10, <1>11 DEF Drawing

LEMMA AlterChosen ==
  ASSUME TypeInv, NEW j \in AlterJobs, NEW p, p = Put(j, "says", Says(j))
  PROVE  p \in AlterJob /\ p.step = "sql" /\ Chosen(p) /\ Drawing(p, Draws(j))
         /\ Alike(p, j)
<1>1. PICK id \in DOMAIN catalog :
        LET snap == catalog[id]
            notFk == snap.cols \ (IF snap.ref = NoId THEN {} ELSE {FkCol})
        IN  /\ j \in [kind : {"alter"}, id : {id}, step : {"sql"},
                      drops : SUBSET (IF Postgres THEN snap.cols ELSE notFk),
                      widens : SUBSET (notFk \ (snap.wide \cup {PkCol})),
                      adds : {New(n) : n \in 0 .. MaxClauses}]
            /\ j.drops # {} => MayDrop(snap.cols, j.drops)
            /\ j.drops \cap j.widens = {}
  BY DEF AlterJobs
<1>2. /\ DOMAIN j = {"kind", "id", "step", "drops", "widens", "adds"}
      /\ j = [kind |-> j.kind, id |-> j.id, step |-> j.step, drops |-> j.drops,
              widens |-> j.widens, adds |-> j.adds]
      /\ j.kind = "alter" /\ j.id = id /\ j.step = "sql"
      /\ j.drops \subseteq catalog[id].cols /\ j.widens \subseteq catalog[id].cols
      /\ j.adds \in {New(n) : n \in 0 .. MaxClauses}
  BY <1>1
<1>3. /\ Says(j) \in Nat
      /\ Says(j) = IF Aim(j) = NoId THEN NoId ELSE catalog[Aim(j)].name
  BY <1>2, SaysTyped DEF TypeInv
<1>4. id \in Nat /\ catalog[id].cols \subseteq Nat
  BY DEF TypeInv, CatalogType, CatalogRec
<1>5. /\ j.adds \subseteq Nat /\ IsFiniteSet(j.adds) /\ Cardinality(j.adds) \in Nat
      /\ \A c \in j.adds : c > drawn /\ c <= drawn + Cardinality(j.adds)
  <2>1. PICK n \in 0 .. MaxClauses : j.adds = New(n)
    BY <1>2
  <2>2. n \in Nat /\ drawn \in Nat
    BY ConfigTyped DEF TypeInv
  <2>3. /\ IsFiniteSet(drawn + 1 .. drawn + n)
        /\ Cardinality(drawn + 1 .. drawn + n) =
             IF drawn + 1 > drawn + n THEN 0 ELSE drawn + n - (drawn + 1) + 1
    BY <2>2, FS_Interval
  <2>4. Cardinality(New(n)) = n
    BY <2>2, <2>3 DEF New
  <2>5. \A c \in New(n) : c > drawn /\ c <= drawn + n
    BY <2>2 DEF New
  <2>6. QED
    BY <2>1, <2>2, <2>4, <2>5, NewTyped DEF TypeInv
<1>6. /\ p.kind = "alter" /\ p.id = id /\ p.step = "sql" /\ p.drops = j.drops
      /\ p.widens = j.widens /\ p.adds = j.adds /\ p.says = Says(j)
      /\ p = [kind |-> j.kind, id |-> j.id, step |-> j.step, drops |-> j.drops,
              widens |-> j.widens, adds |-> j.adds, says |-> Says(j)]
  BY <1>2 DEF Put
<1>7. p \in AlterJob
  BY <1>2, <1>3, <1>4, <1>5, <1>6 DEF AlterJob
<1>8. /\ Alike(p, j) /\ Aim(p) = Aim(j)
  BY <1>2, <1>6 DEF Alike, Aim
<1>9. Chosen(p)
  BY <1>1, <1>2, <1>3, <1>5, <1>6, <1>8 DEF Chosen
<1>10. Drawing(p, Draws(j))
  BY <1>2, <1>5, <1>6 DEF Draws, Drawing
<1>11. QED
  BY <1>6, <1>7, <1>8, <1>9, <1>10

\* Jobs of the kinds that say no more than a table and one number or index.
LEMMA DropChosen ==
  ASSUME TypeInv, NEW j \in DropJobs, NEW p, p = Put(j, "says", Says(j))
  PROVE  p \in DropJob /\ p.step = "sql" /\ Chosen(p) /\ Drawing(p, Draws(j))
         /\ Alike(p, j)
<1>1. /\ DOMAIN j = {"kind", "id", "step"} /\ j.kind = "drop" /\ j.step = "sql"
      /\ j = [kind |-> j.kind, id |-> j.id, step |-> j.step]
      /\ j.id \in DOMAIN catalog
  BY DEF DropJobs, Job
<1>2. /\ Says(j) \in Nat /\ j.id \in Nat
      /\ Says(j) = IF Aim(j) = NoId THEN NoId ELSE catalog[Aim(j)].name
  BY <1>1, SaysTyped DEF TypeInv, CatalogType
<1>3. /\ p.kind = "drop" /\ p.id = j.id /\ p.step = "sql" /\ p.says = Says(j)
      /\ p = [kind |-> j.kind, id |-> j.id, step |-> j.step, says |-> Says(j)]
  BY <1>1 DEF Put
<1>4. Alike(p, j) /\ Aim(p) = Aim(j)
  BY <1>1, <1>3 DEF Alike, Aim
<1>5. QED
  BY <1>1, <1>2, <1>3, <1>4 DEF Chosen, Draws, Drawing, DropJob

LEMMA RenameChosen ==
  ASSUME TypeInv, NEW j \in RenameJobs, NEW p, p = Put(j, "says", Says(j))
  PROVE  p \in RenameJob /\ p.step = "sql" /\ Chosen(p) /\ Drawing(p, Draws(j))
         /\ Alike(p, j)
<1>1. /\ DOMAIN j = {"kind", "id", "step", "to"} /\ j.kind = "rename"
      /\ j.step = "sql" /\ j.id \in DOMAIN catalog /\ j.to \in New(1)
      /\ j = [kind |-> j.kind, id |-> j.id, step |-> j.step, to |-> j.to]
  BY DEF RenameJobs
<1>2. /\ Says(j) \in Nat /\ j.id \in Nat /\ j.to \in Nat /\ j.to = drawn + 1
      /\ Says(j) = IF Aim(j) = NoId THEN NoId ELSE catalog[Aim(j)].name
  BY <1>1, SaysTyped, NewOne DEF TypeInv, CatalogType
<1>3. /\ p.kind = "rename" /\ p.id = j.id /\ p.step = "sql" /\ p.says = Says(j)
      /\ p.to = j.to
      /\ p = [kind |-> j.kind, id |-> j.id, step |-> j.step, to |-> j.to,
              says |-> Says(j)]
  BY <1>1 DEF Put
<1>4. Alike(p, j) /\ Aim(p) = Aim(j)
  BY <1>1, <1>3 DEF Alike, Aim
<1>5. QED
  BY <1>1, <1>2, <1>3, <1>4 DEF Chosen, Draws, Drawing, RenameJob

LEMMA IndexChosen ==
  ASSUME TypeInv, NEW j \in CreateIndexJobs, NEW p, p = Put(j, "says", Says(j))
  PROVE  p \in IndexJob /\ p.step = "sql" /\ Chosen(p) /\ Drawing(p, Draws(j))
         /\ Alike(p, j)
<1>1. PICK id \in DOMAIN catalog :
        j \in [kind : {"index"}, id : {id}, step : {"sql"},
               index : [no : New(1),
                        on : LET cols == catalog[id].cols
                             IN {S \in (SUBSET cols) \ {{}} :
                                   S # cols \/ Cardinality(S) = 1}]]
  BY DEF CreateIndexJobs
<1>2. /\ DOMAIN j = {"kind", "id", "step", "index"} /\ j.kind = "index"
      /\ j.step = "sql" /\ j.id = id
      /\ j.index \in [no : New(1), on : SUBSET catalog[id].cols]
      /\ j.index.on # {} /\ j.index.no \in New(1)
      /\ j = [kind |-> j.kind, id |-> j.id, step |-> j.step, index |-> j.index]
  BY <1>1
<1>3. /\ Says(j) \in Nat /\ j.id \in Nat /\ New(1) \subseteq Nat
      /\ Says(j) = IF Aim(j) = NoId THEN NoId ELSE catalog[Aim(j)].name
      /\ catalog[id].cols \subseteq Nat /\ j.index.no = drawn + 1
  BY <1>2, SaysTyped, NewTyped, NewOne DEF TypeInv, CatalogType, CatalogRec
<1>4. j.index \in Index
  BY <1>2, <1>3 DEF Index
<1>5. /\ p.kind = "index" /\ p.id = j.id /\ p.step = "sql" /\ p.says = Says(j)
      /\ p.index = j.index
      /\ p = [kind |-> j.kind, id |-> j.id, step |-> j.step, index |-> j.index,
              says |-> Says(j)]
  BY <1>2 DEF Put
<1>6. p \in IndexJob
  BY <1>2, <1>3, <1>4, <1>5 DEF IndexJob
<1>7. Alike(p, j) /\ Aim(p) = Aim(j)
  BY <1>2, <1>5 DEF Alike, Aim
<1>8. QED
  BY <1>2, <1>3, <1>5, <1>6, <1>7 DEF Chosen, Draws, Drawing

LEMMA NoIndexChosen ==
  ASSUME TypeInv, NEW j \in DropIndexJobs, NEW p, p = Put(j, "says", Says(j))
  PROVE  p \in NoIndexJob /\ p.step = "sql" /\ Chosen(p) /\ Drawing(p, Draws(j))
         /\ Alike(p, j)
<1>1. PICK id \in DOMAIN catalog :
        j \in [kind : {"unindex"}, id : {id}, step : {"sql"},
               no : {x.no : x \in catalog[id].idx}]
  BY DEF DropIndexJobs
<1>2. /\ DOMAIN j = {"kind", "id", "step", "no"} /\ j.kind = "unindex"
      /\ j.step = "sql" /\ j.id = id /\ j.no \in {x.no : x \in catalog[id].idx}
      /\ j = [kind |-> j.kind, id |-> j.id, step |-> j.step, no |-> j.no]
  BY <1>1
<1>3. /\ Says(j) \in Nat /\ j.id \in Nat /\ catalog[id].idx \subseteq Index
      /\ Says(j) = IF Aim(j) = NoId THEN NoId ELSE catalog[Aim(j)].name
  BY <1>2, SaysTyped DEF TypeInv, CatalogType, CatalogRec
<1>4. j.no \in Nat
  BY <1>2, <1>3 DEF Index
<1>5. /\ p.kind = "unindex" /\ p.id = j.id /\ p.step = "sql" /\ p.says = Says(j)
      /\ p.no = j.no
      /\ p = [kind |-> j.kind, id |-> j.id, step |-> j.step, no |-> j.no,
              says |-> Says(j)]
  BY <1>2 DEF Put
<1>6. Alike(p, j) /\ Aim(p) = Aim(j)
  BY <1>2, <1>5 DEF Alike, Aim
<1>7. QED
  BY <1>2, <1>3, <1>4, <1>5, <1>6 DEF Chosen, Draws, Drawing, NoIndexJob

LEMMA RangeChosen ==
  ASSUME TypeInv, NEW j \in CreatePartitionJobs, NEW p, p = Put(j, "says", Says(j))
  PROVE  p \in RangeJob /\ p.step = "sql" /\ Chosen(p) /\ Drawing(p, Draws(j))
         /\ Alike(p, j)
<1>1. /\ DOMAIN j = {"kind", "id", "step", "base"} /\ j.kind = "part"
      /\ j.step = "sql" /\ j.id \in Partitioned /\ j.base \in New(1)
      /\ j = [kind |-> j.kind, id |-> j.id, step |-> j.step, base |-> j.base]
  BY DEF CreatePartitionJobs
<1>2. /\ j.id \in DOMAIN catalog /\ Cardinality(catalog[j.id].ranges) <= MaxParts - 1
      /\ catalog[j.id].parted
  BY <1>1, ConfigTyped DEF Partitioned, TypeInv
<1>3. /\ Says(j) \in Nat /\ j.id \in Nat /\ j.base \in Nat /\ j.base = drawn + 1
      /\ Says(j) = IF Aim(j) = NoId THEN NoId ELSE catalog[Aim(j)].name
  BY <1>1, <1>2, SaysTyped, NewOne DEF TypeInv, CatalogType
<1>4. /\ p.kind = "part" /\ p.id = j.id /\ p.step = "sql" /\ p.says = Says(j)
      /\ p.base = j.base
      /\ p = [kind |-> j.kind, id |-> j.id, step |-> j.step, base |-> j.base,
              says |-> Says(j)]
  BY <1>1 DEF Put
<1>5. Alike(p, j) /\ Aim(p) = Aim(j)
  BY <1>1, <1>4 DEF Alike, Aim
<1>6. QED
  BY <1>1, <1>2, <1>3, <1>4, <1>5 DEF Chosen, Draws, Drawing, RangeJob

LEMMA NoRangeChosen ==
  ASSUME TypeInv, NEW j \in DropPartitionJobs, NEW p, p = Put(j, "says", Says(j))
  PROVE  p \in NoRangeJob /\ p.step = "sql" /\ Chosen(p) /\ Drawing(p, Draws(j))
         /\ Alike(p, j)
<1>1. PICK id \in Partitioned :
        j \in [kind : {"unpart"}, id : {id}, step : {"sql"},
               base : catalog[id].ranges]
  BY DEF DropPartitionJobs
<1>2. /\ DOMAIN j = {"kind", "id", "step", "base"} /\ j.kind = "unpart"
      /\ j.step = "sql" /\ j.id = id /\ j.base \in catalog[id].ranges
      /\ id \in DOMAIN catalog
      /\ j = [kind |-> j.kind, id |-> j.id, step |-> j.step, base |-> j.base]
  BY <1>1 DEF Partitioned
<1>3. /\ Says(j) \in Nat /\ j.id \in Nat /\ j.base \in Nat
      /\ Says(j) = IF Aim(j) = NoId THEN NoId ELSE catalog[Aim(j)].name
  BY <1>2, SaysTyped DEF TypeInv, CatalogType, CatalogRec
<1>4. /\ p.kind = "unpart" /\ p.id = j.id /\ p.step = "sql" /\ p.says = Says(j)
      /\ p.base = j.base
      /\ p = [kind |-> j.kind, id |-> j.id, step |-> j.step, base |-> j.base,
              says |-> Says(j)]
  BY <1>2 DEF Put
<1>5. Alike(p, j) /\ Aim(p) = Aim(j)
  BY <1>2, <1>4 DEF Alike, Aim
<1>6. Cardinality(catalog[id].ranges) >= 2
  <2>1. MinParts \in Nat \ {0} /\ MaxParts \in Nat
    BY ConfigTyped DEF TypeInv
  <2>2. Cardinality(catalog[id].ranges) \in MinParts + 1 .. MaxParts - 1
    BY <1>1 DEF Partitioned
  <2>3. QED
    BY <2>1, <2>2
<1>7. QED
  BY <1>2, <1>3, <1>4, <1>5, <1>6 DEF Chosen, Draws, Drawing, NoRangeJob

LEMMA JobsChosen ==
  ASSUME TypeInv, NEW j \in Jobs, NEW p, p = Put(j, "says", Says(j))
  PROVE  p \in AnyJob /\ p.step = "sql" /\ Chosen(p) /\ Drawing(p, Draws(j))
         /\ Alike(p, j)
<1>1. j \in CreateJobs \cup DropJobs \cup AlterJobs \cup RenameJobs
        \cup CreateIndexJobs \cup DropIndexJobs \cup CreatePartitionJobs
        \cup DropPartitionJobs
  BY DEF Jobs, Offered
<1>2. CASE j \in CreateJobs
  BY <1>2, CreateChosen DEF AnyJob
<1>3. CASE j \in DropJobs
  BY <1>3, DropChosen DEF AnyJob
<1>4. CASE j \in AlterJobs
  BY <1>4, AlterChosen DEF AnyJob
<1>5. CASE j \in RenameJobs
  BY <1>5, RenameChosen DEF AnyJob
<1>6. CASE j \in CreateIndexJobs
  BY <1>6, IndexChosen DEF AnyJob
<1>7. CASE j \in DropIndexJobs
  BY <1>7, NoIndexChosen DEF AnyJob
<1>8. CASE j \in CreatePartitionJobs
  BY <1>8, RangeChosen DEF AnyJob
<1>9. CASE j \in DropPartitionJobs
  BY <1>9, NoRangeChosen DEF AnyJob
<1>10. QED
  BY <1>1, <1>2, <1>3, <1>4, <1>5, <1>6, <1>7, <1>8, <1>9

-----------------------------------------------------------------------------
(* The publishes: typed, and what they do to the record under an id.         *)

LEMMA JobGoes ==
  ASSUME job \in [Worker -> AnyJob], NEW w \in Worker, NEW s, Goes(w, s)
  PROVE  /\ job'[w] = [job[w] EXCEPT !.step = s]
         /\ \A v \in Worker \ {w} : job'[v] = job[v]
         /\ job' = [job EXCEPT ![w] = [job[w] EXCEPT !.step = s]]
<1>1. job' = [job EXCEPT ![w] = [job[w] EXCEPT !.step = s]]
  BY Zenon DEF Goes
<1> DEFINE n == [job[w] EXCEPT !.step = s]
<1>2. job' = [job EXCEPT ![w] = n]
  BY <1>1
<1> HIDE DEF n
<1>3. job'[w] = n /\ \A v \in Worker \ {w} : job'[v] = job[v]
  BY <1>2
<1>4. QED
  BY <1>1, <1>3, Zenon DEF n

LEMMA RecheckNext ==
  \A j \in CreateJob : \A n : n = [j EXCEPT !.step = "recheck"] =>
    n \in CreateJob /\ n.step = "recheck" /\ n.id = j.id /\ n.ref = j.ref
BY DEF CreateJob

LEMMA SweepNext ==
  \A j \in DropJob \cup NoRangeJob : \A n : n = [j EXCEPT !.step = "sweep"] =>
    n \in DropJob \cup NoRangeJob /\ n.step = "sweep" /\ n.id = j.id /\ n.kind = j.kind
<1>1. \A j \in DropJob : \A n : n = [j EXCEPT !.step = "sweep"] =>
        n \in DropJob /\ n.step = "sweep" /\ n.id = j.id /\ n.kind = j.kind
  BY DEF DropJob
<1>2. \A j \in NoRangeJob : \A n : n = [j EXCEPT !.step = "sweep"] =>
        n \in NoRangeJob /\ n.step = "sweep" /\ n.id = j.id /\ n.kind = j.kind
  BY DEF NoRangeJob
<1>3. QED
  BY <1>1, <1>2

Rest == UNCHANGED << config, server, drawn, clashes >>

LEMMA CreatePublish ==
  ASSUME TypeInv, NEW w \in Worker, PublishCreate(w)
  PROVE  /\ job[w] \in CreateJob /\ job[w].step = "publish" /\ Rest
         /\ TypeInv'
         /\ \A v \in Worker \ {w} : job'[v] = job[v]
         /\ job'[w] \in CreateJob
         /\ job'[w].step = "recheck" /\ job'[w].id = job[w].id
         /\ job'[w].ref = job[w].ref
         /\ DOMAIN catalog' = DOMAIN catalog \cup {job[w].id}
         /\ \A t \in DOMAIN catalog : t # job[w].id => catalog'[t] = catalog[t]
         /\ catalog'[job[w].id].ref = job[w].ref
         /\ catalog'[job[w].id].name = job[w].id
         /\ catalog'[job[w].id].cols = 0 .. NewCols
         /\ catalog'[job[w].id].wide = {}
         /\ catalog'[job[w].id].idx = NewIndexes(job[w])
         /\ catalog'[job[w].id].parted = job[w].parted
         /\ catalog'[job[w].id].ranges = job[w].ranges
<1>1. /\ job \in [Worker -> AnyJob] /\ job[w].step = "publish"
      /\ job[w].kind = "create" /\ job[w] \in AnyJob
  BY DEF TypeInv, PublishCreate, Publishes
<1>2. job[w] \in CreateJob
  BY <1>1, JobByStep
<1> DEFINE j == job[w]
           rec == [name |-> j.id, cols |-> 0 .. NewCols, wide |-> {},
                   ref |-> j.ref, idx |-> NewIndexes(j), parted |-> j.parted,
                   ranges |-> j.ranges]
<1>3. NewIndexes(j) \subseteq Index
  BY DEF NewIndexes, Index, FkCol
<1>4. 0 .. NewCols \subseteq Nat
  BY ConfigTyped DEF TypeInv
<1>5. rec \in CatalogRec /\ j.id \in Nat
  BY <1>2, <1>3, <1>4 DEF CreateJob, CatalogRec
<1>6. catalog' = Put(catalog, j.id, rec) /\ Goes(w, "recheck") /\ Rest
  BY DEF PublishCreate, CatalogOnly, Rest
<1>7. /\ rec.ref = j.ref /\ rec.cols = 0 .. NewCols /\ rec.ranges = j.ranges
      /\ rec.name = j.id /\ rec.wide = {} /\ rec.idx = NewIndexes(j)
      /\ rec.parted = j.parted
  OBVIOUS
<1> HIDE DEF rec
<1>8. /\ CatalogType' /\ DOMAIN catalog' = DOMAIN catalog \cup {j.id}
      /\ catalog'[j.id] = rec
      /\ \A t \in DOMAIN catalog : t # j.id => catalog'[t] = catalog[t]
  BY <1>5, <1>6, PutTyped DEF TypeInv
<1>9. /\ job'[w] = [job[w] EXCEPT !.step = "recheck"]
      /\ \A v \in Worker \ {w} : job'[v] = job[v]
      /\ job' = [job EXCEPT ![w] = [job[w] EXCEPT !.step = "recheck"]]
  BY <1>1, <1>6, JobGoes, Zenon
<1>10. /\ job'[w] \in CreateJob /\ job'[w].step = "recheck" /\ job'[w].id = j.id
       /\ job'[w].ref = j.ref
  BY <1>2, <1>9, RecheckNext, Zenon
<1>11. job' \in [Worker -> AnyJob]
  <2>1. job' = [job EXCEPT ![w] = job'[w]]
    BY <1>9, Zenon
  <2>2. job'[w] \in AnyJob
    BY <1>10 DEF AnyJob
  <2>3. QED
    BY <1>1, <2>1, <2>2, Zenon
<1>12. TypeInv'
  BY <1>6, <1>8, <1>11 DEF TypeInv, Rest
<1>13. QED
  BY <1>1, <1>2, <1>6, <1>7, <1>8, <1>9, <1>10, <1>12, Zenon

\* A worker that is done: the others' jobs stay as they are.
LEMMA JobDone ==
  ASSUME job \in [Worker -> AnyJob], NEW w \in Worker, Done(w)
  PROVE  /\ job' \in [Worker -> AnyJob] /\ job'[w] = Idle
         /\ \A v \in Worker \ {w} : job'[v] = job[v]
BY DEF Done, AnyJob

LEMMA JobSweeps ==
  ASSUME job \in [Worker -> AnyJob], NEW w \in Worker, Goes(w, "sweep"),
         job[w] \in DropJob \cup NoRangeJob
  PROVE  /\ job' \in [Worker -> AnyJob]
         /\ job'[w].step = "sweep" /\ job'[w].id = job[w].id
         /\ job'[w].kind = job[w].kind
         /\ \A v \in Worker \ {w} : job'[v] = job[v]
<1>1. /\ job'[w] = [job[w] EXCEPT !.step = "sweep"]
      /\ \A v \in Worker \ {w} : job'[v] = job[v]
      /\ job' = [job EXCEPT ![w] = [job[w] EXCEPT !.step = "sweep"]]
  BY JobGoes, Zenon
<1>2. /\ job'[w] \in DropJob \cup NoRangeJob /\ job'[w].step = "sweep"
      /\ job'[w].id = job[w].id /\ job'[w].kind = job[w].kind
  BY <1>1, SweepNext, Zenon
<1>3. job' = [job EXCEPT ![w] = job'[w]] /\ job'[w] \in AnyJob
  <2>1. job' = [job EXCEPT ![w] = job'[w]]
    BY <1>1, Zenon
  <2>2. QED
    BY <2>1, <1>2 DEF AnyJob
<1>4. job' \in [Worker -> AnyJob]
  BY <1>3, Zenon
<1>5. QED
  BY <1>1, <1>2, <1>4

\* What ALTER TABLE ... DROP COLUMN does to the indexes S.
Cut(S, D) == IF Postgres THEN {x \in S : x.on \cap D = {}}
             ELSE {x \in {[y EXCEPT !.on = @ \ D] : y \in S} : x.on # {}}

Minus(S, N) == {x \in S : x.no \notin N}

LEMMA CutTyped ==
  ASSUME NEW S \in SUBSET Index, NEW D
  PROVE  Cut(S, D) \in SUBSET Index
<1> DEFINE cut == {[y EXCEPT !.on = @ \ D] : y \in S}
<1>1. \A x \in Index : [x EXCEPT !.on = @ \ D] \in Index
  BY DEF Index
<1>2. cut \subseteq Index
  BY <1>1, Zenon
<1>3. Cut(S, D) = IF Postgres THEN {x \in S : x.on \cap D = {}}
                  ELSE {x \in cut : x.on # {}}
  BY Zenon DEF Cut
<1> HIDE DEF cut
<1>4. QED
  BY <1>2, <1>3

LEMMA AlterDeltaTyped ==
  ASSUME NEW r \in CatalogRec, NEW j \in AlterJob
  PROVE  /\ AlterDelta(j, r) \in CatalogRec
         /\ AlterDelta(j, r).name = r.name
         /\ AlterDelta(j, r).cols = (r.cols \ j.drops) \cup j.adds
         /\ AlterDelta(j, r).wide =
              (r.wide \ j.drops) \cup (j.widens \cap (r.cols \ j.drops))
         /\ AlterDelta(j, r).ref = IF FkCol \in j.drops THEN NoId ELSE r.ref
         /\ AlterDelta(j, r).idx = Cut(r.idx, j.drops)
         /\ AlterDelta(j, r).parted = r.parted
         /\ AlterDelta(j, r).ranges = r.ranges
<1> DEFINE left  == r.cols \ j.drops
           ref   == IF FkCol \in j.drops THEN NoId ELSE r.ref
           idx   == Cut(r.idx, j.drops)
           wide  == (r.wide \ j.drops) \cup (j.widens \cap left)
           cols  == left \cup j.adds
<1>1. idx \in SUBSET Index
  BY CutTyped DEF CatalogRec
<1>2. ref \in Nat
  BY DEF CatalogRec, NoId
<1>3. cols \in SUBSET Nat /\ wide \in SUBSET Nat
  BY DEF CatalogRec, AlterJob
<1>4. AlterDelta(j, r) = [r EXCEPT !.cols = cols, !.wide = wide, !.ref = ref,
                                   !.idx = idx]
  BY Zenon DEF AlterDelta, Cut, WholeIndexDrop
<1> HIDE DEF cols, wide, ref, idx, left
<1>5. \A n : n = [r EXCEPT !.cols = cols, !.wide = wide, !.ref = ref, !.idx = idx] =>
        /\ n \in CatalogRec /\ n.cols = cols /\ n.wide = wide /\ n.ref = ref
        /\ n.idx = idx /\ n.name = r.name /\ n.parted = r.parted
        /\ n.ranges = r.ranges
  BY <1>1, <1>2, <1>3 DEF CatalogRec
<1>6. QED
  BY <1>4, <1>5, Zenon DEF cols, wide, ref, idx, left

\* A delta on the record under the job's id.
DeltaOf(w) == \/ PublishAlter(w) \/ PublishRename(w) \/ PublishIndex(w)
              \/ PublishNoIndex(w) \/ PublishPartition(w) \/ PublishNoPartition(w)

\* What it does to that record, r before and n after.
Changes(j, r, n) ==
  /\ n.name = IF j.kind = "rename" THEN j.to ELSE r.name
  /\ n.ref = IF j.kind = "alter" /\ FkCol \in j.drops THEN NoId ELSE r.ref
  /\ n.cols = IF j.kind = "alter" THEN (r.cols \ j.drops) \cup j.adds ELSE r.cols
  /\ n.wide = IF j.kind = "alter"
              THEN (r.wide \ j.drops) \cup (j.widens \cap (r.cols \ j.drops))
              ELSE r.wide
  /\ n.idx = IF j.kind = "alter" THEN Cut(r.idx, j.drops)
             ELSE IF j.kind = "index" THEN r.idx \cup {j.index}
             ELSE IF j.kind = "unindex" THEN Minus(r.idx, {j.no})
             ELSE r.idx
  /\ n.parted = r.parted
  /\ n.ranges = IF j.kind = "part" /\ r.parted THEN r.ranges \cup {j.base}
                ELSE IF j.kind = "unpart" THEN r.ranges \ {j.base}
                ELSE r.ranges

DeltaStep(w) ==
  /\ job[w].step = "publish" /\ job[w].kind # "create" /\ Rest
  /\ TypeInv' /\ DOMAIN catalog' = DOMAIN catalog
  /\ \A v \in Worker \ {w} : job'[v] = job[v]
  /\ \/ job'[w] = Idle
     \/ /\ job'[w].step = "sweep" /\ job[w].kind = "unpart"
        /\ job'[w].id = job[w].id /\ job'[w].kind = "unpart"
  /\ \A t \in DOMAIN catalog : t # job[w].id => catalog'[t] = catalog[t]
  /\ job[w].id \in DOMAIN catalog =>
       Changes(job[w], catalog[job[w].id], catalog'[job[w].id])

LEMMA OneDelta ==
  ASSUME TypeInv, NEW w \in Worker, NEW kind, kind # "create", NEW rec,
         Delta(w, kind, rec), Done(w) \/ (kind = "unpart" /\ Goes(w, "sweep")),
         job[w].id \in DOMAIN catalog =>
           rec \in CatalogRec /\ Changes(job[w], Current(w), rec)
  PROVE  DeltaStep(w)
<1>1. /\ job[w].step = "publish" /\ job[w].kind = kind /\ Rest
      /\ Update(job[w].id, rec)
  BY DEF Delta, Publishes, CatalogOnly, Rest
<1>2. /\ CatalogType' /\ DOMAIN catalog' = DOMAIN catalog
      /\ job[w].id \in DOMAIN catalog => catalog'[job[w].id] = rec
      /\ \A t \in DOMAIN catalog : t # job[w].id => catalog'[t] = catalog[t]
  BY <1>1, UpdateTyped DEF TypeInv
<1>3. /\ job' \in [Worker -> AnyJob]
      /\ \A v \in Worker \ {w} : job'[v] = job[v]
      /\ \/ job'[w] = Idle
         \/ /\ job'[w].step = "sweep" /\ job[w].kind = "unpart"
            /\ job'[w].id = job[w].id /\ job'[w].kind = "unpart"
  <2>1. CASE Done(w)
    BY <2>1, JobDone DEF TypeInv
  <2>2. CASE kind = "unpart" /\ Goes(w, "sweep")
    <3>1. job[w] \in NoRangeJob
      BY <1>1, <2>2, JobByStep DEF TypeInv
    <3>2. QED
      BY <1>1, <2>2, <3>1, JobSweeps DEF TypeInv
  <2>3. QED
    BY <2>1, <2>2
<1>4. TypeInv'
  BY <1>1, <1>2, <1>3 DEF TypeInv, Rest
<1>5. QED
  BY <1>1, <1>2, <1>3, <1>4 DEF DeltaStep, Current

LEMMA DeltaIsDeltaStep ==
  ASSUME TypeInv, NEW w \in Worker, DeltaOf(w)
  PROVE  DeltaStep(w)
<1> DEFINE j == job[w]
<1>0. /\ j \in AnyJob
      /\ j.id \in DOMAIN catalog => Current(w) \in CatalogRec
      /\ Current(w) = catalog[j.id]
  BY DEF TypeInv, CatalogType, Current
<1> DEFINE r == Current(w)
<1>1. CASE PublishAlter(w)
  <2>1. Delta(w, "alter", AlterDelta(j, r)) /\ Done(w)
    BY <1>1 DEF PublishAlter
  <2>2. j \in AlterJob
    BY <1>0, <2>1, JobByStep DEF Delta, Publishes
  <2>3. j.kind = "alter"
    BY <2>2 DEF AlterJob
  <2>4. j.id \in DOMAIN catalog =>
          AlterDelta(j, r) \in CatalogRec /\ Changes(j, r, AlterDelta(j, r))
    BY <1>0, <2>2, <2>3, AlterDeltaTyped DEF Changes
  <2>5. QED
    BY <2>1, <2>4, OneDelta
<1>2. CASE PublishRename(w)
  <2> DEFINE n == [r EXCEPT !.name = j.to]
  <2>1. Delta(w, "rename", n) /\ Done(w)
    BY <1>2 DEF PublishRename
  <2>2. j \in RenameJob
    BY <1>0, <2>1, JobByStep DEF Delta, Publishes
  <2>3. j.kind = "rename" /\ j.to \in Nat
    BY <2>2 DEF RenameJob
  <2>4. r \in CatalogRec => n \in CatalogRec /\ Changes(j, r, n)
    BY <2>3 DEF CatalogRec, Changes
  <2> HIDE DEF n
  <2>5. QED
    BY <1>0, <2>1, <2>4, OneDelta
<1>3. CASE PublishIndex(w)
  <2> DEFINE i == r.idx \cup {j.index}
             n == [r EXCEPT !.idx = i]
  <2>1. Delta(w, "index", n) /\ Done(w)
    BY <1>3, Zenon DEF PublishIndex
  <2>2. j \in IndexJob
    BY <1>0, <2>1, JobByStep DEF Delta, Publishes
  <2>3. j.kind = "index" /\ j.index \in Index
    BY <2>2 DEF IndexJob
  <2>4. r \in CatalogRec => i \in SUBSET Index
    BY <2>3 DEF CatalogRec
  <2>5. i = r.idx \cup {j.index}
    OBVIOUS
  <2> HIDE DEF i
  <2>6. r \in CatalogRec => n \in CatalogRec /\ Changes(j, r, n)
    BY <2>3, <2>4, <2>5 DEF CatalogRec, Changes
  <2> HIDE DEF n
  <2>7. QED
    BY <1>0, <2>1, <2>6, OneDelta
<1>4. CASE PublishNoIndex(w)
  <2> DEFINE i == {x \in r.idx : x.no # j.no}
             n == [r EXCEPT !.idx = i]
  <2>1. Delta(w, "unindex", n) /\ Done(w)
    BY <1>4, Zenon DEF PublishNoIndex
  <2>2. j.kind = "unindex"
    BY <2>1 DEF Delta, Publishes
  <2>3. r \in CatalogRec => i \in SUBSET Index
    BY DEF CatalogRec
  <2>4. i = Minus(r.idx, {j.no})
    BY DEF Minus
  <2> HIDE DEF i
  <2>5. r \in CatalogRec => n \in CatalogRec /\ Changes(j, r, n)
    BY <2>2, <2>3, <2>4 DEF CatalogRec, Changes
  <2> HIDE DEF n
  <2>6. QED
    BY <1>0, <2>1, <2>5, OneDelta
<1>5. CASE PublishPartition(w)
  <2> DEFINE n == IF r.parted THEN [r EXCEPT !.ranges = r.ranges \cup {j.base}] ELSE r
  <2>1. Delta(w, "part", n) /\ Done(w)
    BY <1>5, Zenon DEF PublishPartition
  <2>2. j \in RangeJob
    BY <1>0, <2>1, JobByStep DEF Delta, Publishes
  <2>3. j.kind = "part" /\ j.base \in Nat
    BY <2>2 DEF RangeJob
  <2>4. r \in CatalogRec => n \in CatalogRec /\ Changes(j, r, n)
    BY <2>3 DEF CatalogRec, Changes
  <2> HIDE DEF n
  <2>5. QED
    BY <1>0, <2>1, <2>4, OneDelta
<1>6. CASE PublishNoPartition(w)
  <2> DEFINE n == [r EXCEPT !.ranges = r.ranges \ {j.base}]
  <2>1. Delta(w, "unpart", n) /\ Goes(w, "sweep")
    BY <1>6, Zenon DEF PublishNoPartition
  <2>2. j.kind = "unpart"
    BY <2>1 DEF Delta, Publishes
  <2>3. r \in CatalogRec => n \in CatalogRec /\ Changes(j, r, n)
    BY <2>2 DEF CatalogRec, Changes
  <2> HIDE DEF n
  <2>4. QED
    BY <1>0, <2>1, <2>3, OneDelta
<1>7. QED
  BY <1>1, <1>2, <1>3, <1>4, <1>5, <1>6 DEF DeltaOf

-----------------------------------------------------------------------------
(* The rest of a drop and of a create: typed.                                *)

LEMMA RecheckStep ==
  ASSUME TypeInv, NEW w \in Worker, Recheck(w)
  PROVE  /\ TypeInv' /\ Rest /\ job[w].step = "recheck" /\ job'[w] = Idle
         /\ job[w] \in CreateJob
         /\ \A v \in Worker \ {w} : job'[v] = job[v]
         /\ DOMAIN catalog' = DOMAIN catalog
         /\ \A t \in DOMAIN catalog :
              /\ SameBesides(catalog'[t], catalog[t])
              /\ catalog'[t].ref =
                   IF /\ t = job[w].id /\ catalog[t].ref = job[w].ref
                      /\ TargetGone(job[w].ref)
                   THEN NoId ELSE catalog[t].ref
<1>1. /\ job[w].step = "recheck" /\ Rest /\ Done(w)
      /\ IF TargetGone(job[w].ref) THEN RemoveReferences(job[w].id, job[w].ref)
         ELSE UNCHANGED catalog
  BY DEF Recheck, Rest, CatalogOnly
<1>2. /\ job' \in [Worker -> AnyJob] /\ job'[w] = Idle
      /\ \A v \in Worker \ {w} : job'[v] = job[v]
  BY <1>1, JobDone DEF TypeInv
<1>3. job[w] \in CreateJob
  BY <1>1, JobByStep DEF TypeInv
<1>4. CASE TargetGone(job[w].ref)
  <2>1. /\ CatalogType' /\ DOMAIN catalog' = DOMAIN catalog
        /\ \A s \in DOMAIN catalog :
             /\ catalog'[s].ref =
                  IF s = job[w].id /\ catalog[s].ref = job[w].ref THEN NoId
                  ELSE catalog[s].ref
             /\ SameBesides(catalog'[s], catalog[s])
    BY <1>1, <1>4, RemovedReferences DEF TypeInv
  <2>2. QED
    BY <1>1, <1>2, <1>3, <1>4, <2>1 DEF TypeInv, Rest
<1>5. CASE ~TargetGone(job[w].ref)
  BY <1>1, <1>2, <1>3, <1>5 DEF TypeInv, Rest, CatalogType, SameBesides
<1>6. QED
  BY <1>4, <1>5

LEMMA DropPublish ==
  ASSUME TypeInv, NEW w \in Worker, PublishDrop(w)
  PROVE  /\ TypeInv' /\ Rest /\ job[w].step = "publish" /\ job[w].kind = "drop"
         /\ \A v \in Worker \ {w} : job'[v] = job[v]
         /\ job'[w].step = "sweep" /\ job'[w].id = job[w].id
         /\ job'[w].kind = "drop"
         /\ DOMAIN catalog' = DOMAIN catalog \ {job[w].id}
         /\ \A t \in DOMAIN catalog' : catalog'[t] = catalog[t]
<1>1. /\ job[w].step = "publish" /\ job[w].kind = "drop" /\ Rest
      /\ catalog' = Without(catalog, job[w].id) /\ Goes(w, "sweep")
  BY DEF PublishDrop, Publishes, CatalogOnly, Rest
<1>2. job[w] \in DropJob
  BY <1>1, JobByStep DEF TypeInv
<1>3. /\ job' \in [Worker -> AnyJob]
      /\ job'[w].step = "sweep" /\ job'[w].id = job[w].id
      /\ job'[w].kind = job[w].kind
      /\ \A v \in Worker \ {w} : job'[v] = job[v]
  BY <1>1, <1>2, JobSweeps DEF TypeInv
<1>4. /\ CatalogType' /\ DOMAIN catalog' = DOMAIN catalog \ {job[w].id}
      /\ \A t \in DOMAIN catalog' : catalog'[t] = catalog[t]
  BY <1>1, WithoutTyped DEF TypeInv
<1>5. QED
  BY <1>1, <1>3, <1>4 DEF TypeInv, Rest

LEMMA SweepStep ==
  ASSUME TypeInv, NEW w \in Worker, Sweep(w)
  PROVE  /\ TypeInv' /\ Rest /\ catalog' = catalog /\ job[w].step = "sweep"
         /\ \A v \in Worker \ {w} : job'[v] = job[v]
         /\ job'[w].step = "unref" /\ job'[w].id = job[w].id
         /\ job'[w].kind = job[w].kind /\ job[w].kind \in {"drop", "unpart"}
         /\ job'[w].todo = ToSweep(job[w].id)
<1>1. /\ job[w].step = "sweep" /\ Rest /\ catalog' = catalog
      /\ job' = [job EXCEPT ![w] = [kind |-> @.kind, id |-> @.id, step |-> "unref",
                                    todo |-> ToSweep(@.id)]]
  BY DEF Sweep, CatalogOnly, Rest
<1>2. job[w] \in DropJob \cup NoRangeJob
  BY <1>1, JobByStep DEF TypeInv
<1>3. job[w].kind \in {"drop", "unpart"} /\ job[w].id \in Nat
  BY <1>2 DEF DropJob, NoRangeJob
<1> DEFINE n == [kind |-> job[w].kind, id |-> job[w].id, step |-> "unref",
                 todo |-> ToSweep(job[w].id)]
<1>4. ToSweep(job[w].id) \in SUBSET Nat
  BY DEF ToSweep, TypeInv, CatalogType
<1>5. n \in UnrefJob
  BY <1>3, <1>4 DEF UnrefJob
<1>6. job' = [job EXCEPT ![w] = n]
  BY <1>1
<1>7. /\ n.step = "unref" /\ n.id = job[w].id /\ n.todo = ToSweep(job[w].id)
      /\ n.kind = job[w].kind /\ n \in AnyJob
  BY <1>5 DEF AnyJob
<1> HIDE DEF n
<1>8. /\ job' \in [Worker -> AnyJob] /\ job'[w] = n
      /\ \A v \in Worker \ {w} : job'[v] = job[v]
  BY <1>6, <1>7, JobReplaced DEF TypeInv
<1>9. QED
  BY <1>1, <1>3, <1>7, <1>8 DEF TypeInv, Rest, CatalogType

LEMMA UnrefStep ==
  ASSUME TypeInv, NEW w \in Worker, Unref(w)
  PROVE  /\ TypeInv' /\ Rest /\ job[w].step = "unref" /\ job[w] \in UnrefJob
         /\ \A v \in Worker \ {w} : job'[v] = job[v]
         /\ DOMAIN catalog' = DOMAIN catalog
         /\ \A t \in DOMAIN catalog : SameBesides(catalog'[t], catalog[t])
         /\ \/ job[w].todo = {} /\ job'[w] = Idle /\ catalog' = catalog
            \/ \E s \in job[w].todo :
                 /\ job'[w].step = "unref" /\ job'[w].id = job[w].id
                 /\ job'[w].kind = job[w].kind /\ job'[w].todo = job[w].todo \ {s}
                 /\ \A t \in DOMAIN catalog :
                      catalog'[t].ref = IF t = s /\ catalog[t].ref = job[w].id
                                        THEN NoId ELSE catalog[t].ref
<1>1. /\ job[w].step = "unref" /\ Rest
      /\ IF job[w].todo = {} THEN UNCHANGED catalog /\ Done(w)
         ELSE \E t \in job[w].todo :
                /\ RemoveReferences(t, job[w].id)
                /\ job' = [job EXCEPT ![w].todo = @ \ {t}]
  BY Zenon DEF Unref, CatalogOnly, Rest
<1>2. job \in [Worker -> AnyJob] /\ job[w] \in UnrefJob
  BY <1>1, JobByStep DEF TypeInv
<1>3. CASE job[w].todo = {}
  <2>1. /\ job' \in [Worker -> AnyJob] /\ job'[w] = Idle
        /\ \A v \in Worker \ {w} : job'[v] = job[v]
    BY <1>1, <1>2, <1>3, JobDone
  <2>2. catalog' = catalog
    BY <1>1, <1>3
  <2>3. QED
    BY <1>1, <1>2, <1>3, <2>1, <2>2 DEF TypeInv, Rest, CatalogType, SameBesides
<1>4. CASE job[w].todo # {}
  <2>1. PICK s \in job[w].todo :
          /\ RemoveReferences(s, job[w].id)
          /\ job' = [job EXCEPT ![w].todo = @ \ {s}]
    BY <1>1, <1>4, Zenon
  <2>2. /\ CatalogType' /\ DOMAIN catalog' = DOMAIN catalog
        /\ \A t \in DOMAIN catalog :
             /\ catalog'[t].ref = IF t = s /\ catalog[t].ref = job[w].id THEN NoId
                                  ELSE catalog[t].ref
             /\ SameBesides(catalog'[t], catalog[t])
    BY <2>1, RemovedReferences DEF TypeInv
  <2> DEFINE n == [job[w] EXCEPT !.todo = job[w].todo \ {s}]
  <2>3. /\ n \in UnrefJob /\ n.step = "unref" /\ n.id = job[w].id
        /\ n.kind = job[w].kind /\ n.todo = job[w].todo \ {s}
    BY <1>2 DEF UnrefJob
  <2>4. job' = [job EXCEPT ![w] = n]
    BY <2>1, Zenon
  <2> HIDE DEF n
  <2>5. /\ job' \in [Worker -> AnyJob] /\ job'[w] = n
        /\ \A v \in Worker \ {w} : job'[v] = job[v]
    BY <1>2, <2>3, <2>4, JobReplaced DEF AnyJob
  <2>6. TypeInv'
    BY <1>1, <2>2, <2>5 DEF TypeInv, Rest
  <2>7. QED
    BY <1>1, <1>2, <2>2, <2>3, <2>5, <2>6
<1>5. QED
  BY <1>3, <1>4

LEMMA PickStep ==
  ASSUME TypeInv, NEW w \in Worker, Pick(w)
  PROVE  /\ TypeInv' /\ job[w] = Idle /\ Cardinality(Busy) < Workers
         /\ UNCHANGED << config, catalog, server >>
         /\ job'[w].step = "sql" /\ Chosen(job'[w])
         /\ drawn' \in Nat /\ drawn' >= drawn
         /\ job'[w].kind \in {"create", "rename", "index", "part"} =>
              drawn' = drawn + 1
         /\ job'[w].kind = "alter" => \A c \in job'[w].adds : c <= drawn'
         /\ \A v \in Worker \ {w} : job'[v] = job[v]
         /\ clashes \subseteq clashes'
         /\ \A v \in Busy : /\ Clash(job'[w], job[v]) \subseteq clashes'
                            /\ Clash(job[v], job'[w]) \subseteq clashes'
<1>1. /\ w \notin Busy /\ Cardinality(Busy) < Workers
      /\ UNCHANGED << config, catalog, server >>
      /\ \E j \in Jobs :
           /\ drawn' = drawn + Draws(j)
           /\ job' = [job EXCEPT ![w] = Put(j, "says", Says(j))]
           /\ clashes' = clashes \cup
                UNION {Clash(j, job[v]) \cup Clash(job[v], j) : v \in Busy}
  BY Zenon DEF Pick
<1>2. PICK j \in Jobs :
        /\ drawn' = drawn + Draws(j)
        /\ job' = [job EXCEPT ![w] = Put(j, "says", Says(j))]
        /\ clashes' = clashes \cup
             UNION {Clash(j, job[v]) \cup Clash(job[v], j) : v \in Busy}
  BY <1>1, Zenon
<1> DEFINE p == Put(j, "says", Says(j))
<1>3. /\ p \in AnyJob /\ p.step = "sql" /\ Chosen(p) /\ Drawing(p, Draws(j))
      /\ Alike(p, j)
  BY JobsChosen
<1>4. job' = [job EXCEPT ![w] = p]
  BY <1>2
<1> HIDE DEF p
<1>5. /\ job' \in [Worker -> AnyJob] /\ job'[w] = p
      /\ \A v \in Worker \ {w} : job'[v] = job[v]
  BY <1>3, <1>4, JobReplaced DEF TypeInv
<1>6. Draws(j) \in Nat /\ drawn \in Nat
  BY <1>3 DEF Drawing, TypeInv
<1>7. /\ drawn' \in Nat /\ drawn' >= drawn
      /\ p.kind \in {"create", "rename", "index", "part"} => drawn' = drawn + 1
      /\ p.kind = "alter" => \A c \in p.adds : c <= drawn'
  BY <1>2, <1>3, <1>6 DEF Drawing
<1>8. TypeInv'
  BY <1>1, <1>5, <1>7 DEF TypeInv, CatalogType
<1>9. job[w] = Idle
  BY <1>1 DEF Busy
<1>10. ASSUME NEW v \in Busy
       PROVE  Clash(p, job[v]) \subseteq clashes' /\ Clash(job[v], p) \subseteq clashes'
  <2>1. Clash(p, job[v]) \subseteq Clash(j, job[v])
    BY <1>3 DEF Clash, Alike
  <2>2. Clash(job[v], p) \subseteq Clash(job[v], j)
    BY <1>3 DEF Clash, Alike
  <2>3. Clash(j, job[v]) \cup Clash(job[v], j) \subseteq clashes'
    BY <1>2
  <2>4. QED
    BY <2>1, <2>2, <2>3
<1>11. clashes \subseteq clashes'
  BY <1>2
<1>12. QED
  BY <1>1, <1>3, <1>5, <1>7, <1>8, <1>9, <1>10, <1>11

-----------------------------------------------------------------------------
(* The invariants.                                                           *)

\* A statement of w is chosen and not published yet.
Sent(w)   == job[w].step \in {"sql", "publish"}
Creating  == {w \in Worker : Sent(w) /\ job[w].kind = "create"}
Adding(t) == {w \in Worker : Sent(w) /\ job[w].kind = "part" /\ job[w].id = t}
Dropping  == {w \in Worker : Sent(w) /\ job[w].kind = "alter" /\ job[w].drops # {}}

\* w is going to remove the reference of t to r, if r is gone.
Handles(w, t, r) ==
  \/ job[w].step = "recheck" /\ job[w].id = t /\ job[w].ref = r
  \/ job[w].step = "sweep" /\ job[w].id = r
  \/ job[w].step = "unref" /\ job[w].id = r /\ t \in job[w].todo

\* A reference to a table that is gone is in some worker's care.
RefsCovered ==
  \A t \in DOMAIN catalog :
    \/ catalog[t].ref \in DOMAIN catalog \cup {NoId}
    \/ \E w \in Worker : Handles(w, t, catalog[t].ref)

\* An id is given to one table only.
IdsFresh ==
  /\ \A t \in DOMAIN catalog : t <= drawn
  /\ \A w \in Worker : Sent(w) => job[w].id <= drawn
  /\ \A w \in Creating :
       /\ job[w].id \notin DOMAIN catalog
       /\ \A v \in Worker \ {w} : Sent(v) => job[v].id # job[w].id

\* Every table below the limit, and every pending create, was decided on with
\* at most the other workers' creates pending.
TablesBounded ==
  /\ Cardinality(Busy) <= Workers
  /\ IsFiniteSet(DOMAIN catalog)
  /\ Cardinality(DOMAIN catalog) + Cardinality(Creating) <= MaxTables + Workers - 1

RangesBounded ==
  /\ \A w \in Creating :
       IsFiniteSet(job[w].ranges) /\ Cardinality(job[w].ranges) <= MaxParts
  /\ \A t \in DOMAIN catalog :
       /\ IsFiniteSet(catalog[t].ranges)
       /\ Cardinality(catalog[t].ranges) + Cardinality(Adding(t))
            <= MaxParts + Workers - 1

Two(S) == IsFiniteSet(S) /\ Cardinality(S) >= 2

\* A table keeps two columns, also when the pending ALTER is published.
ColumnsKept ==
  /\ \A w \in Worker : Sent(w) /\ job[w].kind = "alter" => IsFiniteSet(job[w].adds)
  /\ "columns" \notin clashes =>
       /\ \A t \in DOMAIN catalog : Two(catalog[t].cols)
       /\ \A w \in Dropping :
            /\ job[w].id \in DOMAIN catalog =>
                 Two(catalog[job[w].id].cols \ job[w].drops)
            /\ \A v \in Dropping \ {w} : job[v].id # job[w].id

LEMMA OneMore ==
  ASSUME NEW S, NEW x, IsFiniteSet(S), Cardinality(S) \in Nat
  PROVE  IsFiniteSet(S \cup {x}) /\ Cardinality(S \cup {x}) <= Cardinality(S) + 1
<1>1. /\ IsFiniteSet(S \cup {x})
      /\ Cardinality(S \cup {x}) = IF x \in S THEN Cardinality(S) ELSE Cardinality(S) + 1
  BY FS_AddElement, Zenon
<1>2. QED
  BY <1>1

LEMMA Smaller ==
  ASSUME NEW T, IsFiniteSet(T), NEW S \in SUBSET T
  PROVE  /\ IsFiniteSet(S) /\ Cardinality(S) \in Nat /\ Cardinality(T) \in Nat
         /\ Cardinality(S) <= Cardinality(T)
         /\ \A x \in T : x \notin S => Cardinality(S) + 1 <= Cardinality(T)
<1>1. IsFiniteSet(S) /\ Cardinality(S) \in Nat /\ Cardinality(T) \in Nat
      /\ Cardinality(S) <= Cardinality(T)
  BY FS_Subset, FS_CardinalityType
<1>2. ASSUME NEW x \in T, x \notin S PROVE Cardinality(S) + 1 <= Cardinality(T)
  <2>1. IsFiniteSet(S \cup {x}) /\ Cardinality(S \cup {x}) = Cardinality(S) + 1
    BY <1>1, <1>2, FS_AddElement
  <2>2. Cardinality(S \cup {x}) <= Cardinality(T)
    BY <1>2, FS_Subset
  <2>3. QED
    BY <2>1, <2>2
<1>3. QED
  BY <1>1, <1>2

LEMMA TwoGrows ==
  ASSUME NEW S, NEW T, Two(S), IsFiniteSet(T), S \subseteq T
  PROVE  Two(T)
BY Smaller DEF Two

LEMMA TwoAndMore ==
  ASSUME NEW S, NEW T, Two(S), IsFiniteSet(T)
  PROVE  Two(S \cup T)
<1>1. IsFiniteSet(S \cup T)
  BY FS_Union DEF Two
<1>2. QED
  BY <1>1, TwoGrows

LEMMA ActCases ==
  ASSUME NEW w \in Worker, Act(w)
  PROVE  \/ Pick(w) \/ SqlOf(w) \/ PublishCreate(w) \/ Recheck(w) \/ PublishDrop(w)
         \/ Sweep(w) \/ Unref(w) \/ DeltaOf(w)
BY DEF Act, SqlOf, DeltaOf

\* Nobody sends a new statement but a worker that picks.
LEMMA NobodyNew ==
  ASSUME TypeInv, NEW w \in Worker, Act(w), ~Pick(w)
  PROVE  /\ UNCHANGED << config, drawn >> /\ clashes \subseteq clashes' /\ TypeInv'
         /\ job[w].step # "idle" /\ \A v \in Worker \ {w} : job'[v] = job[v]
         /\ job'[w].step \in {"sql", "publish"} =>
              /\ job[w].step \in {"sql", "publish"} /\ GoesOn(job'[w], job[w])
              /\ UNCHANGED catalog
<1>1. CASE SqlOf(w)
  BY <1>1, SqlIsServerStep DEF ServerStep, TypeInv, CatalogType, Idle
<1>2. CASE PublishCreate(w)
  BY <1>2, CreatePublish DEF Rest
<1>3. CASE Recheck(w)
  BY <1>3, RecheckStep DEF Rest, Idle
<1>4. CASE PublishDrop(w)
  BY <1>4, DropPublish DEF Rest
<1>5. CASE Sweep(w)
  BY <1>5, SweepStep DEF Rest
<1>6. CASE Unref(w)
  BY <1>6, UnrefStep DEF Rest, Idle
<1>7. CASE DeltaOf(w)
  BY <1>7, DeltaIsDeltaStep DEF DeltaStep, Rest, Idle
<1>8. QED
  BY <1>1, <1>2, <1>3, <1>4, <1>5, <1>6, <1>7, ActCases

LEMMA ActTyped ==
  ASSUME TypeInv, NEW w \in Worker, Act(w)
  PROVE  TypeInv'
BY NobodyNew, PickStep

LEMMA RefsCoveredKept ==
  ASSUME TypeInv, RefsCovered, NEW w \in Worker, Act(w)
  PROVE  RefsCovered'
<1>1. CASE Pick(w)
  BY <1>1, PickStep DEF RefsCovered, Handles, Idle
<1>2. CASE SqlOf(w)
  BY <1>2, SqlIsServerStep DEF ServerStep, RefsCovered, Handles
<1>3. CASE PublishCreate(w)
  <2>1. ASSUME NEW t \in DOMAIN catalog'
        PROVE  \/ catalog'[t].ref \in DOMAIN catalog' \cup {NoId}
               \/ \E v \in Worker : Handles(v, t, catalog[t].ref)'
    <3>1. CASE t = job[w].id
      <4>1. job'[w].step = "recheck" /\ job'[w].id = t /\ job'[w].ref = catalog'[t].ref
        BY <1>3, <3>1, CreatePublish
      <4>2. QED
        BY <4>1 DEF Handles
    <3>2. CASE t # job[w].id
      <4>1. /\ t \in DOMAIN catalog /\ catalog'[t] = catalog[t]
            /\ DOMAIN catalog \subseteq DOMAIN catalog' /\ job[w].step = "publish"
            /\ \A v \in Worker \ {w} : job'[v] = job[v]
        BY <1>3, <3>2, CreatePublish
      <4>2. QED
        BY <4>1 DEF RefsCovered, Handles
    <3>3. QED
      BY <3>1, <3>2
  <2>2. QED
    BY <2>1 DEF RefsCovered
<1>4. CASE Recheck(w)
  <2>1. ASSUME NEW t \in DOMAIN catalog'
        PROVE  \/ catalog'[t].ref \in DOMAIN catalog' \cup {NoId}
               \/ \E v \in Worker : Handles(v, t, catalog[t].ref)'
    <3>1. CASE t = job[w].id
      BY <1>4, <3>1, RecheckStep DEF RefsCovered, Handles, TargetGone
    <3>2. CASE t # job[w].id
      BY <1>4, <3>2, RecheckStep DEF RefsCovered, Handles
    <3>3. QED
      BY <3>1, <3>2
  <2>2. QED
    BY <2>1 DEF RefsCovered
<1>5. CASE PublishDrop(w)
  <2>1. /\ DOMAIN catalog' = DOMAIN catalog \ {job[w].id}
        /\ \A t \in DOMAIN catalog' : catalog'[t] = catalog[t]
        /\ job[w].step = "publish" /\ job'[w].step = "sweep" /\ job'[w].id = job[w].id
        /\ \A v \in Worker \ {w} : job'[v] = job[v]
    BY <1>5, DropPublish
  <2>2. QED
    BY <2>1 DEF RefsCovered, Handles
<1>6. CASE Sweep(w)
  BY <1>6, SweepStep DEF RefsCovered, Handles, ToSweep
<1>7. CASE Unref(w)
  BY <1>7, UnrefStep DEF RefsCovered, Handles
<1>8. CASE DeltaOf(w)
  <2>1. \A t \in DOMAIN catalog : catalog'[t].ref \in {catalog[t].ref, NoId}
    BY <1>8, DeltaIsDeltaStep DEF DeltaStep, Changes
  <2>2. QED
    BY <1>8, <2>1, DeltaIsDeltaStep DEF DeltaStep, RefsCovered, Handles
<1>9. QED
  BY <1>1, <1>2, <1>3, <1>4, <1>5, <1>6, <1>7, <1>8, ActCases

LEMMA NothingAdded ==
  ASSUME TypeInv, NEW w \in Worker, Act(w), ~PublishCreate(w)
  PROVE  DOMAIN catalog' \subseteq DOMAIN catalog
BY ActCases, PickStep, SqlIsServerStep, RecheckStep, DropPublish, SweepStep, UnrefStep,
   DeltaIsDeltaStep DEF ServerStep, DeltaStep

LEMMA IdsFreshKept ==
  ASSUME TypeInv, IdsFresh, NEW w \in Worker, Act(w)
  PROVE  IdsFresh'
<1>0. drawn \in Nat /\ drawn' \in Nat /\ DOMAIN catalog \subseteq Nat
      /\ \A v \in Worker : Sent(v) => job[v].id \in Nat
  BY ActTyped, JobByStep DEF TypeInv, CatalogType, Sent
<1>1. CASE Pick(w)
  <2>1. ~Sent(w) /\ catalog' = catalog /\ \A v \in Worker \ {w} : job'[v] = job[v]
    BY <1>1, PickStep DEF Sent, Idle
  <2>2. CASE job'[w].kind = "create"
    <3>1. job'[w].id = drawn + 1 /\ drawn' = drawn + 1
      BY <1>1, <2>2, PickStep DEF Chosen
    <3>2. QED
      BY <1>0, <2>1, <3>1 DEF IdsFresh, Creating, Sent
  <2>3. CASE job'[w].kind # "create"
    <3>1. job'[w].id \in DOMAIN catalog /\ drawn' >= drawn
      BY <1>1, <2>3, PickStep DEF Chosen
    <3>2. QED
      BY <1>0, <2>1, <2>3, <3>1 DEF IdsFresh, Creating, Sent
  <2>4. QED
    BY <2>2, <2>3
<1>2. CASE PublishCreate(w)
  <2>1. /\ Sent(w) /\ w \in Creating /\ drawn' = drawn /\ ~Sent(w)'
        /\ DOMAIN catalog' = DOMAIN catalog \cup {job[w].id}
        /\ \A v \in Worker \ {w} : job'[v] = job[v]
    BY <1>2, CreatePublish DEF Sent, Creating, CreateJob, Rest
  <2>2. QED
    BY <1>0, <2>1 DEF IdsFresh, Creating, Sent
<1>3. CASE ~Pick(w) /\ ~PublishCreate(w)
  <2>1. DOMAIN catalog' \subseteq DOMAIN catalog
    BY <1>3, NothingAdded
  <2>2. /\ drawn' = drawn /\ \A v \in Worker \ {w} : job'[v] = job[v]
        /\ Sent(w)' => Sent(w) /\ job'[w].id = job[w].id /\ job'[w].kind = job[w].kind
    BY <1>3, NobodyNew DEF GoesOn, Sent
  <2>3. QED
    BY <1>0, <2>1, <2>2 DEF IdsFresh, Creating, Sent
<1>4. QED
  BY <1>1, <1>2, <1>3

\* The sets of pending jobs only shrink, but for a worker that picks.
LEMMA PendingShrinks ==
  ASSUME TypeInv, NEW w \in Worker, Act(w), ~Pick(w)
  PROVE  /\ Busy' \subseteq Busy /\ w \in Busy
         /\ Creating' \subseteq Creating
         /\ \A t : Adding(t)' \subseteq Adding(t)
<1>1. /\ \A v \in Worker \ {w} : job'[v] = job[v]
      /\ job[w].step # "idle"
      /\ Sent(w)' => Sent(w) /\ job'[w].kind = job[w].kind /\ job'[w].id = job[w].id
  BY NobodyNew DEF GoesOn, Sent
<1>2. Busy' \subseteq Busy /\ w \in Busy
  BY <1>1 DEF Busy, Idle
<1>3. Creating' \subseteq Creating
  BY <1>1 DEF Creating, Sent
<1>4. ASSUME NEW t PROVE Adding(t)' \subseteq Adding(t)
  BY <1>1 DEF Adding, Sent
<1>5. QED
  BY <1>2, <1>3, <1>4

LEMMA PendingFinite ==
  /\ IsFiniteSet(Worker) /\ IsFiniteSet(Busy) /\ IsFiniteSet(Creating)
  /\ \A t : IsFiniteSet(Adding(t))
<1>1. Busy \subseteq Worker /\ Creating \subseteq Worker
      /\ \A t : Adding(t) \subseteq Worker
  BY DEF Busy, Creating, Adding
<1>2. QED
  BY <1>1, DdlAssumption, FS_Subset

\* Who picks joins the busy ones, of which there is room for one more.
LEMMA PickJoins ==
  ASSUME TypeInv, NEW w \in Worker, Pick(w)
  PROVE  /\ Cardinality(Busy') <= Workers /\ IsFiniteSet(Busy')
         /\ Creating' \subseteq Busy' /\ \A t : Adding(t)' \subseteq Busy'
         /\ job'[w].kind # "create" => Creating' \subseteq Creating
         /\ \A t : job'[w].kind # "part" \/ job'[w].id # t =>
              Adding(t)' \subseteq Adding(t)
<1>1. /\ \A v \in Worker \ {w} : job'[v] = job[v]
      /\ job[w] = Idle /\ Cardinality(Busy) < Workers
  BY PickStep
<1>2. Busy' \subseteq Busy \cup {w} /\ w \notin Busy
  BY <1>1 DEF Busy
<1>3. /\ IsFiniteSet(Busy \cup {w})
      /\ Cardinality(Busy \cup {w}) = Cardinality(Busy) + 1
  BY <1>2, PendingFinite, FS_AddElement
<1>4. /\ IsFiniteSet(Busy') /\ Cardinality(Busy') <= Cardinality(Busy \cup {w})
      /\ Cardinality(Busy') \in Nat /\ Cardinality(Busy) \in Nat
  BY <1>2, <1>3, PendingFinite, Smaller, FS_CardinalityType
<1>5. Workers \in Nat
  BY ConfigTyped DEF TypeInv
<1>6. Cardinality(Busy') <= Workers
  BY <1>1, <1>3, <1>4, <1>5
<1>7. Creating' \subseteq Busy'
  BY DEF Creating, Busy, Sent, Idle
<1>8. ASSUME NEW t PROVE Adding(t)' \subseteq Busy'
  BY DEF Adding, Busy, Sent, Idle
<1>9. job'[w].kind # "create" => Creating' \subseteq Creating
  BY <1>1 DEF Creating, Sent
<1>10. ASSUME NEW t, job'[w].kind # "part" \/ job'[w].id # t
       PROVE  Adding(t)' \subseteq Adding(t)
  BY <1>1, <1>10 DEF Adding, Sent
<1>11. QED
  BY <1>4, <1>6, <1>7, <1>8, <1>9, <1>10

LEMMA TablesBoundedKept ==
  ASSUME TypeInv, TablesBounded, NEW w \in Worker, Act(w)
  PROVE  TablesBounded'
<1>0. /\ Workers \in Nat \ {0} /\ MaxTables \in Nat
      /\ Cardinality(DOMAIN catalog) \in Nat
      /\ Cardinality(Creating) \in Nat
  BY ConfigTyped, PendingFinite, FS_CardinalityType DEF TypeInv, TablesBounded
<1>1. Workers' = Workers /\ MaxTables' = MaxTables
  BY NobodyNew, PickStep DEF Workers, MaxTables
<1>2. CASE Pick(w)
  <2>1. /\ Cardinality(Busy') <= Workers /\ IsFiniteSet(Busy')
        /\ Creating' \subseteq Busy'
        /\ job'[w].kind # "create" => Creating' \subseteq Creating
    BY <1>2, PickJoins
  <2>2. catalog' = catalog
    BY <1>2, PickStep
  <2>3. CASE job'[w].kind = "create"
    <3>1. Cardinality(DOMAIN catalog) < MaxTables
      BY <1>2, <2>3, PickStep DEF Chosen, BelowLimit
    <3>2. Cardinality(Creating') <= Cardinality(Busy') /\ Cardinality(Creating') \in Nat
          /\ Cardinality(Busy') \in Nat
      BY <2>1, Smaller
    <3>3. Cardinality(DOMAIN catalog) + Cardinality(Creating') <= MaxTables + Workers - 1
      BY <1>0, <2>1, <3>1, <3>2
    <3>4. QED
      BY <1>1, <2>1, <2>2, <3>3 DEF TablesBounded
  <2>4. CASE job'[w].kind # "create"
    <3>1. Cardinality(Creating') <= Cardinality(Creating) /\ Cardinality(Creating') \in Nat
      BY <2>1, <2>4, PendingFinite, Smaller
    <3>2. Cardinality(DOMAIN catalog) + Cardinality(Creating') <= MaxTables + Workers - 1
      BY <1>0, <3>1 DEF TablesBounded
    <3>3. QED
      BY <1>1, <2>1, <2>2, <3>2 DEF TablesBounded
  <2>5. QED
    BY <2>3, <2>4
<1>3. ASSUME ~Pick(w)
      PROVE  Cardinality(Busy') <= Workers
  <2>1. Cardinality(Busy') <= Cardinality(Busy) /\ Cardinality(Busy') \in Nat
        /\ Cardinality(Busy) \in Nat
    BY <1>3, PendingShrinks, PendingFinite, Smaller
  <2>2. QED
    BY <1>0, <2>1 DEF TablesBounded
<1>4. CASE PublishCreate(w)
  <2>1. /\ w \in Creating /\ ~Sent(w)' /\ ~Pick(w)
        /\ DOMAIN catalog' = DOMAIN catalog \cup {job[w].id}
    BY <1>4, CreatePublish, PickStep DEF Creating, Sent, CreateJob, Idle
  <2>2. Creating' \subseteq Creating /\ w \notin Creating'
    BY <2>1, PendingShrinks DEF Creating
  <2>3. Cardinality(Creating') + 1 <= Cardinality(Creating)
        /\ Cardinality(Creating') \in Nat
    BY <2>1, <2>2, PendingFinite, Smaller
  <2>4. /\ IsFiniteSet(DOMAIN catalog')
        /\ Cardinality(DOMAIN catalog') <= Cardinality(DOMAIN catalog) + 1
        /\ Cardinality(DOMAIN catalog') \in Nat
    <3>1. /\ IsFiniteSet(DOMAIN catalog \cup {job[w].id})
          /\ Cardinality(DOMAIN catalog \cup {job[w].id}) =
               IF job[w].id \in DOMAIN catalog THEN Cardinality(DOMAIN catalog)
               ELSE Cardinality(DOMAIN catalog) + 1
      BY FS_AddElement DEF TablesBounded
    <3>2. QED
      BY <1>0, <2>1, <3>1
  <2>5. Cardinality(DOMAIN catalog') + Cardinality(Creating') <= MaxTables + Workers - 1
    BY <1>0, <2>3, <2>4 DEF TablesBounded
  <2>6. QED
    BY <1>1, <1>3, <2>1, <2>4, <2>5 DEF TablesBounded
<1>5. CASE ~Pick(w) /\ ~PublishCreate(w)
  <2>1. Creating' \subseteq Creating /\ DOMAIN catalog' \subseteq DOMAIN catalog
    BY <1>5, PendingShrinks, NothingAdded
  <2>2. /\ Cardinality(Creating') <= Cardinality(Creating)
        /\ Cardinality(Creating') \in Nat
        /\ Cardinality(DOMAIN catalog') <= Cardinality(DOMAIN catalog)
        /\ Cardinality(DOMAIN catalog') \in Nat /\ IsFiniteSet(DOMAIN catalog')
    BY <2>1, PendingFinite, Smaller DEF TablesBounded
  <2>3. Cardinality(DOMAIN catalog') + Cardinality(Creating') <= MaxTables + Workers - 1
    BY <1>0, <2>2 DEF TablesBounded
  <2>4. QED
    BY <1>1, <1>3, <1>5, <2>2, <2>3 DEF TablesBounded
<1>6. QED
  BY <1>2, <1>4, <1>5

\* Nothing but a publish changes more of a record than its reference.
LEMMA OthersKeep ==
  ASSUME TypeInv, NEW w \in Worker, Act(w), ~PublishCreate(w), ~DeltaOf(w),
         NEW t \in DOMAIN catalog'
  PROVE  t \in DOMAIN catalog /\ SameBesides(catalog'[t], catalog[t])
<1>1. t \in DOMAIN catalog
  BY NothingAdded
<1>2. SameBesides(catalog[t], catalog[t])
  BY DEF SameBesides
<1>3. CASE Recheck(w) \/ Unref(w)
  BY <1>1, <1>3, RecheckStep, UnrefStep
<1>4. CASE ~Recheck(w) /\ ~Unref(w)
  <2>1. catalog'[t] = catalog[t]
    BY <1>1, <1>4, ActCases, PickStep, SqlIsServerStep, DropPublish, SweepStep
       DEF ServerStep
  <2>2. QED
    BY <1>1, <1>2, <2>1
<1>5. QED
  BY <1>3, <1>4

\* What a publish other than a create's may add to a table's ranges.
LEMMA RangesStay ==
  ASSUME TypeInv, NEW w \in Worker, Act(w), ~PublishCreate(w),
         NEW t \in DOMAIN catalog'
  PROVE  /\ t \in DOMAIN catalog
         /\ \/ catalog'[t].ranges \subseteq catalog[t].ranges
            \/ /\ w \in Adding(t) /\ ~Sent(w)'
               /\ catalog'[t].ranges \subseteq catalog[t].ranges \cup {job[w].base}
<1>1. t \in DOMAIN catalog
  BY NothingAdded
<1>2. CASE DeltaOf(w)
  <2>1. /\ job[w].step = "publish" /\ ~Sent(w)'
        /\ t # job[w].id => catalog'[t] = catalog[t]
        /\ t = job[w].id => Changes(job[w], catalog[t], catalog'[t])
    BY <1>1, <1>2, DeltaIsDeltaStep DEF DeltaStep, Sent, Idle
  <2>2. QED
    BY <1>1, <2>1 DEF Changes, Adding, Sent
<1>3. CASE ~DeltaOf(w)
  BY <1>1, <1>3, OthersKeep DEF SameBesides
<1>4. QED
  BY <1>2, <1>3 DEF DeltaOf

LEMMA CreatedRangesKept ==
  ASSUME TypeInv, RangesBounded, NEW w \in Worker, Act(w)
  PROVE  \A v \in Creating' :
           IsFiniteSet(job'[v].ranges) /\ Cardinality(job'[v].ranges) <= MaxParts
<1>1. MaxParts \in Nat
  BY ConfigTyped DEF TypeInv
<1>2. CASE Pick(w)
  BY <1>2, PickStep DEF Chosen, RangesBounded, Creating, Sent
<1>3. CASE ~Pick(w)
  <2>1. /\ \A v \in Worker \ {w} : job'[v] = job[v]
        /\ w \in Creating' => w \in Creating /\ job'[w].ranges \subseteq job[w].ranges
    BY <1>3, NobodyNew DEF GoesOn, Creating, Sent
  <2>2. ASSUME w \in Creating'
        PROVE  IsFiniteSet(job'[w].ranges) /\ Cardinality(job'[w].ranges) <= MaxParts
    <3>1. /\ IsFiniteSet(job[w].ranges) /\ Cardinality(job[w].ranges) <= MaxParts
          /\ job'[w].ranges \in SUBSET job[w].ranges
      BY <2>1, <2>2 DEF RangesBounded
    <3>2. /\ IsFiniteSet(job'[w].ranges) /\ Cardinality(job'[w].ranges) \in Nat
          /\ Cardinality(job[w].ranges) \in Nat
          /\ Cardinality(job'[w].ranges) <= Cardinality(job[w].ranges)
      BY <3>1, Smaller
    <3>3. QED
      BY <1>1, <3>1, <3>2
  <2>3. Creating' \subseteq Creating
    BY <1>3, PendingShrinks
  <2>4. QED
    BY <2>1, <2>2, <2>3 DEF RangesBounded, Creating
<1>4. QED
  BY <1>2, <1>3

LEMMA RangesBoundedKept ==
  ASSUME TypeInv, TablesBounded, RangesBounded, NEW w \in Worker, Act(w)
  PROVE  RangesBounded'
<1>0. /\ Workers \in Nat \ {0} /\ MaxParts \in Nat
      /\ Workers' = Workers /\ MaxParts' = MaxParts
  BY ConfigTyped, NobodyNew, PickStep DEF TypeInv, Workers, MaxParts
<1>1. ASSUME NEW t \in DOMAIN catalog'
      PROVE  /\ IsFiniteSet(catalog'[t].ranges)
             /\ Cardinality(catalog'[t].ranges) + Cardinality(Adding(t)')
                  <= MaxParts + Workers - 1
  <2> DEFINE before == catalog[t].ranges
             after  == catalog'[t].ranges
  <2>1. CASE PublishCreate(w)
    <3>1. ~Pick(w) /\ w \in Creating /\ ~Sent(w)'
      BY <2>1, CreatePublish, PickStep DEF Creating, Sent, CreateJob, Idle
    <3>2. CASE t = job[w].id
      <4>1. after = job[w].ranges /\ job'[w].step = "recheck"
        BY <2>1, <3>2, CreatePublish
      <4>2. IsFiniteSet(after) /\ Cardinality(after) <= MaxParts
        BY <3>1, <4>1 DEF RangesBounded
      <4>3. Adding(t)' \subseteq Busy' /\ w \in Busy' /\ w \notin Adding(t)'
        BY <3>1, <4>1 DEF Adding, Busy, Sent, Idle
      <4>4. Cardinality(Busy') <= Workers /\ IsFiniteSet(Busy')
        BY <1>0, TablesBoundedKept, PendingShrinks, <3>1, PendingFinite, Smaller
           DEF TablesBounded
      <4>5. /\ Cardinality(Adding(t)') + 1 <= Cardinality(Busy')
            /\ Cardinality(Adding(t)') \in Nat /\ Cardinality(Busy') \in Nat
        BY <4>3, <4>4, Smaller
      <4>6. Cardinality(after) \in Nat
        BY <4>2, FS_CardinalityType
      <4>7. QED
        BY <1>0, <4>2, <4>4, <4>5, <4>6
    <3>3. CASE t # job[w].id
      <4>0. /\ DOMAIN catalog' = DOMAIN catalog \cup {job[w].id}
            /\ \A s \in DOMAIN catalog : s # job[w].id => catalog'[s] = catalog[s]
        BY <2>1, CreatePublish
      <4>1. t \in DOMAIN catalog /\ after = before
        BY <3>3, <4>0
      <4>2. /\ Cardinality(Adding(t)') <= Cardinality(Adding(t))
            /\ Cardinality(Adding(t)') \in Nat /\ Cardinality(Adding(t)) \in Nat
        BY <3>1, PendingShrinks, PendingFinite, Smaller
      <4>3. /\ IsFiniteSet(before) /\ Cardinality(before) \in Nat
            /\ Cardinality(before) + Cardinality(Adding(t)) <= MaxParts + Workers - 1
        BY <4>1, FS_CardinalityType DEF RangesBounded
      <4>4. QED
        BY <1>0, <4>1, <4>2, <4>3
    <3>4. QED
      BY <3>2, <3>3
  <2>2. CASE ~PublishCreate(w)
    <3>1. t \in DOMAIN catalog
      BY <2>2, NothingAdded
    <3>2. /\ IsFiniteSet(before) /\ Cardinality(before) \in Nat
          /\ Cardinality(before) + Cardinality(Adding(t)) <= MaxParts + Workers - 1
          /\ Cardinality(Adding(t)) \in Nat
      BY <3>1, PendingFinite, FS_CardinalityType DEF RangesBounded
    <3>3. CASE Pick(w) /\ job'[w].kind = "part" /\ job'[w].id = t
      <4>1. after = before /\ Cardinality(before) <= MaxParts - 1
        BY <3>3, PickStep DEF Chosen
      <4>2. /\ Cardinality(Adding(t)') <= Cardinality(Busy')
            /\ Cardinality(Adding(t)') \in Nat /\ Cardinality(Busy') \in Nat
            /\ Cardinality(Busy') <= Workers
        BY <3>3, PickJoins, Smaller
      <4>3. QED
        BY <1>0, <3>2, <4>1, <4>2
    <3>4. CASE ~(Pick(w) /\ job'[w].kind = "part" /\ job'[w].id = t)
      <4>1. Adding(t)' \subseteq Adding(t)
        BY <3>4, PickJoins, PendingShrinks
      <4>2. /\ Cardinality(Adding(t)') <= Cardinality(Adding(t))
            /\ Cardinality(Adding(t)') \in Nat
            /\ \A v \in Adding(t) : v \notin Adding(t)' =>
                 Cardinality(Adding(t)') + 1 <= Cardinality(Adding(t))
        BY <4>1, PendingFinite, Smaller
      <4>3. CASE after \subseteq before
        <5>1. /\ IsFiniteSet(after) /\ Cardinality(after) \in Nat
              /\ Cardinality(after) <= Cardinality(before)
          BY <3>2, <4>3, Smaller
        <5>2. QED
          BY <1>0, <3>2, <4>2, <5>1
      <4>4. CASE /\ w \in Adding(t) /\ ~Sent(w)'
                 /\ after \subseteq before \cup {job[w].base}
        <5>1. /\ IsFiniteSet(before \cup {job[w].base})
              /\ Cardinality(before \cup {job[w].base}) <= Cardinality(before) + 1
          BY <3>2, OneMore
        <5>2. /\ IsFiniteSet(after) /\ Cardinality(after) \in Nat
              /\ Cardinality(before \cup {job[w].base}) \in Nat
              /\ Cardinality(after) <= Cardinality(before \cup {job[w].base})
          BY <4>4, <5>1, Smaller
        <5>3. w \notin Adding(t)'
          BY <4>4 DEF Adding
        <5>4. QED
          BY <1>0, <3>2, <4>2, <4>4, <5>1, <5>2, <5>3
      <4>5. QED
        BY <2>2, <4>3, <4>4, RangesStay
    <3>5. QED
      BY <3>3, <3>4
  <2>3. QED
    BY <2>1, <2>2
<1>2. QED
  BY <1>0, <1>1, CreatedRangesKept DEF RangesBounded

\* A publish other than a create's leaves a table's columns or does the ALTER.
LEMMA ColumnsStay ==
  ASSUME TypeInv, NEW w \in Worker, Act(w), ~PublishCreate(w),
         NEW t \in DOMAIN catalog'
  PROVE  /\ t \in DOMAIN catalog
         /\ \/ catalog'[t].cols = catalog[t].cols
            \/ /\ Sent(w) /\ job[w].kind = "alter" /\ job[w].id = t /\ ~Sent(w)'
               /\ catalog'[t].cols = (catalog[t].cols \ job[w].drops) \cup job[w].adds
<1>1. t \in DOMAIN catalog
  BY NothingAdded
<1>2. CASE DeltaOf(w)
  <2>1. /\ job[w].step = "publish" /\ ~Sent(w)'
        /\ t # job[w].id => catalog'[t] = catalog[t]
        /\ t = job[w].id => Changes(job[w], catalog[t], catalog'[t])
    BY <1>1, <1>2, DeltaIsDeltaStep DEF DeltaStep, Sent, Idle
  <2>2. QED
    BY <1>1, <2>1 DEF Changes, Sent
<1>3. CASE ~DeltaOf(w)
  BY <1>1, <1>3, OthersKeep DEF SameBesides
<1>4. QED
  BY <1>2, <1>3 DEF DeltaOf

LEMMA AddsKept ==
  ASSUME TypeInv, ColumnsKept, NEW w \in Worker, Act(w)
  PROVE  \A v \in Worker :
           Sent(v)' /\ job'[v].kind = "alter" => IsFiniteSet(job'[v].adds)
<1>1. CASE Pick(w)
  BY <1>1, PickStep DEF Chosen, ColumnsKept, Sent
<1>2. CASE ~Pick(w)
  BY <1>2, NobodyNew DEF ColumnsKept, GoesOn, Sent
<1>3. QED
  BY <1>1, <1>2

LEMMA DroppingShrinks ==
  ASSUME TypeInv, NEW w \in Worker, Act(w), ~Pick(w), NEW v \in Dropping'
  PROVE  /\ v \in Dropping /\ job'[v].id = job[v].id /\ job'[v].drops = job[v].drops
         /\ w = v => catalog' = catalog
BY NobodyNew DEF Dropping, Sent, GoesOn

LEMMA ColumnsKeptKept ==
  ASSUME TypeInv, IdsFresh, ColumnsKept, NEW w \in Worker, Act(w)
  PROVE  ColumnsKept'
<1>1. SUFFICES ASSUME "columns" \notin clashes'
               PROVE  /\ \A t \in DOMAIN catalog' : Two(catalog'[t].cols)
                      /\ \A v \in Dropping' :
                           /\ job'[v].id \in DOMAIN catalog' =>
                                Two(catalog'[job'[v].id].cols \ job'[v].drops)
                           /\ \A u \in Dropping' \ {v} : job'[u].id # job'[v].id
  BY AddsKept DEF ColumnsKept
<1>2. "columns" \notin clashes
  BY <1>1, PickStep, NobodyNew
<1>3. /\ \A t \in DOMAIN catalog : Two(catalog[t].cols)
      /\ \A v \in Dropping :
           /\ job[v].id \in DOMAIN catalog =>
                Two(catalog[job[v].id].cols \ job[v].drops)
           /\ \A u \in Dropping \ {v} : job[u].id # job[v].id
  BY <1>2 DEF ColumnsKept
<1>4. CASE Pick(w)
  <2>1. /\ catalog' = catalog /\ \A v \in Worker \ {w} : job'[v] = job[v]
        /\ Chosen(job'[w])
    BY <1>4, PickStep
  <2>2. \A v \in Dropping' \ {w} : v \in Dropping /\ v \in Worker /\ job'[v] = job[v]
    BY <2>1 DEF Dropping, Sent
  <2>3. ASSUME w \in Dropping'
        PROVE  /\ job'[w].id \in DOMAIN catalog
               /\ Two(catalog[job'[w].id].cols \ job'[w].drops)
               /\ \A v \in Dropping' \ {w} : job'[v].id # job'[w].id
    <3>1. /\ job'[w].kind = "alter" /\ job'[w].drops # {}
          /\ job'[w].id \in DOMAIN catalog
          /\ MayDrop(catalog[job'[w].id].cols, job'[w].drops)
      BY <2>1, <2>3 DEF Chosen, Dropping
    <3>2. Two(catalog[job'[w].id].cols \ job'[w].drops)
      BY <1>3, <3>1, FS_Subset DEF Two, MayDrop
    <3>3. ASSUME NEW v \in Dropping' \ {w} PROVE job'[v].id # job'[w].id
      <4>1. /\ v \in Worker /\ job[v].step \in {"sql", "publish"}
            /\ job[v].kind = "alter" /\ job[v].drops # {} /\ job'[v] = job[v]
        BY <2>2, <3>3 DEF Dropping, Sent
      <4>2. v \in Busy
        BY <4>1 DEF Busy, Idle
      <4>3. Clash(job[v], job'[w]) \subseteq clashes'
        BY <1>4, <4>2, PickStep
      <4>4. job[v].id = job'[w].id => "columns" \in Clash(job[v], job'[w])
        BY <3>1, <4>1 DEF Clash
      <4>5. QED
        BY <1>1, <4>1, <4>3, <4>4
    <3>4. QED
      BY <3>1, <3>2, <3>3
  <2>4. QED
    BY <1>3, <2>1, <2>2, <2>3
<1>5. CASE ~Pick(w)
  <2>1. \A v \in Dropping' : \A u \in Dropping' \ {v} : job'[u].id # job'[v].id
    BY <1>3, <1>5, DroppingShrinks
  <2>2. CASE PublishCreate(w)
    <3>1. /\ w \in Creating /\ DOMAIN catalog' = DOMAIN catalog \cup {job[w].id}
          /\ \A t \in DOMAIN catalog : t # job[w].id => catalog'[t] = catalog[t]
          /\ catalog'[job[w].id].cols = 0 .. NewCols
      BY <2>2, CreatePublish DEF Creating, Sent, CreateJob
    <3>2. Two(0 .. NewCols)
      <4>1. NewCols \in Nat \ {0}
        BY ConfigTyped DEF TypeInv
      <4>2. IsFiniteSet(0 .. NewCols) /\ Cardinality(0 .. NewCols) = NewCols - 0 + 1
        BY <4>1, FS_Interval
      <4>3. QED
        BY <4>1, <4>2 DEF Two
    <3>3. \A t \in DOMAIN catalog' : Two(catalog'[t].cols)
      BY <1>3, <3>1, <3>2
    <3>4. ASSUME NEW v \in Dropping', job'[v].id \in DOMAIN catalog'
          PROVE  Two(catalog'[job'[v].id].cols \ job'[v].drops)
      <4>1. /\ v \in Dropping /\ job'[v].id = job[v].id /\ job'[v].drops = job[v].drops
        BY <1>5, <3>4, DroppingShrinks
      <4>2. v # w /\ v \in Worker /\ Sent(v)
        BY <3>1, <4>1 DEF Dropping, Creating
      <4>3. job[v].id # job[w].id
        BY <3>1, <4>2 DEF IdsFresh
      <4>4. QED
        BY <1>3, <3>1, <3>4, <4>1, <4>3
    <3>5. QED
      BY <2>1, <3>3, <3>4
  <2>3. CASE ~PublishCreate(w)
    <3>1. ASSUME NEW t \in DOMAIN catalog' PROVE Two(catalog'[t].cols)
      <4>1. t \in DOMAIN catalog /\ Two(catalog[t].cols)
        BY <1>3, <2>3, NothingAdded
      <4>2. CASE catalog'[t].cols = catalog[t].cols
        BY <4>1, <4>2
      <4>3. CASE /\ Sent(w) /\ job[w].kind = "alter" /\ job[w].id = t
                 /\ catalog'[t].cols = (catalog[t].cols \ job[w].drops) \cup job[w].adds
        <5>1. IsFiniteSet(job[w].adds)
          BY <4>3 DEF ColumnsKept
        <5>2. Two(catalog[t].cols \ job[w].drops)
          <6>1. CASE job[w].drops = {}
            <7>1. catalog[t].cols \ job[w].drops = catalog[t].cols
              BY <6>1
            <7>2. QED
              BY <4>1, <7>1
          <6>2. CASE job[w].drops # {}
            BY <1>3, <4>1, <4>3, <6>2 DEF Dropping
          <6>3. QED
            BY <6>1, <6>2
        <5>3. QED
          BY <4>3, <5>1, <5>2, TwoAndMore
      <4>4. QED
        BY <2>3, <4>2, <4>3, ColumnsStay
    <3>2. ASSUME NEW v \in Dropping', job'[v].id \in DOMAIN catalog'
          PROVE  Two(catalog'[job'[v].id].cols \ job'[v].drops)
      <4> DEFINE t == job[v].id
      <4>1. /\ v \in Dropping /\ job'[v].id = t /\ job'[v].drops = job[v].drops
            /\ w = v => catalog' = catalog
        BY <1>5, <3>2, DroppingShrinks
      <4>2. t \in DOMAIN catalog /\ Two(catalog[t].cols \ job[v].drops)
        BY <1>3, <2>3, <3>2, <4>1, NothingAdded
      <4>3. CASE catalog'[t].cols = catalog[t].cols
        BY <4>1, <4>2, <4>3
      <4>4. CASE /\ w # v /\ Sent(w) /\ job[w].kind = "alter" /\ job[w].id = t
                 /\ catalog'[t].cols = (catalog[t].cols \ job[w].drops) \cup job[w].adds
        <5>1. job[w].drops = {}
          BY <1>3, <4>1, <4>4 DEF Dropping
        <5>2. catalog[t].cols \ job[v].drops \subseteq catalog'[t].cols \ job[v].drops
          BY <4>4, <5>1
        <5>3. IsFiniteSet(catalog'[t].cols \ job[v].drops)
          BY <3>1, <3>2, <4>1, FS_Difference DEF Two
        <5>4. QED
          BY <4>1, <4>2, <5>2, <5>3, TwoGrows
      <4>5. QED
        BY <2>3, <3>2, <4>1, <4>3, <4>4, ColumnsStay
    <3>3. QED
      BY <2>1, <3>1, <3>2
  <2>4. QED
    BY <2>2, <2>3
<1>6. QED
  BY <1>4, <1>5

-----------------------------------------------------------------------------
(* The theorems.                                                             *)

Inv == /\ TypeInv /\ RefsCovered /\ IdsFresh /\ TablesBounded /\ RangesBounded
       /\ ColumnsKept

LEMMA InitInv == Init => Inv
<1> SUFFICES ASSUME Init PROVE Inv
  OBVIOUS
<1>1. /\ config \in Config /\ catalog = << >> /\ drawn = FirstDraw
      /\ job = [w \in Worker |-> Idle] /\ clashes = {}
  BY DdlAssumption DEF Init
<1>2. FirstDraw \in Nat /\ Workers \in Nat \ {0} /\ MaxTables \in Nat
  BY <1>1, ConfigTyped
<1>3. TypeInv
  BY <1>1, <1>2 DEF TypeInv, CatalogType, AnyJob
<1>4. Busy = {} /\ Creating = {} /\ Dropping = {} /\ \A w \in Worker : ~Sent(w)
  BY <1>1 DEF Busy, Creating, Dropping, Sent, Idle
<1>5. DOMAIN catalog = {}
  BY <1>1
<1>6. RefsCovered /\ IdsFresh /\ RangesBounded /\ ColumnsKept
  BY <1>4, <1>5 DEF RefsCovered, IdsFresh, RangesBounded, ColumnsKept
<1>7. TablesBounded
  BY <1>2, <1>4, <1>5, FS_EmptySet DEF TablesBounded
<1>8. QED
  BY <1>3, <1>6, <1>7 DEF Inv

LEMMA StutterInv == Inv /\ UNCHANGED vars => Inv'
<1> SUFFICES ASSUME Inv, UNCHANGED vars PROVE Inv'
  OBVIOUS
<1>1. /\ config' = config /\ catalog' = catalog /\ drawn' = drawn /\ job' = job
      /\ clashes' = clashes
  BY DEF vars
<1>2. TypeInv'
  BY <1>1 DEF Inv, TypeInv, CatalogType
<1>3. RefsCovered' /\ IdsFresh'
  BY <1>1 DEF Inv, RefsCovered, Handles, IdsFresh, Sent, Creating
<1>4. Workers' = Workers /\ MaxTables' = MaxTables /\ MaxParts' = MaxParts
  BY <1>1 DEF Workers, MaxTables, MaxParts
<1>5. /\ Busy' = Busy /\ Creating' = Creating /\ Dropping' = Dropping
      /\ \A t : Adding(t)' = Adding(t)
  BY <1>1 DEF Busy, Creating, Dropping, Adding, Sent
<1>6. TablesBounded' /\ RangesBounded'
  BY <1>1, <1>4, <1>5 DEF Inv, TablesBounded, RangesBounded
<1>7. ColumnsKept'
  BY <1>1, <1>5 DEF Inv, ColumnsKept, Sent
<1>8. QED
  BY <1>2, <1>3, <1>6, <1>7 DEF Inv

LEMMA NextInv == Inv /\ [Next]_vars => Inv'
<1> SUFFICES ASSUME Inv, [Next]_vars PROVE Inv'
  OBVIOUS
<1>1. CASE UNCHANGED vars
  BY <1>1, StutterInv
<1>2. CASE Stop
  BY <1>2, StutterInv DEF Stop
<1>3. ASSUME NEW w \in Worker, Act(w)
      PROVE  Inv'
  <2>1. TypeInv /\ RefsCovered /\ IdsFresh /\ TablesBounded /\ RangesBounded
        /\ ColumnsKept
    BY DEF Inv
  <2>2. TypeInv'
    BY <1>3, <2>1, ActTyped
  <2>3. RefsCovered'
    BY <1>3, <2>1, RefsCoveredKept
  <2>4. IdsFresh'
    BY <1>3, <2>1, IdsFreshKept
  <2>5. TablesBounded'
    BY <1>3, <2>1, TablesBoundedKept
  <2>6. RangesBounded'
    BY <1>3, <2>1, RangesBoundedKept
  <2>7. ColumnsKept'
    BY <1>3, <2>1, ColumnsKeptKept
  <2>8. QED
    BY <2>2, <2>3, <2>4, <2>5, <2>6, <2>7 DEF Inv
<1>4. QED
  BY <1>1, <1>2, <1>3 DEF Next

LEMMA AlwaysInv == Spec => []Inv
BY InitInv, NextInv, PTL DEF Spec

\* NoReferenceDangles: however CreateTable's re-check, DropTable's sweep and the
\* deltas of any number of workers interleave (ddl.cpp), once all are done every
\* reference of the catalog leads to a table of the catalog.
THEOREM NoReferenceDangles == Spec => []NoDanglingRefs
<1>1. Inv => NoDanglingRefs
  BY DEF Inv, RefsCovered, Handles, NoDanglingRefs, AtRest, Busy, Idle
<1>2. QED
  BY <1>1, AlwaysInv, PTL

\* LimitsOvershotByOthersOnly: the checks of ddl.cpp that come before the SQL
\* keep the limits of DdlConfig up to one table, or one partition of a table,
\* for every other worker, whatever the limits and however many the workers;
\* and a table keeps a second column unless two ALTERs drop columns of it at
\* the same time.
THEOREM LimitsOvershotByOthersOnly == Spec => []LimitsHold
<1>1. Inv => LimitsHold
  <2> SUFFICES ASSUME Inv PROVE LimitsHold
    OBVIOUS
  <2>1. Workers \in Nat \ {0} /\ MaxTables \in Nat /\ MaxParts \in Nat
    BY ConfigTyped DEF Inv, TypeInv
  <2>2. Cardinality(DOMAIN catalog) <= MaxTables + (Workers - 1)
    <3>1. Cardinality(DOMAIN catalog) \in Nat /\ Cardinality(Creating) \in Nat
      BY PendingFinite, FS_CardinalityType DEF Inv, TablesBounded
    <3>2. QED
      BY <2>1, <3>1 DEF Inv, TablesBounded
  <2>3. ASSUME NEW t \in DOMAIN catalog
        PROVE  Cardinality(catalog[t].ranges) <= MaxParts + (Workers - 1)
    <3>1. Cardinality(catalog[t].ranges) \in Nat /\ Cardinality(Adding(t)) \in Nat
      BY PendingFinite, FS_CardinalityType DEF Inv, RangesBounded
    <3>2. QED
      BY <2>1, <3>1 DEF Inv, RangesBounded
  <2>4. ASSUME NEW t \in DOMAIN catalog, "columns" \notin clashes
        PROVE  Cardinality(catalog[t].cols) >= 2
    BY <2>4 DEF Inv, ColumnsKept, Two
  <2>5. QED
    BY <2>2, <2>3, <2>4 DEF LimitsHold
<1>2. QED
  BY <1>1, AlwaysInv, PTL

\* TypesHold: every record, job and number of a state is of its type.
THEOREM TypesHold == Spec => []TypeInv
BY AlwaysInv, PTL DEF Inv

-----------------------------------------------------------------------------
(* The server's tables: what a statement does to them.                       *)

ServerType == /\ DOMAIN server \subseteq Nat
              /\ server \in [DOMAIN server -> ServerRec]

Bases(r) == {p.base : p \in r.ranges}

\* Of the tables, t is replaced.
Replaced(t) == /\ ServerType' /\ DOMAIN server' = DOMAIN server
               /\ t \in DOMAIN server
               /\ \A s \in DOMAIN server \ {t} : server'[s] = server[s]

LEMMA SetTyped ==
  ASSUME ServerType, NEW t \in DOMAIN server, NEW n \in ServerRec,
         server' = [server EXCEPT ![t] = n]
  PROVE  Replaced(t) /\ server'[t] = n
BY DEF ServerType, Replaced

LEMMA UnreferencedTyped ==
  ASSUME NEW tables, NEW D, tables \in [D -> ServerRec], NEW id
  PROVE  /\ Unreferenced(tables, id) \in [D -> ServerRec]
         /\ \A t \in D :
              /\ SameBesides(Unreferenced(tables, id)[t], tables[t])
              /\ Unreferenced(tables, id)[t].ref =
                   IF tables[t].ref = id THEN NoId ELSE tables[t].ref
<1>1. \A r \in ServerRec :
        /\ [r EXCEPT !.ref = NoId] \in ServerRec
        /\ SameBesides([r EXCEPT !.ref = NoId], r)
        /\ [r EXCEPT !.ref = NoId].ref = NoId
  BY DEF ServerRec, NoId, SameBesides
<1>2. \A t \in D : tables[t] \in ServerRec /\ SameBesides(tables[t], tables[t])
  BY DEF SameBesides
<1>3. DOMAIN tables = D
  OBVIOUS
<1> DEFINE u == Unreferenced(tables, id)
           Cleared(r) == [r EXCEPT !.ref = NoId]
<1>4. u = [t \in D |-> IF tables[t].ref = id THEN Cleared(tables[t]) ELSE tables[t]]
  BY <1>3 DEF Unreferenced
<1>5. \A r \in ServerRec : /\ Cleared(r) \in ServerRec /\ SameBesides(Cleared(r), r)
                           /\ Cleared(r).ref = NoId
  BY <1>1
<1> HIDE DEF u, Cleared
<1>6. u \in [D -> ServerRec]
  BY <1>2, <1>4, <1>5
<1>7. ASSUME NEW t \in D
      PROVE  /\ SameBesides(u[t], tables[t])
             /\ u[t].ref = IF tables[t].ref = id THEN NoId ELSE tables[t].ref
  BY <1>2, <1>4, <1>5
<1>8. QED
  BY <1>6, <1>7 DEF u

\* A statement that succeeds leaves its delta to be published.
Executed(w, kind) ==
  /\ job[w].step = "sql" /\ job[w].kind = kind /\ job'[w].step = "publish"
  /\ GoesOn(job'[w], job[w]) /\ UNCHANGED << config, catalog, drawn, clashes >>
  /\ \A v \in Worker \ {w} : job'[v] = job[v]

LEMMA IsExecuted ==
  ASSUME TypeInv, NEW w \in Worker, NEW kind, kind # "create",
         Sends(w, kind), Succeeds(w), UNCHANGED << config, catalog, drawn, clashes >>
  PROVE  Executed(w, kind)
<1>1. /\ job \in [Worker -> AnyJob] /\ job[w] \in AnyJob
      /\ job[w].step = "sql" /\ job[w].kind = kind
  BY DEF TypeInv, Sends
<1>2. /\ job'[w] = [job[w] EXCEPT !.step = "publish"]
      /\ \A v \in Worker \ {w} : job'[v] = job[v]
  BY <1>1, JobGoes DEF Succeeds
<1>3. job'[w].step = "publish" /\ GoesOn(job'[w], job[w])
  BY <1>1, <1>2, Published
<1>4. QED
  BY <1>1, <1>2, <1>3 DEF Executed

LEMMA AlterEffect ==
  ASSUME TypeInv, ServerType, NEW w \in Worker, AlterSql(w)
  PROVE  /\ Executed(w, "alter") /\ job[w] \in AlterJob
         /\ \E t \in Named(job[w].says) :
              /\ Replaced(t)
              /\ job[w].drops \cup job[w].widens \subseteq server[t].cols
              /\ server'[t].name = server[t].name
              /\ server'[t].parted = server[t].parted
              /\ server'[t].ranges = server[t].ranges
              /\ server'[t].cols = (server[t].cols \ job[w].drops) \cup job[w].adds
              /\ server'[t].wide = (server[t].wide \ job[w].drops) \cup job[w].widens
              /\ server'[t].idx = Cut(server[t].idx, job[w].drops)
              /\ server'[t].ref = IF FkCol \in job[w].drops THEN NoId
                                  ELSE server[t].ref
<1> DEFINE j == job[w]
           Cols(r) == (r.cols \ j.drops) \cup j.adds
           Wide(r) == (r.wide \ j.drops) \cup j.widens
           Ref(r)  == IF FkCol \in j.drops THEN NoId ELSE r.ref
           Idx(r)  == Cut(r.idx, j.drops)
<1>1. Sends(w, "alter") /\ Succeeds(w) /\ UNCHANGED << config, catalog, drawn, clashes >>
  BY Zenon DEF AlterSql, ServerOnly
<1>2. Executed(w, "alter")
  BY <1>1, IsExecuted
<1>3. j \in AlterJob
  BY <1>1, JobByStep DEF Sends, TypeInv
<1>4. PICK t \in Named(j.says) :
        /\ j.drops \cup j.widens \subseteq server[t].cols
        /\ server' = [server EXCEPT ![t] =
             [server[t] EXCEPT !.cols = Cols(server[t]), !.wide = Wide(server[t]),
                               !.ref = Ref(server[t]), !.idx = Idx(server[t])]]
  BY Zenon DEF AlterSql, Cut
<1> DEFINE r == server[t]
<1>5. t \in DOMAIN server /\ r \in ServerRec
  BY <1>4 DEF Named, ServerType
<1>6. Idx(r) \in SUBSET Index
  BY <1>5, CutTyped DEF ServerRec
<1>7. Cols(r) \in SUBSET Nat /\ Wide(r) \in SUBSET Nat /\ Ref(r) \in Nat
  BY <1>3, <1>5 DEF AlterJob, ServerRec, NoId
<1> DEFINE c == Cols(r)
           d == Wide(r)
           f == Ref(r)
           i == Idx(r)
           n == [r EXCEPT !.cols = c, !.wide = d, !.ref = f, !.idx = i]
<1>8. server' = [server EXCEPT ![t] = n]
  BY <1>4, Zenon
<1>9. c \in SUBSET Nat /\ d \in SUBSET Nat /\ f \in Nat /\ i \in SUBSET Index
  BY <1>6, <1>7
<1> HIDE DEF Cols, Wide, Ref, Idx, c, d, f, i
<1>10. /\ n \in ServerRec /\ n.cols = c /\ n.wide = d /\ n.ref = f /\ n.idx = i
       /\ n.name = r.name /\ n.parted = r.parted /\ n.ranges = r.ranges
  BY <1>5, <1>9 DEF ServerRec
<1> HIDE DEF n
<1>11. Replaced(t) /\ server'[t] = n
  BY <1>5, <1>8, <1>10, SetTyped
<1>12. /\ c = (r.cols \ j.drops) \cup j.adds /\ d = (r.wide \ j.drops) \cup j.widens
       /\ f = (IF FkCol \in j.drops THEN NoId ELSE r.ref) /\ i = Cut(r.idx, j.drops)
  BY Zenon DEF c, d, f, i, Cols, Wide, Ref, Idx
<1>13. QED
  BY <1>2, <1>3, <1>4, <1>10, <1>11, <1>12, Zenon

\* r but for its name, its indexes, its ranges.
LEMMA RenamedTyped ==
  ASSUME NEW r \in ServerRec, NEW name \in Nat, NEW n, n = [r EXCEPT !.name = name]
  PROVE  n \in ServerRec /\ n.name = name /\ n.cols = r.cols /\ n.wide = r.wide
         /\ n.ref = r.ref /\ n.idx = r.idx /\ n.parted = r.parted
         /\ n.ranges = r.ranges
BY DEF ServerRec

LEMMA IndexedTyped ==
  ASSUME NEW r \in ServerRec, NEW idx \in SUBSET Index, NEW n, n = [r EXCEPT !.idx = idx]
  PROVE  n \in ServerRec /\ n.idx = idx /\ n.name = r.name /\ n.cols = r.cols
         /\ n.wide = r.wide /\ n.ref = r.ref /\ n.parted = r.parted
         /\ n.ranges = r.ranges
BY DEF ServerRec

LEMMA RangedTyped ==
  ASSUME NEW r \in ServerRec, NEW ranges \in SUBSET [base : Nat, prefix : Nat],
         NEW n, n = [r EXCEPT !.ranges = ranges]
  PROVE  n \in ServerRec /\ n.ranges = ranges /\ n.name = r.name /\ n.cols = r.cols
         /\ n.wide = r.wide /\ n.ref = r.ref /\ n.idx = r.idx
         /\ n.parted = r.parted
<1> DEFINE S == [base : Nat, prefix : Nat]
<1>1. ranges \in SUBSET S
  OBVIOUS
<1>2. ServerRec = [name : Nat, cols : SUBSET Nat, wide : SUBSET Nat, ref : Nat,
                   idx : SUBSET Index, parted : BOOLEAN, ranges : SUBSET S]
  BY DEF ServerRec
<1> HIDE DEF S
<1>3. QED
  BY <1>1, <1>2

\* The records but for one field each.
SameButName(n, r) ==
  /\ n.cols = r.cols /\ n.wide = r.wide /\ n.ref = r.ref /\ n.idx = r.idx
  /\ n.parted = r.parted /\ n.ranges = r.ranges
SameButIdx(n, r) ==
  /\ n.name = r.name /\ n.cols = r.cols /\ n.wide = r.wide /\ n.ref = r.ref
  /\ n.parted = r.parted /\ n.ranges = r.ranges
SameButRanges(n, r) ==
  /\ n.name = r.name /\ n.cols = r.cols /\ n.wide = r.wide /\ n.ref = r.ref
  /\ n.idx = r.idx /\ n.parted = r.parted

LEMMA RenameEffect ==
  ASSUME TypeInv, ServerType, NEW w \in Worker, RenameSql(w)
  PROVE  /\ Executed(w, "rename") /\ job[w] \in RenameJob
         /\ \E t \in Named(job[w].says) :
              /\ Replaced(t) /\ SameButName(server'[t], server[t])
              /\ server'[t].name = job[w].to
<1>1. /\ Sends(w, "rename") /\ Succeeds(w)
      /\ UNCHANGED << config, catalog, drawn, clashes >>
      /\ \E t \in Named(job[w].says) : server' = [server EXCEPT ![t].name = job[w].to]
  BY Zenon DEF RenameSql, ServerOnly
<1>2. Executed(w, "rename")
  BY <1>1, IsExecuted
<1>3. job[w] \in RenameJob
  BY <1>1, JobByStep DEF Sends, TypeInv
<1>4. PICK t \in Named(job[w].says) : server' = [server EXCEPT ![t].name = job[w].to]
  BY <1>1
<1> DEFINE n == [server[t] EXCEPT !.name = job[w].to]
<1>5. t \in DOMAIN server /\ server[t] \in ServerRec /\ job[w].to \in Nat
  BY <1>3, <1>4 DEF Named, ServerType, RenameJob
<1>6. server' = [server EXCEPT ![t] = n]
  BY <1>4, Zenon
<1>7. n \in ServerRec /\ n.name = job[w].to /\ SameButName(n, server[t])
  BY <1>5, RenamedTyped DEF SameButName
<1> HIDE DEF n
<1>8. Replaced(t) /\ server'[t] = n
  BY <1>5, <1>6, <1>7, SetTyped
<1>9. QED
  BY <1>2, <1>3, <1>4, <1>7, <1>8

LEMMA IndexEffect ==
  ASSUME TypeInv, ServerType, NEW w \in Worker, CreateIndexSql(w)
  PROVE  /\ job[w] \in IndexJob /\ job[w].kind = "index" /\ ServerType'
         /\ Executed(w, "index") \/ "invalid index" \in clashes'
         /\ \E t \in Named(job[w].says) :
              /\ Replaced(t) /\ SameButIdx(server'[t], server[t])
              /\ server'[t].idx = server[t].idx \cup {job[w].index}
<1>1. /\ Sends(w, "index") /\ UNCHANGED << config, catalog, drawn >>
      /\ \/ Succeeds(w) /\ UNCHANGED clashes
         \/ HalfDone("invalid index")
      /\ \E t \in Named(job[w].says) :
           server' = [server EXCEPT ![t].idx = @ \cup {job[w].index}]
  BY Zenon DEF CreateIndexSql
<1>2. Executed(w, "index") \/ "invalid index" \in clashes'
  BY <1>1, IsExecuted DEF HalfDone
<1>3. job[w] \in IndexJob /\ job[w].kind = "index"
  BY <1>1, JobByStep DEF Sends, TypeInv
<1>4. PICK t \in Named(job[w].says) :
        server' = [server EXCEPT ![t].idx = @ \cup {job[w].index}]
  BY <1>1
<1> DEFINE i == server[t].idx \cup {job[w].index}
           n == [server[t] EXCEPT !.idx = i]
<1>5. t \in DOMAIN server /\ server[t] \in ServerRec /\ job[w].index \in Index
  BY <1>3, <1>4 DEF Named, ServerType, IndexJob
<1>6. server' = [server EXCEPT ![t] = n]
  BY <1>4, Zenon
<1>7. i \in SUBSET Index
  BY <1>5 DEF ServerRec
<1> HIDE DEF i
<1>8. n \in ServerRec /\ n.idx = i /\ SameButIdx(n, server[t])
  BY <1>5, <1>7, IndexedTyped DEF SameButIdx
<1> HIDE DEF n
<1>9. Replaced(t) /\ server'[t] = n
  BY <1>5, <1>6, <1>8, SetTyped
<1>10. ServerType'
  BY <1>9 DEF Replaced
<1>11. QED
  BY <1>2, <1>3, <1>4, <1>8, <1>9, <1>10 DEF i

LEMMA NoIndexEffect ==
  ASSUME TypeInv, ServerType, NEW w \in Worker, DropIndexSql(w)
  PROVE  /\ Executed(w, "unindex") /\ job[w] \in NoIndexJob
         /\ \E t \in DOMAIN server :
              /\ Postgres \/ t \in Named(job[w].says)
              /\ \E x \in server[t].idx : x.no = job[w].no
              /\ Replaced(t) /\ SameButIdx(server'[t], server[t])
              /\ server'[t].idx = Minus(server[t].idx, {job[w].no})
<1>1. /\ Sends(w, "unindex") /\ Succeeds(w)
      /\ UNCHANGED << config, catalog, drawn, clashes >>
  BY Zenon DEF DropIndexSql, ServerOnly
<1>2. Executed(w, "unindex")
  BY <1>1, IsExecuted
<1>3. job[w] \in NoIndexJob
  BY <1>1, JobByStep DEF Sends, TypeInv
<1>4. PICK t \in IF Postgres THEN DOMAIN server ELSE Named(job[w].says) :
        /\ \E x \in server[t].idx : x.no = job[w].no
        /\ server' = [server EXCEPT ![t].idx = {x \in @ : x.no # job[w].no}]
  BY Zenon DEF DropIndexSql
<1> DEFINE i == {x \in server[t].idx : x.no # job[w].no}
           n == [server[t] EXCEPT !.idx = i]
<1>5. /\ t \in DOMAIN server /\ server[t] \in ServerRec
      /\ Postgres \/ t \in Named(job[w].says)
  BY <1>4 DEF Named, ServerType
<1>6. server' = [server EXCEPT ![t] = n]
  BY <1>4, Zenon
<1>7. i \in SUBSET Index /\ i = Minus(server[t].idx, {job[w].no})
  BY <1>5 DEF ServerRec, Minus
<1> HIDE DEF i
<1>8. n \in ServerRec /\ n.idx = i /\ SameButIdx(n, server[t])
  BY <1>5, <1>7, IndexedTyped DEF SameButIdx
<1> HIDE DEF n
<1>9. Replaced(t) /\ server'[t] = n
  BY <1>5, <1>6, <1>8, SetTyped
<1>10. QED
  BY <1>2, <1>3, <1>4, <1>5, <1>7, <1>8, <1>9

LEMMA RangeEffect ==
  ASSUME TypeInv, ServerType, NEW w \in Worker, CreatePartitionSql(w)
  PROVE  /\ Executed(w, "part") /\ job[w] \in RangeJob
         /\ \E t \in Named(job[w].says) :
              /\ Replaced(t) /\ SameButRanges(server'[t], server[t])
              /\ server'[t].ranges =
                   server[t].ranges \cup {[base |-> job[w].base, prefix |-> job[w].says]}
<1>1. /\ Sends(w, "part") /\ Succeeds(w)
      /\ UNCHANGED << config, catalog, drawn, clashes >>
  BY Zenon DEF CreatePartitionSql, ServerOnly
<1>2. Executed(w, "part")
  BY <1>1, IsExecuted
<1>3. job[w] \in RangeJob
  BY <1>1, JobByStep DEF Sends, TypeInv
<1> DEFINE p == [base |-> job[w].base, prefix |-> job[w].says]
<1>4. PICK t \in Named(job[w].says) :
        server' = [server EXCEPT ![t].ranges = @ \cup {p}]
  BY Zenon DEF CreatePartitionSql
<1> DEFINE g == server[t].ranges \cup {p}
           n == [server[t] EXCEPT !.ranges = g]
           S == [base : Nat, prefix : Nat]
<1>5. t \in DOMAIN server /\ server[t] \in ServerRec /\ p \in S
  BY <1>3, <1>4 DEF Named, ServerType, RangeJob
<1>6. server' = [server EXCEPT ![t] = n]
  BY <1>4, Zenon
<1>7. server[t].ranges \in SUBSET S
  BY <1>5 DEF ServerRec
<1> HIDE DEF p, S
<1>8. g \in SUBSET S
  BY <1>5, <1>7
<1> HIDE DEF g
<1>9. n \in ServerRec /\ n.ranges = g /\ SameButRanges(n, server[t])
  BY <1>5, <1>8, RangedTyped DEF SameButRanges, S
<1> HIDE DEF n
<1>10. Replaced(t) /\ server'[t] = n
  BY <1>5, <1>6, <1>9, SetTyped
<1>11. server'[t].ranges = server[t].ranges \cup {p}
  BY <1>9, <1>10 DEF g
<1>12. QED
  BY <1>2, <1>3, <1>4, <1>9, <1>10, <1>11 DEF p

LEMMA NoRangeEffect ==
  ASSUME TypeInv, ServerType, NEW w \in Worker, DropPartitionSql(w)
  PROVE  /\ Executed(w, "unpart") /\ job[w] \in NoRangeJob
         /\ ServerType' /\ DOMAIN server' = DOMAIN server
         /\ \E t \in DOMAIN server : \E p \in server[t].ranges :
              /\ p.base = job[w].base
              /\ IF Postgres THEN p.prefix = job[w].says
                 ELSE t \in Named(job[w].says) /\ server[t].ranges # {p}
              /\ \A s \in DOMAIN server \ {t} : SameBesides(server'[s], server[s])
              /\ server'[t].name = server[t].name /\ server'[t].cols = server[t].cols
              /\ server'[t].wide = server[t].wide /\ server'[t].idx = server[t].idx
              /\ server'[t].parted = server[t].parted
              /\ server'[t].ranges = server[t].ranges \ {p}
              /\ \A s \in DOMAIN server :
                   server'[s].ref = IF Postgres /\ server[s].ref = t THEN NoId
                                    ELSE server[s].ref
<1>1. /\ Sends(w, "unpart") /\ Succeeds(w)
      /\ UNCHANGED << config, catalog, drawn, clashes >>
  BY Zenon DEF DropPartitionSql, ServerOnly
<1>2. Executed(w, "unpart")
  BY <1>1, IsExecuted
<1>3. job[w] \in NoRangeJob
  BY <1>1, JobByStep DEF Sends, TypeInv
<1>4. PICK t \in DOMAIN server : \E p \in server[t].ranges :
        /\ p.base = job[w].base
        /\ IF Postgres THEN p.prefix = job[w].says
           ELSE server[t].name = job[w].says /\ server[t].ranges # {p}
        /\ LET cut == [server EXCEPT ![t].ranges = @ \ {p}]
           IN  server' = IF Postgres THEN Unreferenced(cut, t) ELSE cut
  BY Zenon DEF DropPartitionSql
<1>5. PICK p \in server[t].ranges :
        /\ p.base = job[w].base
        /\ IF Postgres THEN p.prefix = job[w].says
           ELSE server[t].name = job[w].says /\ server[t].ranges # {p}
        /\ LET cut == [server EXCEPT ![t].ranges = @ \ {p}]
           IN  server' = IF Postgres THEN Unreferenced(cut, t) ELSE cut
  BY <1>4, Zenon
<1> DEFINE S == [base : Nat, prefix : Nat]
           g == server[t].ranges \ {p}
           n == [server[t] EXCEPT !.ranges = g]
           cut == [server EXCEPT ![t] = n]
           D == DOMAIN server
<1>6. server[t] \in ServerRec /\ server \in [D -> ServerRec]
  BY DEF ServerType
<1>7. server' = IF Postgres THEN Unreferenced(cut, t) ELSE cut
  BY <1>5, Zenon
<1>8. g \in SUBSET S
  BY <1>6 DEF ServerRec
<1> HIDE DEF g
<1>9. n \in ServerRec /\ n.ranges = g /\ SameButRanges(n, server[t])
  BY <1>6, <1>8, RangedTyped DEF SameButRanges
<1> HIDE DEF n, D
<1>10. /\ cut \in [D -> ServerRec] /\ cut[t] = n
       /\ \A s \in D \ {t} : cut[s] = server[s]
  BY <1>6, <1>9
<1> HIDE DEF cut
<1>11. \A s \in D : SameBesides(cut[s], cut[s])
  BY DEF SameBesides
<1>12. /\ server' \in [D -> ServerRec]
       /\ \A s \in D :
            /\ SameBesides(server'[s], cut[s])
            /\ server'[s].ref = IF Postgres /\ cut[s].ref = t THEN NoId ELSE cut[s].ref
  <2>1. CASE Postgres
    <3>1. server' = Unreferenced(cut, t)
      BY <1>7, <2>1
    <3>2. /\ Unreferenced(cut, t) \in [D -> ServerRec]
          /\ \A s \in D :
               /\ SameBesides(Unreferenced(cut, t)[s], cut[s])
               /\ Unreferenced(cut, t)[s].ref =
                    IF cut[s].ref = t THEN NoId ELSE cut[s].ref
      BY <1>10, UnreferencedTyped
    <3>3. QED
      BY <2>1, <3>1, <3>2
  <2>2. CASE ~Postgres
    BY <1>7, <1>10, <1>11, <2>2
  <2>3. QED
    BY <2>1, <2>2
<1>13. D \subseteq Nat /\ t \in D
  BY DEF ServerType, D
<1>14. ServerType' /\ DOMAIN server' = D
  BY <1>12, <1>13 DEF ServerType
<1>15. \A s \in D : cut[s].ref = server[s].ref
  BY <1>9, <1>10 DEF SameButRanges
<1>16. \A s \in D : server'[s].ref = IF Postgres /\ server[s].ref = t THEN NoId
                                     ELSE server[s].ref
  BY <1>12, <1>15
<1>17. \A s \in D \ {t} : SameBesides(server'[s], server[s])
  BY <1>10, <1>12
<1>18. /\ server'[t].name = server[t].name /\ server'[t].cols = server[t].cols
       /\ server'[t].wide = server[t].wide /\ server'[t].idx = server[t].idx
       /\ server'[t].parted = server[t].parted
       /\ server'[t].ranges = server[t].ranges \ {p}
  BY <1>9, <1>10, <1>12, <1>13 DEF SameBesides, SameButRanges, g
<1>19. Postgres \/ t \in Named(job[w].says)
  BY <1>5 DEF Named
<1>20. QED
  BY <1>2, <1>3, <1>5, <1>14, <1>16, <1>17, <1>18, <1>19 DEF D

LEMMA DropEffect ==
  ASSUME TypeInv, ServerType, NEW w \in Worker, DropSql(w)
  PROVE  /\ Executed(w, "drop") /\ job[w] \in DropJob
         /\ \E t \in Named(job[w].says) :
              /\ ServerType' /\ DOMAIN server' = DOMAIN server \ {t}
              /\ \A s \in DOMAIN server' :
                   /\ SameBesides(server'[s], server[s])
                   /\ server'[s].ref = IF Postgres /\ server[s].ref = t THEN NoId
                                       ELSE server[s].ref
<1>1. /\ Sends(w, "drop") /\ Succeeds(w)
      /\ UNCHANGED << config, catalog, drawn, clashes >>
  BY Zenon DEF DropSql, ServerOnly
<1>2. Executed(w, "drop")
  BY <1>1, IsExecuted
<1>3. job[w] \in DropJob
  BY <1>1, JobByStep DEF Sends, TypeInv
<1>4. PICK t \in Named(job[w].says) :
        server' = LET rest == Without(server, t)
                  IN  IF Postgres THEN Unreferenced(rest, t) ELSE rest
  BY Zenon DEF DropSql
<1> DEFINE rest == Without(server, t)
           D == DOMAIN server \ {t}
<1>5. server' = IF Postgres THEN Unreferenced(rest, t) ELSE rest
  BY <1>4
<1>6. rest \in [D -> ServerRec] /\ \A s \in D : rest[s] = server[s]
  BY DEF Without, Restrict, ServerType
<1> HIDE DEF rest
<1>7. \A s \in D : SameBesides(rest[s], rest[s])
  BY DEF SameBesides
<1>8. D \subseteq Nat
  BY DEF ServerType
<1>9. D = DOMAIN server \ {t}
  OBVIOUS
<1> HIDE DEF D
<1>10. /\ server' \in [D -> ServerRec]
       /\ \A s \in D :
            /\ SameBesides(server'[s], rest[s])
            /\ server'[s].ref = IF Postgres /\ rest[s].ref = t THEN NoId ELSE rest[s].ref
  <2>1. CASE Postgres
    <3>1. server' = Unreferenced(rest, t)
      BY <1>5, <2>1
    <3>2. /\ Unreferenced(rest, t) \in [D -> ServerRec]
          /\ \A s \in D :
               /\ SameBesides(Unreferenced(rest, t)[s], rest[s])
               /\ Unreferenced(rest, t)[s].ref =
                    IF rest[s].ref = t THEN NoId ELSE rest[s].ref
      BY <1>6, UnreferencedTyped
    <3>3. QED
      BY <2>1, <3>1, <3>2
  <2>2. CASE ~Postgres
    BY <1>5, <1>6, <1>7, <2>2
  <2>3. QED
    BY <2>1, <2>2
<1>11. ServerType' /\ DOMAIN server' = D
  BY <1>8, <1>10 DEF ServerType
<1>12. QED
  BY <1>2, <1>3, <1>4, <1>6, <1>9, <1>10, <1>11

\* A create that leaves nothing half done made all its partitions or some.
LEMMA CreateEffect ==
  ASSUME TypeInv, ServerType, NEW w \in Worker, CreateSql(w)
  PROVE  /\ job[w] \in CreateJob /\ job[w].step = "sql" /\ job'[w] \in CreateJob
         /\ job'[w].step = "publish" /\ GoesOn(job'[w], job[w])
         /\ UNCHANGED << config, catalog, drawn >>
         /\ \A v \in Worker \ {w} : job'[v] = job[v]
         /\ job[w].ref = NoId
              \/ \E t \in Named(job[w].says) : Postgres \/ ~server[t].parted
         /\ \/ "empty table" \in clashes'
            \/ /\ clashes' = clashes
               /\ job'[w].ranges # {} \/ job[w].ranges = {}
         /\ ServerType' /\ DOMAIN server' = DOMAIN server \cup {job[w].id}
         /\ \A t \in DOMAIN server : t # job[w].id => server'[t] = server[t]
         /\ server'[job[w].id].name = job[w].id
         /\ server'[job[w].id].cols = 0 .. NewCols
         /\ server'[job[w].id].wide = {} /\ server'[job[w].id].ref = job[w].ref
         /\ server'[job[w].id].idx = NewIndexes(job[w])
         /\ server'[job[w].id].parted = job[w].parted
         /\ server'[job[w].id].ranges = [base : job'[w].ranges, prefix : {job[w].id}]
<1> DEFINE j == job[w]
<1>1. j.step = "sql" /\ j.kind = "create"
  BY DEF CreateSql, Sends
<1>2. j \in CreateJob /\ job \in [Worker -> AnyJob]
  BY <1>1, JobByStep DEF TypeInv
<1>3. /\ UNCHANGED << config, catalog, drawn >>
      /\ j.ref = NoId \/ \E t \in Named(j.says) : Postgres \/ ~server[t].parted
      /\ \E made \in IF Postgres THEN SUBSET j.ranges ELSE {j.ranges} :
           /\ IF made = {} /\ j.ranges # {} THEN HalfDone("empty table")
              ELSE UNCHANGED clashes
           /\ server' = Put(server, j.id,
                [name |-> j.id, cols |-> 0 .. NewCols, wide |-> {},
                 ref |-> j.ref, idx |-> NewIndexes(j), parted |-> j.parted,
                 ranges |-> [base : made, prefix : {j.id}]])
           /\ job' = [job EXCEPT ![w] = [@ EXCEPT !.step = "publish", !.ranges = made]]
  BY Zenon DEF CreateSql
<1>4. PICK made \in SUBSET j.ranges :
        /\ IF made = {} /\ j.ranges # {} THEN HalfDone("empty table")
           ELSE UNCHANGED clashes
        /\ server' = Put(server, j.id,
             [name |-> j.id, cols |-> 0 .. NewCols, wide |-> {},
              ref |-> j.ref, idx |-> NewIndexes(j), parted |-> j.parted,
              ranges |-> [base : made, prefix : {j.id}]])
        /\ job' = [job EXCEPT ![w] = [@ EXCEPT !.step = "publish", !.ranges = made]]
  BY <1>3, Zenon
<1>5. PICK n : n = [j EXCEPT !.step = "publish", !.ranges = made]
  OBVIOUS
<1>6. n \in CreateJob /\ n.step = "publish" /\ GoesOn(n, j)
  BY <1>2, <1>5, CreatePublished, Zenon
<1>7. job' = [job EXCEPT ![w] = n]
  BY <1>2, <1>4, <1>5, Zenon
<1>8. job'[w] = n /\ \A v \in Worker \ {w} : job'[v] = job[v]
  BY <1>2, <1>6, <1>7, JobReplaced DEF AnyJob
<1>9. n.ranges = made
  BY <1>2, <1>5 DEF CreateJob
<1> DEFINE S == [base : Nat, prefix : Nat]
           g == [base : made, prefix : {j.id}]
           cols == 0 .. NewCols
           idx == NewIndexes(j)
           rec == [name |-> j.id, cols |-> cols, wide |-> {}, ref |-> j.ref,
                   idx |-> idx, parted |-> j.parted, ranges |-> g]
<1>10. server' = Put(server, j.id, rec)
  BY <1>4
<1>11. g \in SUBSET S
  BY <1>2 DEF CreateJob
<1>12. cols \in SUBSET Nat /\ idx \in SUBSET Index
  BY ConfigTyped DEF TypeInv, NewIndexes, Index, FkCol
<1>13. ServerRec = [name : Nat, cols : SUBSET Nat, wide : SUBSET Nat, ref : Nat,
                    idx : SUBSET Index, parted : BOOLEAN, ranges : SUBSET S]
  BY DEF ServerRec
<1> HIDE DEF S, g, cols, idx
<1>14. rec \in ServerRec /\ j.id \in Nat
  BY <1>2, <1>11, <1>12, <1>13 DEF CreateJob
<1>15. /\ rec.name = j.id /\ rec.cols = cols /\ rec.wide = {} /\ rec.ref = j.ref
       /\ rec.idx = idx /\ rec.parted = j.parted /\ rec.ranges = g
  OBVIOUS
<1> HIDE DEF rec
<1>16. /\ ServerType' /\ DOMAIN server' = DOMAIN server \cup {j.id}
       /\ server'[j.id] = rec
       /\ \A t \in DOMAIN server : t # j.id => server'[t] = server[t]
  BY <1>10, <1>14 DEF ServerType, Put
<1>17. \/ "empty table" \in clashes'
       \/ clashes' = clashes /\ (n.ranges # {} \/ j.ranges = {})
  BY <1>4, <1>9 DEF HalfDone
<1>18. g = [base : job'[w].ranges, prefix : {j.id}]
  BY <1>8, <1>9, Zenon DEF g
<1>19. QED
  BY <1>1, <1>2, <1>3, <1>6, <1>8, <1>15, <1>16, <1>17, <1>18, Zenon DEF cols, idx

-----------------------------------------------------------------------------
(* Jobs whose SQL is done and whose delta is not.                            *)

Pending(kind, t) == {w \in Worker : /\ job[w].step = "publish"
                                    /\ job[w].kind = kind /\ job[w].id = t}

\* What their deltas are going to do to the record of t.
Dropped(t)   == UNION {job[w].drops : w \in Pending("alter", t)}
Added(t)     == UNION {job[w].adds : w \in Pending("alter", t)}
Widened(t)   == UNION {job[w].widens : w \in Pending("alter", t)}
Indexed(t)   == {job[w].index : w \in Pending("index", t)}
Unindexed(t) == {job[w].no : w \in Pending("unindex", t)}
Parted(t)    == {job[w].base : w \in Pending("part", t)}
Unparted(t)  == {job[w].base : w \in Pending("unpart", t)}

\* The step of w is the SQL, or the publish, of a kind of job on t.
Touches(w, kind, t) == /\ Sent(w) /\ ~Refused(w)
                       /\ job[w].kind = kind /\ job[w].id = t

LEMMA JobsKept ==
  ASSUME TypeInv, NEW w \in Worker, Act(w), ~Pick(w)
  PROVE  /\ \A v \in Worker \ {w} : job'[v] = job[v]
         /\ w \in Busy /\ job[w] # Idle /\ job[w].step # "idle"
         /\ Sent(w)' => Sent(w) /\ GoesOn(job'[w], job[w])
         /\ job'[w] # Idle => /\ job'[w].kind = job[w].kind /\ job'[w].id = job[w].id
                              /\ job[w].kind = "create" => job'[w].ref = job[w].ref
<1>1. /\ \A v \in Worker \ {w} : job'[v] = job[v]
      /\ job[w].step # "idle"
      /\ Sent(w)' => Sent(w) /\ GoesOn(job'[w], job[w])
  BY NobodyNew DEF Sent
<1>2. w \in Busy /\ job[w] # Idle
  BY <1>1 DEF Busy, Idle
<1>3. ASSUME job'[w] # Idle
      PROVE  /\ job'[w].kind = job[w].kind /\ job'[w].id = job[w].id
             /\ job[w].kind = "create" => job'[w].ref = job[w].ref
  <2>1. CASE SqlOf(w)
    BY <1>3, <2>1, SqlIsServerStep DEF ServerStep, GoesOn
  <2>2. CASE PublishCreate(w)
    BY <2>2, CreatePublish DEF CreateJob
  <2>3. CASE PublishDrop(w)
    BY <2>3, DropPublish
  <2>4. CASE Sweep(w)
    BY <2>4, SweepStep
  <2>5. CASE Recheck(w)
    BY <1>3, <2>5, RecheckStep
  <2>6. CASE Unref(w)
    BY <1>3, <2>6, UnrefStep DEF UnrefJob
  <2>7. CASE DeltaOf(w)
    BY <1>3, <2>7, DeltaIsDeltaStep DEF DeltaStep
  <2>8. QED
    BY <2>1, <2>2, <2>3, <2>4, <2>5, <2>6, <2>7, ActCases
<1>4. QED
  BY <1>1, <1>2, <1>3

LEMMA PickKeeps ==
  ASSUME TypeInv, NEW w \in Worker, Pick(w)
  PROVE  /\ \A v \in Worker \ {w} : job'[v] = job[v]
         /\ job[w] = Idle /\ job[w].step = "idle" /\ ~Sent(w) /\ w \notin Busy
         /\ Sent(w)' /\ job'[w].step = "sql" /\ Busy' = Busy \cup {w}
         /\ UNCHANGED << config, catalog, server >>
<1>1. /\ \A v \in Worker \ {w} : job'[v] = job[v]
      /\ job[w] = Idle /\ job'[w].step = "sql"
      /\ UNCHANGED << config, catalog, server >>
  BY PickStep
<1>2. job[w].step = "idle" /\ job'[w] # Idle
  BY <1>1 DEF Idle
<1>3. Busy' = Busy \cup {w} /\ w \notin Busy
  BY <1>1, <1>2 DEF Busy
<1>4. ~Sent(w) /\ Sent(w)'
  BY <1>1, <1>2 DEF Sent
<1>5. QED
  BY <1>1, <1>2, <1>3, <1>4

LEMMA PendingElsewhere ==
  ASSUME TypeInv, NEW w \in Worker, Act(w), NEW kind, NEW t, ~Touches(w, kind, t)
  PROVE  /\ Pending(kind, t)' = Pending(kind, t)
         /\ \A v \in Pending(kind, t) : job'[v] = job[v]
<1>1. CASE Pick(w)
  BY <1>1, PickKeeps DEF Pending, Sent
<1>2. CASE Refused(w)
  <2>1. job[w].step = "sql" /\ ~Sent(w)' /\ \A v \in Worker \ {w} : job'[v] = job[v]
    BY <1>2 DEF Refused, TypeInv, Idle, Sent
  <2>2. QED
    BY <2>1 DEF Pending, Sent
<1>3. CASE ~Pick(w) /\ ~Refused(w)
  <2>1. /\ \A v \in Worker \ {w} : job'[v] = job[v]
        /\ Sent(w)' => Sent(w) /\ GoesOn(job'[w], job[w])
    BY <1>3, JobsKept
  <2>2. ~(Sent(w) /\ job[w].kind = kind /\ job[w].id = t)
    BY <1>3 DEF Touches
  <2>3. w \notin Pending(kind, t) /\ w \notin Pending(kind, t)'
    BY <2>1, <2>2 DEF Pending, Sent, GoesOn
  <2>4. QED
    BY <2>1, <2>3 DEF Pending
<1>4. QED
  BY <1>1, <1>2, <1>3

\* A statement that succeeds, a delta that is published.
LEMMA PendingJoins ==
  ASSUME NEW w \in Worker, NEW kind, Executed(w, kind), NEW t, t = job[w].id
  PROVE  /\ Pending(kind, t)' = Pending(kind, t) \cup {w}
         /\ \A v \in Pending(kind, t) : job'[v] = job[v]
         /\ w \notin Pending(kind, t)
BY DEF Executed, Pending, GoesOn

LEMMA PendingLeaves ==
  ASSUME TypeInv, NEW w \in Worker, DeltaOf(w), NEW kind, kind = job[w].kind,
         NEW t, t = job[w].id
  PROVE  /\ Pending(kind, t)' = Pending(kind, t) \ {w} /\ w \in Pending(kind, t)
         /\ \A v \in Pending(kind, t) \ {w} : job'[v] = job[v]
<1>1. /\ job[w].step = "publish" /\ job'[w].step # "publish"
      /\ \A v \in Worker \ {w} : job'[v] = job[v]
  BY DeltaIsDeltaStep DEF DeltaStep, Idle
<1>2. QED
  BY <1>1 DEF Pending

LEMMA DataElsewhere ==
  ASSUME TypeInv, NEW w \in Worker, Act(w), NEW t
  PROVE  /\ ~Touches(w, "alter", t) =>
              Dropped(t)' = Dropped(t) /\ Added(t)' = Added(t) /\ Widened(t)' = Widened(t)
         /\ ~Touches(w, "index", t) => Indexed(t)' = Indexed(t)
         /\ ~Touches(w, "unindex", t) => Unindexed(t)' = Unindexed(t)
         /\ ~Touches(w, "part", t) => Parted(t)' = Parted(t)
         /\ ~Touches(w, "unpart", t) => Unparted(t)' = Unparted(t)
<1>1. ASSUME ~Touches(w, "alter", t)
      PROVE  Dropped(t)' = Dropped(t) /\ Added(t)' = Added(t) /\ Widened(t)' = Widened(t)
  <2>1. /\ Pending("alter", t)' = Pending("alter", t)
        /\ \A v \in Pending("alter", t) : job'[v] = job[v]
    BY <1>1, PendingElsewhere
  <2>2. Dropped(t)' = Dropped(t)
    BY <2>1 DEF Dropped
  <2>3. Added(t)' = Added(t)
    BY <2>1 DEF Added
  <2>4. Widened(t)' = Widened(t)
    BY <2>1 DEF Widened
  <2>5. QED
    BY <2>2, <2>3, <2>4
<1>2. ASSUME ~Touches(w, "index", t) PROVE Indexed(t)' = Indexed(t)
  BY <1>2, PendingElsewhere DEF Indexed
<1>3. ASSUME ~Touches(w, "unindex", t) PROVE Unindexed(t)' = Unindexed(t)
  BY <1>3, PendingElsewhere DEF Unindexed
<1>4. ASSUME ~Touches(w, "part", t) PROVE Parted(t)' = Parted(t)
  BY <1>4, PendingElsewhere DEF Parted
<1>5. ASSUME ~Touches(w, "unpart", t) PROVE Unparted(t)' = Unparted(t)
  BY <1>5, PendingElsewhere DEF Unparted
<1>6. QED
  BY <1>1, <1>2, <1>3, <1>4, <1>5

\* A statement's data joins, a delta's leaves.
LEMMA AlterJoins ==
  ASSUME NEW w \in Worker, Executed(w, "alter"), NEW t, t = job[w].id
  PROVE  /\ Dropped(t)' = Dropped(t) \cup job[w].drops
         /\ Added(t)' = Added(t) \cup job[w].adds
         /\ Widened(t)' = Widened(t) \cup job[w].widens
<1>1. /\ Pending("alter", t)' = Pending("alter", t) \cup {w}
      /\ \A v \in Pending("alter", t) : job'[v] = job[v]
  BY PendingJoins
<1>2. /\ job'[w].drops = job[w].drops /\ job'[w].adds = job[w].adds
      /\ job'[w].widens = job[w].widens
  BY DEF Executed, GoesOn
<1>3. Dropped(t)' = Dropped(t) \cup job[w].drops
  BY <1>1, <1>2 DEF Dropped
<1>4. Added(t)' = Added(t) \cup job[w].adds
  BY <1>1, <1>2 DEF Added
<1>5. Widened(t)' = Widened(t) \cup job[w].widens
  BY <1>1, <1>2 DEF Widened
<1>6. QED
  BY <1>3, <1>4, <1>5

LEMMA AlterLeaves ==
  ASSUME TypeInv, NEW w \in Worker, DeltaOf(w), job[w].kind = "alter",
         NEW t, t = job[w].id
  PROVE  /\ Dropped(t) = Dropped(t)' \cup job[w].drops
         /\ Added(t) = Added(t)' \cup job[w].adds
         /\ Widened(t) = Widened(t)' \cup job[w].widens
<1>1. /\ Pending("alter", t)' = Pending("alter", t) \ {w} /\ w \in Pending("alter", t)
      /\ \A v \in Pending("alter", t) \ {w} : job'[v] = job[v]
  BY PendingLeaves
<1>2. Dropped(t) = Dropped(t)' \cup job[w].drops
  BY <1>1 DEF Dropped
<1>3. Added(t) = Added(t)' \cup job[w].adds
  BY <1>1 DEF Added
<1>4. Widened(t) = Widened(t)' \cup job[w].widens
  BY <1>1 DEF Widened
<1>5. QED
  BY <1>2, <1>3, <1>4

LEMMA OthersJoin ==
  ASSUME NEW w \in Worker, NEW t, t = job[w].id
  PROVE  /\ Executed(w, "index") => Indexed(t)' = Indexed(t) \cup {job[w].index}
         /\ Executed(w, "unindex") => Unindexed(t)' = Unindexed(t) \cup {job[w].no}
         /\ Executed(w, "part") => Parted(t)' = Parted(t) \cup {job[w].base}
         /\ Executed(w, "unpart") => Unparted(t)' = Unparted(t) \cup {job[w].base}
<1>1. ASSUME Executed(w, "index") PROVE Indexed(t)' = Indexed(t) \cup {job[w].index}
  BY <1>1, PendingJoins DEF Indexed, Executed, GoesOn
<1>2. ASSUME Executed(w, "unindex") PROVE Unindexed(t)' = Unindexed(t) \cup {job[w].no}
  BY <1>2, PendingJoins DEF Unindexed, Executed, GoesOn
<1>3. ASSUME Executed(w, "part") PROVE Parted(t)' = Parted(t) \cup {job[w].base}
  BY <1>3, PendingJoins DEF Parted, Executed, GoesOn
<1>4. ASSUME Executed(w, "unpart") PROVE Unparted(t)' = Unparted(t) \cup {job[w].base}
  BY <1>4, PendingJoins DEF Unparted, Executed, GoesOn
<1>5. QED
  BY <1>1, <1>2, <1>3, <1>4

LEMMA OthersLeave ==
  ASSUME TypeInv, NEW w \in Worker, DeltaOf(w), NEW t, t = job[w].id
  PROVE  /\ job[w].kind = "index" => Indexed(t) = Indexed(t)' \cup {job[w].index}
         /\ job[w].kind = "unindex" => Unindexed(t) = Unindexed(t)' \cup {job[w].no}
         /\ job[w].kind = "part" => Parted(t) = Parted(t)' \cup {job[w].base}
         /\ job[w].kind = "unpart" => Unparted(t) = Unparted(t)' \cup {job[w].base}
<1>1. ASSUME job[w].kind = "index" PROVE Indexed(t) = Indexed(t)' \cup {job[w].index}
  BY <1>1, PendingLeaves DEF Indexed
<1>2. ASSUME job[w].kind = "unindex" PROVE Unindexed(t) = Unindexed(t)' \cup {job[w].no}
  BY <1>2, PendingLeaves DEF Unindexed
<1>3. ASSUME job[w].kind = "part" PROVE Parted(t) = Parted(t)' \cup {job[w].base}
  BY <1>3, PendingLeaves DEF Parted
<1>4. ASSUME job[w].kind = "unpart" PROVE Unparted(t) = Unparted(t)' \cup {job[w].base}
  BY <1>4, PendingLeaves DEF Unparted
<1>5. QED
  BY <1>1, <1>2, <1>3, <1>4

-----------------------------------------------------------------------------
(* A number that is drawn is nobody else's until the draw is published.      *)

\* The statement of w, chosen and not published yet, makes something of number n.
Drew(w, n) ==
  /\ Sent(w)
  /\ \/ job[w].kind = "create" /\ n = job[w].id
     \/ job[w].kind = "rename" /\ n = job[w].to
     \/ job[w].kind = "index" /\ n = job[w].index.no
     \/ job[w].kind = "part" /\ n = job[w].base
     \/ job[w].kind = "alter" /\ n \in job[w].adds

InRecord(n, r) == \/ n = r.name \/ n \in r.cols \/ n = r.ref \/ n \in r.ranges
                  \/ \E x \in r.idx : x.no = n

\* The job of w refers to something of number n.
Asks(w, n) ==
  \/ job[w] # Idle /\ job[w].kind # "create" /\ n = job[w].id
  \/ /\ Sent(w)
     /\ \/ n = job[w].says
        \/ job[w].kind = "create" /\ (n = job[w].ref \/ n \in job[w].ranges)
        \/ job[w].kind = "alter" /\ n \in job[w].drops \cup job[w].widens
        \/ job[w].kind = "unindex" /\ n = job[w].no
        \/ job[w].kind = "unpart" /\ n = job[w].base

InCatalog(n) == \E t \in DOMAIN catalog : n = t \/ InRecord(n, catalog[t])

Public(n) == \/ n \in 0 .. FirstDraw \/ InCatalog(n)
             \/ \E t \in DOMAIN server : n = server[t].ref
             \/ \E w \in Worker : Asks(w, n)

Fresh == /\ FirstDraw <= drawn
         /\ \A n : Public(n) => n \in 0 .. drawn
         /\ \A w \in Worker : \A n : Drew(w, n) =>
              /\ n \in 0 .. drawn /\ ~Public(n)
              /\ \A v \in Worker \ {w} : ~Drew(v, n)

\* The reference of a table of the server: kept, cleared or a create's.
LEMMA ServerRefs ==
  ASSUME TypeInv, ServerType, NEW w \in Worker, Act(w), NEW t \in DOMAIN server'
  PROVE  \/ t \in DOMAIN server /\ server'[t].ref = server[t].ref
         \/ server'[t].ref = NoId
         \/ job[w].kind = "create" /\ Sent(w) /\ server'[t].ref = job[w].ref
<1>1. CASE server' = server
  BY <1>1
<1>2. CASE CreateSql(w)
  <2>1. /\ job[w] \in CreateJob /\ job[w].step = "sql"
        /\ DOMAIN server' = DOMAIN server \cup {job[w].id}
        /\ \A s \in DOMAIN server : s # job[w].id => server'[s] = server[s]
        /\ server'[job[w].id].ref = job[w].ref
    BY <1>2, CreateEffect
  <2>2. QED
    BY <2>1 DEF CreateJob, Sent
<1>3. CASE DropSql(w)
  BY <1>3, DropEffect
<1>4. CASE AlterSql(w)
  BY <1>4, AlterEffect DEF Replaced, Named
<1>5. CASE RenameSql(w)
  BY <1>5, RenameEffect DEF Replaced, SameButName
<1>6. CASE CreateIndexSql(w)
  BY <1>6, IndexEffect DEF Replaced, SameButIdx
<1>7. CASE DropIndexSql(w)
  BY <1>7, NoIndexEffect DEF Replaced, SameButIdx
<1>8. CASE CreatePartitionSql(w)
  BY <1>8, RangeEffect DEF Replaced, SameButRanges
<1>9. CASE DropPartitionSql(w)
  BY <1>9, NoRangeEffect
<1>10. QED
  <2>1. CASE Refused(w)
    BY <1>1, <2>1 DEF Refused
  <2>2. CASE Pick(w)
    BY <1>1, <2>2 DEF Pick
  <2>3. CASE PublishCreate(w) \/ Recheck(w) \/ PublishDrop(w) \/ Sweep(w) \/ Unref(w)
    BY <1>1, <2>3, CreatePublish, RecheckStep, DropPublish, SweepStep, UnrefStep DEF Rest
  <2>4. CASE DeltaOf(w)
    BY <1>1, <2>4, DeltaIsDeltaStep DEF DeltaStep, Rest
  <2>5. QED
    BY <1>2, <1>3, <1>4, <1>5, <1>6, <1>7, <1>8, <1>9, <2>1, <2>2, <2>3, <2>4, ActCases
       DEF SqlOf

LEMMA CutNos ==
  ASSUME NEW S \in SUBSET Index, NEW D, NEW x \in Cut(S, D)
  PROVE  \E y \in S : y.no = x.no /\ x.on \subseteq y.on
<1>1. CASE Postgres
  BY <1>1 DEF Cut
<1>2. CASE ~Postgres
  <2>1. PICK y \in S : x = [y EXCEPT !.on = @ \ D]
    BY <1>2 DEF Cut
  <2>2. y \in Index
    OBVIOUS
  <2>3. QED
    BY <2>1, <2>2 DEF Index
<1>3. QED
  BY <1>1, <1>2

LEMMA DrewShrinks ==
  ASSUME TypeInv, NEW w \in Worker, Act(w), ~Pick(w), NEW v \in Worker, NEW n,
         Drew(v, n)'
  PROVE  Drew(v, n)
<1>1. /\ \A u \in Worker \ {w} : job'[u] = job[u]
      /\ Sent(w)' => Sent(w) /\ GoesOn(job'[w], job[w])
  BY JobsKept
<1>2. CASE v = w
  BY <1>1, <1>2 DEF Drew, GoesOn
<1>3. CASE v # w
  BY <1>1, <1>3 DEF Drew, Sent
<1>4. QED
  BY <1>2, <1>3

LEMMA AsksShrinks ==
  ASSUME TypeInv, NEW w \in Worker, Act(w), ~Pick(w), NEW v \in Worker, NEW n,
         Asks(v, n)'
  PROVE  Asks(v, n)
<1>1. /\ \A u \in Worker \ {w} : job'[u] = job[u]
      /\ Sent(w)' => Sent(w) /\ GoesOn(job'[w], job[w])
      /\ job[w] # Idle
      /\ job'[w] # Idle => job'[w].kind = job[w].kind /\ job'[w].id = job[w].id
  BY JobsKept
<1>2. CASE v = w
  BY <1>1, <1>2 DEF Asks, GoesOn
<1>3. CASE v # w
  BY <1>1, <1>3 DEF Asks, Sent
<1>4. QED
  BY <1>2, <1>3

\* A reference of the catalog is a create's, or was there, or is cleared.
LEMMA CatalogRefs ==
  ASSUME TypeInv, NEW w \in Worker, Act(w), ~PublishCreate(w),
         NEW t \in DOMAIN catalog'
  PROVE  /\ t \in DOMAIN catalog
         /\ catalog'[t].ref = catalog[t].ref \/ catalog'[t].ref = NoId
<1>1. CASE Pick(w)
  BY <1>1 DEF Pick
<1>2. CASE SqlOf(w)
  BY <1>2, SqlIsServerStep DEF ServerStep
<1>3. CASE Recheck(w)
  BY <1>3, RecheckStep
<1>4. CASE PublishDrop(w)
  BY <1>4, DropPublish
<1>5. CASE Sweep(w)
  BY <1>5, SweepStep
<1>6. CASE Unref(w)
  BY <1>6, UnrefStep
<1>7. CASE DeltaOf(w)
  BY <1>7, DeltaIsDeltaStep DEF DeltaStep, Changes
<1>8. QED
  BY <1>1, <1>2, <1>3, <1>4, <1>5, <1>6, <1>7, ActCases

\* What a delta adds to a record, the worker drew.
LEMMA DeltaPublishes ==
  ASSUME NEW w \in Worker, Sent(w), NEW r \in CatalogRec, NEW m,
         Changes(job[w], r, m), NEW n, InRecord(n, m)
  PROVE  n = NoId \/ InRecord(n, r) \/ Drew(w, n)
<1> DEFINE j == job[w]
<1>1. CASE n = m.name
  BY <1>1 DEF Changes, Drew, InRecord
<1>2. CASE n \in m.cols
  BY <1>2 DEF Changes, Drew, InRecord
<1>3. CASE n = m.ref
  BY <1>3 DEF Changes, InRecord
<1>4. CASE n \in m.ranges
  BY <1>4 DEF Changes, Drew, InRecord
<1>5. ASSUME NEW x \in m.idx, x.no = n
      PROVE  InRecord(n, r) \/ Drew(w, n)
  <2>1. r.idx \in SUBSET Index
    BY DEF CatalogRec
  <2>2. CASE j.kind = "alter"
    <3>1. x \in Cut(r.idx, j.drops)
      BY <1>5, <2>2 DEF Changes
    <3>2. QED
      BY <1>5, <2>1, <3>1, CutNos DEF InRecord
  <2>3. CASE j.kind # "alter"
    BY <1>5, <2>3 DEF Changes, Drew, InRecord, Minus
  <2>4. QED
    BY <2>2, <2>3
<1>6. QED
  BY <1>1, <1>2, <1>3, <1>4, <1>5 DEF InRecord

LEMMA CreatePublishes ==
  ASSUME TypeInv, NEW w \in Worker, PublishCreate(w), NEW n, InCatalog(n)'
  PROVE  Public(n) \/ (Drew(w, n) /\ ~Sent(w)')
<1> DEFINE i == job[w].id
           m == catalog'[i]
<1>1. /\ job[w] \in CreateJob /\ Sent(w) /\ ~Sent(w)' /\ job[w].kind = "create"
      /\ DOMAIN catalog' = DOMAIN catalog \cup {i}
      /\ \A t \in DOMAIN catalog : t # i => catalog'[t] = catalog[t]
      /\ m.ref = job[w].ref /\ m.name = i /\ m.cols = 0 .. NewCols
      /\ m.idx = NewIndexes(job[w]) /\ m.ranges = job[w].ranges
  BY CreatePublish DEF Sent, CreateJob
<1>2. PICK t \in DOMAIN catalog' : n = t \/ InRecord(n, catalog'[t])
  BY DEF InCatalog, InRecord
<1>3. CASE t # i
  BY <1>1, <1>2, <1>3 DEF Public, InCatalog
<1>4. CASE t = i
  <2>1. 0 .. NewCols \subseteq 0 .. FirstDraw /\ 0 \in 0 .. FirstDraw
    BY ConfigTyped DEF TypeInv, FirstDraw
  <2>2. \A x \in m.idx : x.no = 0
    BY <1>1 DEF NewIndexes
  <2> HIDE DEF m
  <2>3. CASE n = i
    BY <1>1, <2>3 DEF Drew
  <2>4. CASE InRecord(n, m)
    BY <1>1, <2>1, <2>2, <2>4 DEF InRecord, Public, Asks, Drew
  <2>5. QED
    BY <1>2, <1>4, <2>3, <2>4 DEF m
<1>5. QED
  BY <1>3, <1>4

LEMMA CatalogPublishes ==
  ASSUME TypeInv, NEW w \in Worker, Act(w), ~Pick(w), NEW n, InCatalog(n)'
  PROVE  Public(n) \/ (Drew(w, n) /\ ~Sent(w)')
<1>1. CASE PublishCreate(w)
  BY <1>1, CreatePublishes
<1>2. CASE ~PublishCreate(w)
  <2>1. PICK t \in DOMAIN catalog' : n = t \/ InRecord(n, catalog'[t])
    BY DEF InCatalog, InRecord
  <2>2. t \in DOMAIN catalog
    BY <1>2, CatalogRefs
  <2>3. CASE n = t
    BY <2>2, <2>3 DEF Public, InCatalog
  <2>4. CASE InRecord(n, catalog'[t]) /\ ~DeltaOf(w)
    <3>1. /\ SameBesides(catalog'[t], catalog[t])
          /\ catalog'[t].ref = catalog[t].ref \/ catalog'[t].ref = NoId
      BY <1>2, <2>4, OthersKeep, CatalogRefs
    <3>2. InRecord(n, catalog[t]) \/ n = NoId
      BY <2>4, <3>1 DEF InRecord, SameBesides
    <3>3. NoId \in 0 .. FirstDraw
      BY ConfigTyped DEF TypeInv, NoId
    <3>4. QED
      BY <2>2, <3>2, <3>3 DEF Public, InCatalog
  <2>5. CASE InRecord(n, catalog'[t]) /\ DeltaOf(w)
    <3>1. DeltaStep(w) /\ Sent(w) /\ ~Sent(w)'
      BY <2>5, DeltaIsDeltaStep DEF DeltaStep, Sent, Idle
    <3>2. catalog[t] \in CatalogRec
      BY <2>2 DEF TypeInv, CatalogType
    <3>3. InRecord(n, catalog[t]) \/ n = NoId \/ Drew(w, n)
      BY <2>2, <2>5, <3>1, <3>2, DeltaPublishes DEF DeltaStep
    <3>4. NoId \in 0 .. FirstDraw
      BY ConfigTyped DEF TypeInv, NoId
    <3>5. QED
      BY <2>2, <3>1, <3>3, <3>4 DEF Public, InCatalog
  <2>6. QED
    BY <2>1, <2>3, <2>4, <2>5
<1>3. QED
  BY <1>1, <1>2

\* What becomes public, the worker drew and has published.
LEMMA PublicGrows ==
  ASSUME TypeInv, ServerType, NEW w \in Worker, Act(w), ~Pick(w), NEW n, Public(n)'
  PROVE  Public(n) \/ (Drew(w, n) /\ ~Sent(w)')
<1>1. FirstDraw' = FirstDraw /\ NoId \in 0 .. FirstDraw
  BY NobodyNew, ConfigTyped DEF FirstDraw, NewCols, MaxParts, TypeInv, NoId
<1>2. CASE n \in 0 .. FirstDraw'
  BY <1>1, <1>2 DEF Public
<1>3. CASE InCatalog(n)'
  BY <1>3, CatalogPublishes
<1>4. ASSUME NEW t \in DOMAIN server', n = server'[t].ref PROVE Public(n)
  <2>1. \/ t \in DOMAIN server /\ n = server[t].ref
        \/ n = NoId
        \/ job[w].kind = "create" /\ Sent(w) /\ n = job[w].ref
    BY <1>4, ServerRefs
  <2>2. QED
    BY <1>1, <2>1 DEF Public, Asks
<1>5. ASSUME NEW v \in Worker, Asks(v, n)' PROVE Public(n)
  BY <1>5, AsksShrinks DEF Public
<1>6. QED
  BY <1>2, <1>3, <1>4, <1>5 DEF Public

\* Who picks asks for what is public, and draws numbers that nobody had.
LEMMA PickAsks ==
  ASSUME TypeInv, NEW w \in Worker, Pick(w), NEW n, Asks(w, n)'
  PROVE  Public(n)
<1> DEFINE p == job'[w]
<1>1. Chosen(p) /\ p.step = "sql" /\ p \in AnyJob
  BY PickStep DEF TypeInv
<1>2. NoId \in 0 .. FirstDraw /\ 0 .. MaxParts \subseteq 0 .. FirstDraw
  BY ConfigTyped DEF TypeInv, NoId, FirstDraw
<1>3. CASE n = p.says
  <2>1. Aim(p) = NoId \/ Aim(p) \in DOMAIN catalog
    BY <1>1 DEF Chosen, Aim
  <2>2. QED
    BY <1>1, <1>2, <1>3, <2>1 DEF Chosen, Public, InCatalog, InRecord
<1>4. CASE p.kind # "create" /\ n = p.id
  BY <1>1, <1>4 DEF Chosen, Public, InCatalog
<1>5. CASE p.kind = "create" /\ (n = p.ref \/ n \in p.ranges)
  BY <1>1, <1>2, <1>5 DEF Chosen, Public, InCatalog
<1>6. CASE p.kind = "alter" /\ n \in p.drops \cup p.widens
  BY <1>1, <1>6 DEF Chosen, Public, InCatalog, InRecord
<1>7. CASE p.kind = "unindex" /\ n = p.no
  BY <1>1, <1>7 DEF Chosen, Public, InCatalog, InRecord
<1>8. CASE p.kind = "unpart" /\ n = p.base
  BY <1>1, <1>8 DEF Chosen, Public, InCatalog, InRecord
<1>9. QED
  BY <1>3, <1>4, <1>5, <1>6, <1>7, <1>8 DEF Asks

LEMMA PickPublic ==
  ASSUME TypeInv, NEW w \in Worker, Pick(w), NEW n, Public(n)'
  PROVE  Public(n)
<1>1. /\ UNCHANGED << config, catalog, server >>
      /\ \A v \in Worker \ {w} : job'[v] = job[v]
  BY PickStep
<1>2. ASSUME NEW v \in Worker, Asks(v, n)' PROVE Public(n)
  BY <1>1, <1>2, PickAsks DEF Public, Asks, Sent
<1>3. QED
  BY <1>1, <1>2 DEF Public, InCatalog, FirstDraw, NewCols, MaxParts

LEMMA PickDraws ==
  ASSUME TypeInv, NEW w \in Worker, Pick(w), NEW n, Drew(w, n)'
  PROVE  n \in 0 .. drawn' /\ n > drawn
<1> DEFINE p == job'[w]
<1>1. /\ Chosen(p) /\ p.step = "sql" /\ p \in AnyJob
      /\ drawn \in Nat /\ drawn' \in Nat /\ drawn' >= drawn
      /\ p.kind \in {"create", "rename", "index", "part"} => drawn' = drawn + 1
      /\ p.kind = "alter" => \A c \in p.adds : c <= drawn'
  BY PickStep DEF TypeInv
<1> HIDE DEF p
<1>2. CASE p.kind = "alter"
  <2>1. p.adds \subseteq Nat
    BY <1>1, <1>2, JobByStep DEF AlterJob
  <2>2. QED
    BY <1>1, <1>2, <2>1 DEF Chosen, Drew, p
<1>3. CASE p.kind # "alter"
  BY <1>1, <1>3 DEF Chosen, Drew, p
<1>4. QED
  BY <1>2, <1>3

LEMMA FreshKept ==
  ASSUME TypeInv, ServerType, Fresh, NEW w \in Worker, Act(w)
  PROVE  Fresh'
<1>1. CASE ~Pick(w)
  <2>1. FirstDraw' = FirstDraw /\ drawn' = drawn
    BY <1>1, NobodyNew DEF FirstDraw, NewCols, MaxParts
  <2>2. \A n : Public(n)' => Public(n) \/ (Drew(w, n) /\ ~Sent(w)')
    BY <1>1, PublicGrows
  <2>3. \A v \in Worker : \A n : Drew(v, n)' => Drew(v, n)
    BY <1>1, DrewShrinks
  <2>4. \A n : Drew(w, n)' => Sent(w)'
    BY DEF Drew
  <2>5. \A n : Public(n)' => n \in 0 .. drawn'
    BY <2>1, <2>2 DEF Fresh
  <2>6. ASSUME NEW v \in Worker, NEW n, Drew(v, n)'
        PROVE  /\ n \in 0 .. drawn' /\ ~Public(n)'
               /\ \A u \in Worker \ {v} : ~Drew(u, n)'
    BY <2>1, <2>2, <2>3, <2>4, <2>6 DEF Fresh
  <2>7. FirstDraw' <= drawn'
    BY <2>1 DEF Fresh
  <2>8. QED
    BY <2>5, <2>6, <2>7, Zenon DEF Fresh
<1>2. CASE Pick(w)
  <2>1. /\ FirstDraw' = FirstDraw /\ FirstDraw \in Nat
        /\ drawn \in Nat /\ drawn' \in Nat /\ drawn' >= drawn
    BY <1>2, PickStep, ConfigTyped DEF FirstDraw, NewCols, MaxParts, TypeInv
  <2>2. \A n : Public(n)' => Public(n)
    BY <1>2, PickPublic
  <2>3. \A n : Drew(w, n)' => n \in 0 .. drawn' /\ n > drawn
    BY <1>2, PickDraws
  <2>4. \A v \in Worker \ {w} : \A n : Drew(v, n)' => Drew(v, n)
    BY <1>2, PickKeeps DEF Drew, Sent
  <2>5. \A n : Public(n)' => n \in 0 .. drawn'
    BY <2>1, <2>2 DEF Fresh
  <2>6. ASSUME NEW v \in Worker, NEW n, Drew(v, n)'
        PROVE  /\ n \in 0 .. drawn' /\ ~Public(n)'
               /\ \A u \in Worker \ {v} : ~Drew(u, n)'
    <3>1. CASE v = w
      BY <2>1, <2>2, <2>3, <2>4, <2>6, <3>1 DEF Fresh
    <3>2. CASE v # w
      BY <2>1, <2>2, <2>3, <2>4, <2>6, <3>2 DEF Fresh
    <3>3. QED
      BY <3>1, <3>2
  <2>7. FirstDraw' <= drawn'
    BY <2>1 DEF Fresh
  <2>8. QED
    BY <2>5, <2>6, <2>7, Zenon DEF Fresh
<1>3. QED
  BY <1>1, <1>2

-----------------------------------------------------------------------------
(* Names and indexes belong to one table, on the server, in the catalog and  *)
(* in every statement that is on its way.                                    *)

NamedIn(n, t) ==
  \/ t \in DOMAIN catalog /\ catalog[t].name = n
  \/ t \in DOMAIN server /\ server[t].name = n
  \/ t \in DOMAIN server /\ \E p \in server[t].ranges : p.prefix = n

\* The job of w takes n for the name of t, or makes it that.
NamesIt(w, n, t) ==
  /\ Sent(w)
  /\ \/ n = job[w].says /\ t = Aim(job[w])
     \/ job[w].kind = "create" /\ n = job[w].id /\ t = job[w].id
     \/ job[w].kind = "rename" /\ n = job[w].to /\ t = job[w].id

Bears(n, t) == \/ n = NoId /\ t = NoId
               \/ NamedIn(n, t)
               \/ \E w \in Worker : NamesIt(w, n, t)

NamesUnique == /\ \A n, s, t : Bears(n, s) /\ Bears(n, t) => s = t
               /\ \A n, t : Bears(n, t) => n \in 0 .. drawn

LEMMA NameIsHome ==
  ASSUME NamesUnique, NEW w \in Worker, Sent(w), NEW t \in Named(job[w].says)
  PROVE  t = Aim(job[w])
BY DEF NamesUnique, Bears, NamedIn, NamesIt, Named

LEMMA NamesItShrinks ==
  ASSUME TypeInv, NEW w \in Worker, Act(w), ~Pick(w), NEW v \in Worker,
         NEW n, NEW t, NamesIt(v, n, t)'
  PROVE  NamesIt(v, n, t)
<1>1. /\ \A u \in Worker \ {w} : job'[u] = job[u]
      /\ Sent(w)' => Sent(w) /\ GoesOn(job'[w], job[w])
  BY JobsKept
<1>2. CASE v = w
  BY <1>1, <1>2 DEF NamesIt, GoesOn, Aim
<1>3. CASE v # w
  BY <1>1, <1>3 DEF NamesIt, Sent, Aim
<1>4. QED
  BY <1>2, <1>3

LEMMA CatalogNames ==
  ASSUME TypeInv, NEW w \in Worker, Act(w), NEW t \in DOMAIN catalog'
  PROVE  \/ t \in DOMAIN catalog /\ catalog'[t].name = catalog[t].name
         \/ NamesIt(w, catalog'[t].name, t)
<1>1. CASE PublishCreate(w)
  <2>1. /\ job[w] \in CreateJob /\ job[w].step = "publish"
        /\ DOMAIN catalog' = DOMAIN catalog \cup {job[w].id}
        /\ \A s \in DOMAIN catalog : s # job[w].id => catalog'[s] = catalog[s]
        /\ catalog'[job[w].id].name = job[w].id
    BY <1>1, CreatePublish
  <2>2. job[w].kind = "create" /\ Sent(w)
    BY <2>1 DEF Sent, CreateJob
  <2>3. QED
    BY <2>1, <2>2 DEF NamesIt
<1>2. CASE DeltaOf(w)
  BY <1>2, DeltaIsDeltaStep DEF DeltaStep, Changes, NamesIt, Sent
<1>3. CASE ~PublishCreate(w) /\ ~DeltaOf(w)
  BY <1>3, OthersKeep DEF SameBesides
<1>4. QED
  BY <1>1, <1>2, <1>3

LEMMA StaysOnServer ==
  ASSUME TypeInv, NEW w \in Worker, Act(w), ~SqlOf(w)
  PROVE  server' = server
<1>1. CASE Pick(w)
  BY <1>1 DEF Pick
<1>2. CASE PublishCreate(w) \/ Recheck(w) \/ PublishDrop(w) \/ Sweep(w) \/ Unref(w)
  BY <1>2, CreatePublish, RecheckStep, DropPublish, SweepStep, UnrefStep DEF Rest
<1>3. CASE DeltaOf(w)
  BY <1>3, DeltaIsDeltaStep DEF DeltaStep, Rest
<1>4. QED
  BY <1>1, <1>2, <1>3, ActCases

LEMMA ServerNames ==
  ASSUME TypeInv, ServerType, NamesUnique, NEW w \in Worker, Act(w), NEW n,
         NEW t \in DOMAIN server',
         server'[t].name = n \/ \E p \in server'[t].ranges : p.prefix = n
  PROVE  Bears(n, t)
<1>1. \A s \in DOMAIN server :
        server[s].name = n \/ (\E p \in server[s].ranges : p.prefix = n) => Bears(n, s)
  BY DEF Bears, NamedIn
<1>2. CASE server' = server
  BY <1>1, <1>2
<1>3. CASE CreateSql(w)
  <2>1. /\ job[w] \in CreateJob /\ job[w].step = "sql"
        /\ DOMAIN server' = DOMAIN server \cup {job[w].id}
        /\ \A s \in DOMAIN server : s # job[w].id => server'[s] = server[s]
        /\ server'[job[w].id].name = job[w].id
        /\ server'[job[w].id].ranges = [base : job'[w].ranges, prefix : {job[w].id}]
    BY <1>3, CreateEffect
  <2>2. CASE t # job[w].id
    BY <1>1, <2>1, <2>2
  <2>3. CASE t = job[w].id
    <3>1. \A p \in server'[t].ranges : p.prefix = job[w].id
      <4>1. \A S, x : \A p \in [base : S, prefix : {x}] : p.prefix = x
        OBVIOUS
      <4>2. server'[t].ranges = [base : job'[w].ranges, prefix : {job[w].id}]
        BY <2>1, <2>3, Zenon
      <4>3. QED
        BY <4>1, <4>2, Zenon
    <3>2. n = job[w].id
      BY <2>1, <2>3, <3>1
    <3>3. QED
      BY <2>1, <2>3, <3>2 DEF Bears, NamesIt, Sent, CreateJob
  <2>4. QED
    BY <2>2, <2>3
<1>4. CASE DropSql(w)
  BY <1>1, <1>4, DropEffect DEF SameBesides
<1>5. CASE AlterSql(w)
  BY <1>1, <1>5, AlterEffect DEF Replaced, Named
<1>6. CASE RenameSql(w)
  <2>1. PICK s \in Named(job[w].says) :
          /\ Replaced(s) /\ SameButName(server'[s], server[s])
          /\ server'[s].name = job[w].to
    BY <1>6, RenameEffect
  <2>2. Sent(w) /\ job[w].kind = "rename"
    BY <1>6, RenameEffect DEF Executed, Sent
  <2>3. s = job[w].id
    BY <2>2, NameIsHome DEF Aim
  <2>4. CASE t # s
    BY <1>1, <2>1, <2>4 DEF Replaced
  <2>5. CASE t = s /\ n = job[w].to
    BY <2>2, <2>3, <2>5 DEF Bears, NamesIt
  <2>6. CASE t = s /\ n # job[w].to
    BY <1>1, <2>1, <2>6 DEF Replaced, SameButName
  <2>7. QED
    BY <2>4, <2>5, <2>6
<1>7. CASE CreateIndexSql(w)
  BY <1>1, <1>7, IndexEffect DEF Replaced, SameButIdx
<1>8. CASE DropIndexSql(w)
  BY <1>1, <1>8, NoIndexEffect DEF Replaced, SameButIdx
<1>9. CASE CreatePartitionSql(w)
  <2>1. PICK s \in Named(job[w].says) :
          /\ Replaced(s) /\ SameButRanges(server'[s], server[s])
          /\ server'[s].ranges = server[s].ranges
               \cup {[base |-> job[w].base, prefix |-> job[w].says]}
    BY <1>9, RangeEffect
  <2>2. CASE t # s
    BY <1>1, <2>1, <2>2 DEF Replaced
  <2>3. CASE t = s
    BY <1>1, <2>1, <2>3 DEF Replaced, SameButRanges, Named
  <2>4. QED
    BY <2>2, <2>3
<1>10. CASE DropPartitionSql(w)
  <2>1. PICK s \in DOMAIN server : \E p \in server[s].ranges :
          /\ DOMAIN server' = DOMAIN server
          /\ \A u \in DOMAIN server \ {s} : SameBesides(server'[u], server[u])
          /\ server'[s].name = server[s].name
          /\ server'[s].ranges = server[s].ranges \ {p}
    BY <1>10, NoRangeEffect
  <2>2. QED
    BY <1>1, <2>1 DEF SameBesides
<1>11. CASE Refused(w)
  BY <1>2, <1>11 DEF Refused
<1>12. QED
  BY <1>2, <1>3, <1>4, <1>5, <1>6, <1>7, <1>8, <1>9, <1>10, <1>11, StaysOnServer
     DEF SqlOf

LEMMA NamesUniqueKept ==
  ASSUME TypeInv, ServerType, Fresh, NamesUnique, NEW w \in Worker, Act(w)
  PROVE  NamesUnique'
<1>1. \A n, t : NamedIn(n, t)' => Bears(n, t)
  <2>1. ASSUME NEW n, NEW t, NamedIn(n, t)' PROVE Bears(n, t)
    <3>1. CASE t \in DOMAIN catalog' /\ catalog'[t].name = n
      BY <3>1, CatalogNames DEF Bears, NamedIn
    <3>2. CASE t \in DOMAIN server'
               /\ (server'[t].name = n \/ \E p \in server'[t].ranges : p.prefix = n)
      BY <3>2, ServerNames
    <3>3. QED
      BY <2>1, <3>1, <3>2 DEF NamedIn
  <2>2. QED
    BY <2>1
<1>2. CASE ~Pick(w)
  <2>1. \A n, t : Bears(n, t)' => Bears(n, t)
    BY <1>1, <1>2, NamesItShrinks DEF Bears
  <2>2. drawn' = drawn
    BY <1>2, NobodyNew
  <2>3. QED
    BY <2>1, <2>2 DEF NamesUnique
<1>3. CASE Pick(w)
  <2> DEFINE p == job'[w]
             New1(n, t) == n = drawn + 1 /\ t = p.id /\ drawn' = drawn + 1
  <2>1. /\ Chosen(p) /\ p.step = "sql" /\ drawn \in Nat /\ drawn' \in Nat /\ drawn' >= drawn
        /\ p.kind \in {"create", "rename"} => drawn' = drawn + 1
        /\ \A v \in Worker \ {w} : job'[v] = job[v]
    BY <1>3, PickStep DEF TypeInv
  <2>2. \A n, t : NamesIt(w, n, t)' => Bears(n, t) \/ New1(n, t)
    <3>1. ASSUME NEW n, NEW t, n = p.says, t = Aim(p) PROVE Bears(n, t)
      <4>1. Aim(p) = NoId \/ Aim(p) \in DOMAIN catalog
        BY <2>1 DEF Chosen, Aim
      <4>2. QED
        BY <2>1, <3>1, <4>1 DEF Chosen, Bears, NamedIn
    <3>2. QED
      BY <2>1, <3>1 DEF NamesIt, Chosen
  <2>3. \A v \in Worker \ {w} : \A n, t : NamesIt(v, n, t)' => NamesIt(v, n, t)
    BY <2>1 DEF NamesIt, Sent, Aim
  <2>4. \A n, t : Bears(n, t)' => Bears(n, t) \/ New1(n, t)
    BY <1>1, <2>2, <2>3 DEF Bears
  <2> HIDE DEF p
  <2>5. \A n, t : New1(n, t) => n \in 0 .. drawn' /\ ~(n \in 0 .. drawn)
    BY <2>1
  <2>6. \A n, s, t : New1(n, s) /\ New1(n, t) => s = t
    OBVIOUS
  <2>7. 0 .. drawn \subseteq 0 .. drawn'
    BY <2>1
  <2> HIDE DEF New1
  <2>8. QED
    BY <2>4, <2>5, <2>6, <2>7 DEF NamesUnique
<1>4. QED
  BY <1>2, <1>3

IndexedIn(n, t) ==
  \/ t \in DOMAIN catalog /\ \E x \in catalog[t].idx : x.no = n
  \/ t \in DOMAIN server /\ \E x \in server[t].idx : x.no = n

\* The job of w takes n for an index of t, or makes it one.
IndexesIt(w, n, t) ==
  /\ Sent(w) /\ t = job[w].id
  /\ \/ job[w].kind = "unindex" /\ n = job[w].no
     \/ job[w].kind = "index" /\ n = job[w].index.no

Owner(n, t) == IndexedIn(n, t) \/ \E w \in Worker : IndexesIt(w, n, t)

\* In the MySQL family an index's name is the table's own affair.
OwnersUnique ==
  Postgres => /\ \A n, s, t : Owner(n, s) /\ Owner(n, t) => s = t
              /\ \A n, t : Owner(n, t) => n \in 0 .. drawn

\* The table whose index a statement drops is the one it is about.
LEMMA IndexIsHome ==
  ASSUME NamesUnique, OwnersUnique, NEW w \in Worker, Sent(w),
         job[w].kind = "unindex", NEW t \in DOMAIN server,
         Postgres \/ t \in Named(job[w].says),
         NEW x \in server[t].idx, x.no = job[w].no
  PROVE  t = job[w].id
<1>1. CASE Postgres
  BY <1>1 DEF OwnersUnique, Owner, IndexedIn, IndexesIt
<1>2. CASE ~Postgres
  BY <1>2, NameIsHome DEF Aim
<1>3. QED
  BY <1>1, <1>2

LEMMA IndexesItShrinks ==
  ASSUME TypeInv, NEW w \in Worker, Act(w), ~Pick(w), NEW v \in Worker,
         NEW n, NEW t, IndexesIt(v, n, t)'
  PROVE  IndexesIt(v, n, t)
<1>1. /\ \A u \in Worker \ {w} : job'[u] = job[u]
      /\ Sent(w)' => Sent(w) /\ GoesOn(job'[w], job[w])
  BY JobsKept
<1>2. CASE v = w
  BY <1>1, <1>2 DEF IndexesIt, GoesOn
<1>3. CASE v # w
  BY <1>1, <1>3 DEF IndexesIt, Sent
<1>4. QED
  BY <1>2, <1>3

LEMMA DeltaIndexes ==
  ASSUME NEW w \in Worker, Sent(w), NEW r \in CatalogRec, NEW m,
         Changes(job[w], r, m), NEW x \in m.idx
  PROVE  (\E y \in r.idx : y.no = x.no) \/ IndexesIt(w, x.no, job[w].id)
<1>1. CASE job[w].kind = "alter"
  <2> DEFINE S == r.idx
             D == job[w].drops
  <2>1. S \in SUBSET Index
    BY DEF CatalogRec
  <2>2. x \in Cut(S, D)
    BY <1>1 DEF Changes
  <2> HIDE DEF S, D
  <2>3. \E y \in S : y.no = x.no /\ x.on \subseteq y.on
    BY <2>1, <2>2, CutNos
  <2>4. QED
    BY <2>3 DEF S
<1>2. CASE job[w].kind # "alter"
  BY <1>2 DEF Changes, IndexesIt, Minus
<1>3. QED
  BY <1>1, <1>2

LEMMA CatalogIndexes ==
  ASSUME TypeInv, Postgres, NEW w \in Worker, Act(w), NEW t \in DOMAIN catalog',
         NEW x \in catalog'[t].idx
  PROVE  Owner(x.no, t)
<1>1. \A s \in DOMAIN catalog : \A y \in catalog[s].idx : Owner(y.no, s)
  BY DEF Owner, IndexedIn
<1>2. CASE PublishCreate(w)
  <2>1. /\ DOMAIN catalog' = DOMAIN catalog \cup {job[w].id}
        /\ \A s \in DOMAIN catalog : s # job[w].id => catalog'[s] = catalog[s]
        /\ catalog'[job[w].id].idx = NewIndexes(job[w])
    BY <1>2, CreatePublish
  <2>2. QED
    BY <1>1, <2>1 DEF NewIndexes
<1>3. CASE DeltaOf(w)
  <2>1. DeltaStep(w) /\ t \in DOMAIN catalog
    BY <1>3, DeltaIsDeltaStep DEF DeltaStep
  <2>2. CASE t # job[w].id
    BY <1>1, <2>1, <2>2 DEF DeltaStep
  <2>3. CASE t = job[w].id
    <3> DEFINE r == catalog[t]
               m == catalog'[t]
    <3>1. Changes(job[w], r, m) /\ Sent(w) /\ r \in CatalogRec
      BY <2>1, <2>3 DEF DeltaStep, Sent, TypeInv, CatalogType
    <3>2. x \in m.idx /\ \A y \in r.idx : Owner(y.no, t)
      BY <1>1, <2>1
    <3> HIDE DEF r, m
    <3>3. (\E y \in r.idx : y.no = x.no) \/ IndexesIt(w, x.no, job[w].id)
      BY <3>1, <3>2, DeltaIndexes
    <3>4. QED
      BY <2>3, <3>2, <3>3 DEF Owner
  <2>4. QED
    BY <2>2, <2>3
<1>4. CASE ~PublishCreate(w) /\ ~DeltaOf(w)
  BY <1>1, <1>4, OthersKeep DEF SameBesides
<1>5. QED
  BY <1>2, <1>3, <1>4

LEMMA ServerIndexes ==
  ASSUME TypeInv, ServerType, Postgres, NamesUnique, NEW w \in Worker, Act(w),
         NEW t \in DOMAIN server', NEW x \in server'[t].idx
  PROVE  Owner(x.no, t)
<1>1. \A s \in DOMAIN server : \A y \in server[s].idx : Owner(y.no, s)
  BY DEF Owner, IndexedIn
<1>2. CASE server' = server
  BY <1>1, <1>2
<1>3. CASE CreateSql(w)
  <2>1. /\ DOMAIN server' = DOMAIN server \cup {job[w].id}
        /\ \A s \in DOMAIN server : s # job[w].id => server'[s] = server[s]
        /\ server'[job[w].id].idx = NewIndexes(job[w])
    BY <1>3, CreateEffect
  <2>2. QED
    BY <1>1, <2>1 DEF NewIndexes
<1>4. CASE DropSql(w)
  BY <1>1, <1>4, DropEffect DEF SameBesides
<1>5. CASE AlterSql(w)
  <2>1. PICK s \in Named(job[w].says) :
          Replaced(s) /\ server'[s].idx = Cut(server[s].idx, job[w].drops)
    BY <1>5, AlterEffect
  <2>2. CASE t # s
    BY <1>1, <2>1, <2>2 DEF Replaced
  <2>3. CASE t = s
    <3>1. server[s].idx \in SUBSET Index /\ x \in Cut(server[s].idx, job[w].drops)
      BY <2>1, <2>3 DEF Replaced, ServerType, ServerRec
    <3>2. PICK y \in server[s].idx : y.no = x.no
      BY <3>1, CutNos
    <3>3. QED
      BY <1>1, <2>1, <2>3, <3>2 DEF Replaced
  <2>4. QED
    BY <2>2, <2>3
<1>6. CASE RenameSql(w)
  BY <1>1, <1>6, RenameEffect DEF Replaced, SameButName
<1>7. CASE CreateIndexSql(w)
  <2>1. PICK s \in Named(job[w].says) :
          Replaced(s) /\ server'[s].idx = server[s].idx \cup {job[w].index}
    BY <1>7, IndexEffect
  <2>2. Sent(w) /\ job[w].kind = "index"
    BY <1>7 DEF CreateIndexSql, Sends, Sent
  <2>3. s = job[w].id
    BY <2>2, NameIsHome DEF Aim
  <2>4. CASE x \in server[t].idx
    BY <1>1, <2>1, <2>4 DEF Replaced
  <2>5. CASE t = s /\ x = job[w].index
    BY <2>2, <2>3, <2>5 DEF Owner, IndexesIt
  <2>6. QED
    BY <2>1, <2>4, <2>5 DEF Replaced
<1>8. CASE DropIndexSql(w)
  <2>1. PICK s \in DOMAIN server :
          Replaced(s) /\ server'[s].idx = Minus(server[s].idx, {job[w].no})
    BY <1>8, NoIndexEffect
  <2>2. x \in server[t].idx /\ t \in DOMAIN server
    BY <2>1 DEF Replaced, Minus
  <2>3. QED
    BY <1>1, <2>2
<1>9. CASE CreatePartitionSql(w)
  BY <1>1, <1>9, RangeEffect DEF Replaced, SameButRanges
<1>10. CASE DropPartitionSql(w)
  BY <1>1, <1>10, NoRangeEffect DEF SameBesides
<1>11. CASE Refused(w)
  BY <1>2, <1>11 DEF Refused
<1>12. QED
  BY <1>2, <1>3, <1>4, <1>5, <1>6, <1>7, <1>8, <1>9, <1>10, <1>11, StaysOnServer
     DEF SqlOf

LEMMA OwnersUniqueKept ==
  ASSUME TypeInv, ServerType, NamesUnique, OwnersUnique, NEW w \in Worker, Act(w)
  PROVE  OwnersUnique'
<1>1. Postgres' = Postgres
  BY NobodyNew, PickStep DEF Postgres
<1>2. SUFFICES ASSUME Postgres
               PROVE  /\ \A n, s, t : Owner(n, s)' /\ Owner(n, t)' => s = t
                      /\ \A n, t : Owner(n, t)' => n \in 0 .. drawn'
  BY <1>1 DEF OwnersUnique
<1>3. \A n, t : IndexedIn(n, t)' => Owner(n, t)
  BY <1>2, CatalogIndexes, ServerIndexes DEF IndexedIn
<1>4. CASE ~Pick(w)
  <2>1. \A n, t : Owner(n, t)' => Owner(n, t)
    BY <1>3, <1>4, IndexesItShrinks DEF Owner
  <2>2. drawn' = drawn
    BY <1>4, NobodyNew
  <2>3. QED
    BY <1>2, <2>1, <2>2 DEF OwnersUnique
<1>5. CASE Pick(w)
  <2> DEFINE p == job'[w]
             New1(n, t) == n = drawn + 1 /\ t = p.id /\ drawn' = drawn + 1
  <2>1. /\ Chosen(p) /\ p.step = "sql" /\ drawn \in Nat /\ drawn' \in Nat /\ drawn' >= drawn
        /\ p.kind = "index" => drawn' = drawn + 1
        /\ \A v \in Worker \ {w} : job'[v] = job[v]
    BY <1>5, PickStep DEF TypeInv
  <2>2. \A n, t : IndexesIt(w, n, t)' => Owner(n, t) \/ New1(n, t)
    BY <2>1 DEF IndexesIt, Chosen, Owner, IndexedIn
  <2>3. \A v \in Worker \ {w} : \A n, t : IndexesIt(v, n, t)' => IndexesIt(v, n, t)
    BY <2>1 DEF IndexesIt, Sent
  <2>4. \A n, t : Owner(n, t)' => Owner(n, t) \/ New1(n, t)
    BY <1>3, <2>2, <2>3 DEF Owner
  <2> HIDE DEF p
  <2>5. \A n, t : New1(n, t) => n \in 0 .. drawn' /\ ~(n \in 0 .. drawn)
    BY <2>1
  <2>6. \A n, s, t : New1(n, s) /\ New1(n, t) => s = t
    OBVIOUS
  <2>7. 0 .. drawn \subseteq 0 .. drawn'
    BY <2>1
  <2> HIDE DEF New1
  <2>8. QED
    BY <1>2, <2>4, <2>5, <2>6, <2>7 DEF OwnersUnique
<1>6. QED
  BY <1>4, <1>5

-----------------------------------------------------------------------------
(* What a step does to a table that is there before it and after it: on the  *)
(* server and in the catalog, it is only the worker's own table it changes.  *)

\* The worker's job says its kind, and that its action.
LEMMA KindOfAct ==
  ASSUME NEW w \in Worker, Act(w), Sent(w), ~Refused(w)
  PROVE  /\ job[w].kind = "create"  => CreateSql(w) \/ PublishCreate(w)
         /\ job[w].kind = "drop"    => DropSql(w) \/ PublishDrop(w)
         /\ job[w].kind = "alter"   => AlterSql(w) \/ PublishAlter(w)
         /\ job[w].kind = "rename"  => RenameSql(w) \/ PublishRename(w)
         /\ job[w].kind = "index"   => CreateIndexSql(w) \/ PublishIndex(w)
         /\ job[w].kind = "unindex" => DropIndexSql(w) \/ PublishNoIndex(w)
         /\ job[w].kind = "part"    => CreatePartitionSql(w) \/ PublishPartition(w)
         /\ job[w].kind = "unpart"  => DropPartitionSql(w) \/ PublishNoPartition(w)
<1>1. ~Pick(w)
  BY DEF Pick, Busy, Sent, Idle
<1>2. ~Recheck(w) /\ ~Sweep(w) /\ ~Unref(w)
  BY DEF Recheck, Sweep, Unref, Sent
<1>3. /\ CreateSql(w) => job[w].kind = "create"
      /\ DropSql(w) => job[w].kind = "drop"
      /\ AlterSql(w) => job[w].kind = "alter"
      /\ RenameSql(w) => job[w].kind = "rename"
      /\ CreateIndexSql(w) => job[w].kind = "index"
      /\ DropIndexSql(w) => job[w].kind = "unindex"
      /\ CreatePartitionSql(w) => job[w].kind = "part"
      /\ DropPartitionSql(w) => job[w].kind = "unpart"
  BY Zenon DEF CreateSql, DropSql, AlterSql, RenameSql, CreateIndexSql, DropIndexSql,
     CreatePartitionSql, DropPartitionSql, Sends
<1>4. /\ PublishCreate(w) => job[w].kind = "create"
      /\ PublishDrop(w) => job[w].kind = "drop"
      /\ PublishAlter(w) => job[w].kind = "alter"
      /\ PublishRename(w) => job[w].kind = "rename"
      /\ PublishIndex(w) => job[w].kind = "index"
      /\ PublishNoIndex(w) => job[w].kind = "unindex"
      /\ PublishPartition(w) => job[w].kind = "part"
      /\ PublishNoPartition(w) => job[w].kind = "unpart"
  BY Zenon DEF PublishCreate, PublishDrop, PublishAlter, PublishRename, PublishIndex,
     PublishNoIndex, PublishPartition, PublishNoPartition, Delta, Publishes
<1>5. Act(w) => \/ CreateSql(w) \/ DropSql(w) \/ AlterSql(w) \/ RenameSql(w)
                \/ CreateIndexSql(w) \/ DropIndexSql(w)
                \/ CreatePartitionSql(w) \/ DropPartitionSql(w)
                \/ PublishCreate(w) \/ PublishDrop(w)
                \/ PublishAlter(w) \/ PublishRename(w) \/ PublishIndex(w)
                \/ PublishNoIndex(w) \/ PublishPartition(w) \/ PublishNoPartition(w)
  BY <1>1, <1>2, Zenon DEF Act
<1>6. QED
  BY <1>3, <1>4, <1>5

NameChange(w, t) ==
  \/ server'[t].name = server[t].name
  \/ RenameSql(w) /\ t = job[w].id /\ server'[t].name = job[w].to
       /\ t \in Named(job[w].says)

ColsChange(w, t) ==
  \/ server'[t].cols = server[t].cols /\ server'[t].wide = server[t].wide
  \/ /\ AlterSql(w) /\ t = job[w].id
     /\ job[w].drops \cup job[w].widens \subseteq server[t].cols
     /\ server'[t].cols = (server[t].cols \ job[w].drops) \cup job[w].adds
     /\ server'[t].wide = (server[t].wide \ job[w].drops) \cup job[w].widens

IdxChange(w, t) ==
  \/ server'[t].idx = server[t].idx
  \/ /\ AlterSql(w) /\ t = job[w].id
     /\ server'[t].idx = Cut(server[t].idx, job[w].drops)
  \/ /\ CreateIndexSql(w) /\ t = job[w].id
     /\ server'[t].idx = server[t].idx \cup {job[w].index}
  \/ /\ DropIndexSql(w) /\ t = job[w].id
     /\ server'[t].idx = Minus(server[t].idx, {job[w].no})

RangesChange(w, t) ==
  \/ server'[t].ranges = server[t].ranges
  \/ /\ CreatePartitionSql(w) /\ t = job[w].id
     /\ server'[t].ranges = server[t].ranges
          \cup {[base |-> job[w].base, prefix |-> job[w].says]}
  \/ /\ DropPartitionSql(w) /\ t = job[w].id
     /\ \E p \in server[t].ranges :
          /\ p.base = job[w].base
          /\ Postgres \/ server[t].ranges # {p}
          /\ server'[t].ranges = server[t].ranges \ {p}

ServerChange(w, t) ==
  /\ server'[t].parted = server[t].parted
  /\ NameChange(w, t) /\ ColsChange(w, t) /\ IdxChange(w, t) /\ RangesChange(w, t)

LEMMA SameServerChange ==
  ASSUME NEW w, NEW t, SameBesides(server'[t], server[t])
  PROVE  ServerChange(w, t)
BY DEF ServerChange, NameChange, ColsChange, IdxChange, RangesChange, SameBesides

LEMMA ServerChanges ==
  ASSUME TypeInv, ServerType, NamesUnique, OwnersUnique, NEW w \in Worker, Act(w),
         NEW t \in DOMAIN server, t \in DOMAIN server',
         CreateSql(w) => t # job[w].id
  PROVE  ServerChange(w, t)
<1> USE DEF NameChange, ColsChange, IdxChange, RangesChange
<1>1. CASE server' = server
  BY <1>1, SameServerChange DEF SameBesides
<1>2. CASE CreateSql(w)
  <2>1. server'[t] = server[t]
    BY <1>2, CreateEffect
  <2>2. QED
    BY <2>1, SameServerChange DEF SameBesides
<1>3. CASE DropSql(w)
  BY <1>3, DropEffect, SameServerChange
<1>4. CASE AlterSql(w)
  <2>1. Executed(w, "alter")
    BY <1>4, AlterEffect
  <2>2. PICK s \in Named(job[w].says) :
          /\ Replaced(s)
          /\ job[w].drops \cup job[w].widens \subseteq server[s].cols
          /\ server'[s].name = server[s].name
          /\ server'[s].parted = server[s].parted
          /\ server'[s].ranges = server[s].ranges
          /\ server'[s].cols = (server[s].cols \ job[w].drops) \cup job[w].adds
          /\ server'[s].wide = (server[s].wide \ job[w].drops) \cup job[w].widens
          /\ server'[s].idx = Cut(server[s].idx, job[w].drops)
    BY <1>4, AlterEffect
  <2>3. s = job[w].id
    BY <2>1, NameIsHome DEF Executed, Sent, Aim
  <2>4. CASE t = s
    BY <1>4, <2>2, <2>3, <2>4, Zenon DEF ServerChange
  <2>5. CASE t # s
    BY <2>2, <2>5, SameServerChange DEF Replaced, SameBesides
  <2>6. QED
    BY <2>4, <2>5
<1>5. CASE RenameSql(w)
  <2>1. Executed(w, "rename")
    BY <1>5, RenameEffect
  <2>2. PICK s \in Named(job[w].says) :
          /\ Replaced(s) /\ SameButName(server'[s], server[s])
          /\ server'[s].name = job[w].to
    BY <1>5, RenameEffect
  <2>3. s = job[w].id
    BY <2>1, NameIsHome DEF Executed, Sent, Aim
  <2>4. CASE t = s
    BY <1>5, <2>2, <2>3, <2>4, Zenon DEF ServerChange, SameButName
  <2>5. CASE t # s
    BY <2>2, <2>5, SameServerChange DEF Replaced, SameBesides
  <2>6. QED
    BY <2>4, <2>5
<1>6. CASE CreateIndexSql(w)
  <2>1. Sent(w) /\ job[w].kind = "index"
    BY <1>6 DEF CreateIndexSql, Sends, Sent
  <2>2. PICK s \in Named(job[w].says) :
          /\ Replaced(s) /\ SameButIdx(server'[s], server[s])
          /\ server'[s].idx = server[s].idx \cup {job[w].index}
    BY <1>6, IndexEffect
  <2>3. s = job[w].id
    BY <2>1, NameIsHome DEF Aim
  <2>4. CASE t = s
    BY <1>6, <2>2, <2>3, <2>4, Zenon DEF ServerChange, SameButIdx
  <2>5. CASE t # s
    BY <2>2, <2>5, SameServerChange DEF Replaced, SameBesides
  <2>6. QED
    BY <2>4, <2>5
<1>7. CASE DropIndexSql(w)
  <2>1. Executed(w, "unindex")
    BY <1>7, NoIndexEffect
  <2>2. PICK s \in DOMAIN server :
          /\ Postgres \/ s \in Named(job[w].says)
          /\ \E x \in server[s].idx : x.no = job[w].no
          /\ Replaced(s) /\ SameButIdx(server'[s], server[s])
          /\ server'[s].idx = Minus(server[s].idx, {job[w].no})
    BY <1>7, NoIndexEffect
  <2>3. s = job[w].id
    BY <2>1, <2>2, IndexIsHome DEF Executed, Sent
  <2>4. CASE t = s
    BY <1>7, <2>2, <2>3, <2>4, Zenon DEF ServerChange, SameButIdx
  <2>5. CASE t # s
    BY <2>2, <2>5, SameServerChange DEF Replaced, SameBesides
  <2>6. QED
    BY <2>4, <2>5
<1>8. CASE CreatePartitionSql(w)
  <2>1. Executed(w, "part")
    BY <1>8, RangeEffect
  <2>2. PICK s \in Named(job[w].says) :
          /\ Replaced(s) /\ SameButRanges(server'[s], server[s])
          /\ server'[s].ranges = server[s].ranges
               \cup {[base |-> job[w].base, prefix |-> job[w].says]}
    BY <1>8, RangeEffect
  <2>3. s = job[w].id
    BY <2>1, NameIsHome DEF Executed, Sent, Aim
  <2>4. CASE t = s
    BY <1>8, <2>2, <2>3, <2>4, Zenon DEF ServerChange, SameButRanges
  <2>5. CASE t # s
    BY <2>2, <2>5, SameServerChange DEF Replaced, SameBesides
  <2>6. QED
    BY <2>4, <2>5
<1>9. CASE DropPartitionSql(w)
  <2>1. Executed(w, "unpart")
    BY <1>9, NoRangeEffect
  <2>2. PICK s \in DOMAIN server : \E p \in server[s].ranges :
          /\ p.base = job[w].base
          /\ IF Postgres THEN p.prefix = job[w].says
             ELSE s \in Named(job[w].says) /\ server[s].ranges # {p}
          /\ \A u \in DOMAIN server \ {s} : SameBesides(server'[u], server[u])
          /\ server'[s].name = server[s].name /\ server'[s].cols = server[s].cols
          /\ server'[s].wide = server[s].wide /\ server'[s].idx = server[s].idx
          /\ server'[s].parted = server[s].parted
          /\ server'[s].ranges = server[s].ranges \ {p}
    BY <1>9, NoRangeEffect
  <2>3. s = job[w].id
    <3>1. CASE Postgres
      <4>1. \E p \in server[s].ranges : p.prefix = job[w].says
        BY <2>2, <3>1
      <4>2. Bears(job[w].says, s)
        BY <4>1 DEF Bears, NamedIn
      <4>3. Bears(job[w].says, job[w].id)
        BY <2>1 DEF Bears, NamesIt, Executed, Sent, Aim
      <4>4. QED
        BY <4>2, <4>3 DEF NamesUnique
    <3>2. CASE ~Postgres
      BY <2>1, <2>2, <3>2, NameIsHome DEF Executed, Sent, Aim
    <3>3. QED
      BY <3>1, <3>2
  <2>4. CASE t = s
    <3>1. RangesChange(w, t)
      BY <1>9, <2>2, <2>3, <2>4
    <3>2. QED
      BY <2>2, <2>4, <3>1, Zenon DEF ServerChange
  <2>5. CASE t # s
    BY <2>2, <2>5, SameServerChange
  <2>6. QED
    BY <2>4, <2>5
<1>10. CASE Refused(w)
  BY <1>1, <1>10 DEF Refused
<1>11. QED
  BY <1>1, <1>2, <1>3, <1>4, <1>5, <1>6, <1>7, <1>8, <1>9, <1>10, StaysOnServer
     DEF SqlOf

LEMMA ServerDomain ==
  ASSUME TypeInv, ServerType, NamesUnique, NEW w \in Worker, Act(w)
  PROVE  /\ ServerType'
         /\ \/ CreateSql(w) /\ DOMAIN server' = DOMAIN server \cup {job[w].id}
            \/ /\ DropSql(w) /\ job[w].id \in DOMAIN server
               /\ DOMAIN server' = DOMAIN server \ {job[w].id}
            \/ /\ ~CreateSql(w) /\ ~DropSql(w)
               /\ DOMAIN server' = DOMAIN server
<1>1. CASE ~SqlOf(w) \/ Refused(w)
  <2>1. server' = server
    BY <1>1, StaysOnServer DEF Refused
  <2>2. ~CreateSql(w) /\ ~DropSql(w)
    <3>1. CASE ~SqlOf(w)
      BY <3>1 DEF SqlOf
    <3>2. CASE Refused(w)
      <4>1. job'[w] = Idle
        BY <3>2 DEF Refused, TypeInv
      <4>2. ASSUME CreateSql(w) PROVE FALSE
        <5>1. job'[w].step = "publish"
          BY <4>2, CreateEffect
        <5>2. QED
          BY <4>1, <5>1 DEF Idle
      <4>3. ASSUME DropSql(w) PROVE FALSE
        BY <4>1, <4>3, DropEffect DEF Executed, Idle
      <4>4. QED
        BY <4>2, <4>3
    <3>3. QED
      BY <1>1, <3>1, <3>2
  <2>3. QED
    BY <2>1, <2>2 DEF ServerType
<1>2. CASE CreateSql(w)
  BY <1>2, CreateEffect
<1>3. CASE DropSql(w)
  <2>1. Executed(w, "drop")
    BY <1>3, DropEffect
  <2>2. PICK s \in Named(job[w].says) : ServerType' /\ DOMAIN server' = DOMAIN server \ {s}
    BY <1>3, DropEffect
  <2>3. s = job[w].id
    BY <2>1, NameIsHome DEF Executed, Sent, Aim
  <2>4. QED
    BY <1>3, <2>2, <2>3 DEF Named
<1>4. CASE \/ AlterSql(w) \/ RenameSql(w) \/ CreateIndexSql(w) \/ DropIndexSql(w)
           \/ CreatePartitionSql(w) \/ DropPartitionSql(w)
  <2>1. ServerType' /\ DOMAIN server' = DOMAIN server
    BY <1>4, AlterEffect, RenameEffect, IndexEffect, NoIndexEffect, RangeEffect,
       NoRangeEffect DEF Replaced
  <2>2. ~CreateSql(w) /\ ~DropSql(w)
    BY <1>4 DEF CreateSql, DropSql, AlterSql, RenameSql, CreateIndexSql, DropIndexSql,
       CreatePartitionSql, DropPartitionSql, Sends
  <2>3. QED
    BY <2>1, <2>2
<1>5. QED
  BY <1>1, <1>2, <1>3, <1>4 DEF SqlOf

LEMMA CatalogDomain ==
  ASSUME TypeInv, NEW w \in Worker, Act(w)
  PROVE  \/ PublishCreate(w) /\ DOMAIN catalog' = DOMAIN catalog \cup {job[w].id}
         \/ PublishDrop(w) /\ DOMAIN catalog' = DOMAIN catalog \ {job[w].id}
         \/ /\ ~PublishCreate(w) /\ ~PublishDrop(w)
            /\ DOMAIN catalog' = DOMAIN catalog
<1>1. CASE PublishCreate(w)
  BY <1>1, CreatePublish
<1>2. CASE PublishDrop(w)
  BY <1>2, DropPublish
<1>3. CASE ~PublishCreate(w) /\ ~PublishDrop(w)
  <2>1. CASE Pick(w)
    BY <1>3, <2>1 DEF Pick
  <2>2. CASE SqlOf(w)
    BY <1>3, <2>2, SqlIsServerStep DEF ServerStep
  <2>3. CASE Recheck(w) \/ Sweep(w) \/ Unref(w)
    BY <1>3, <2>3, RecheckStep, SweepStep, UnrefStep
  <2>4. CASE DeltaOf(w)
    BY <1>3, <2>4, DeltaIsDeltaStep DEF DeltaStep
  <2>5. QED
    BY <1>3, <2>1, <2>2, <2>3, <2>4, ActCases
<1>4. QED
  BY <1>1, <1>2, <1>3

\* A table is on the server or in the catalog alone only while the worker that
\* created or dropped it has still to publish that.
Exist ==
  /\ NoId \notin DOMAIN catalog \cup DOMAIN server
  /\ \A t \in DOMAIN server \ DOMAIN catalog : Pending("create", t) # {}
  /\ \A t \in DOMAIN catalog \ DOMAIN server : Pending("drop", t) # {}
  /\ \A w \in Creating : job[w].id \in DOMAIN server <=> job[w].step = "publish"
  /\ \A w \in Busy : job[w].kind = "drop" /\ job[w].step # "sql"
                       => job[w].id \notin DOMAIN server

\* A table that is being created is nobody else's, nor in the catalog.
LEMMA CreatesOwn ==
  ASSUME TypeInv, Fresh, NEW w \in Worker, Sent(w), job[w].kind = "create"
  PROVE  /\ job[w].id \notin DOMAIN catalog /\ job[w].id # NoId
         /\ job[w].id # job[w].ref
         /\ \A t \in DOMAIN catalog : catalog[t].ref # job[w].id
         /\ \A t \in DOMAIN server : server[t].ref # job[w].id
         /\ \A v \in Worker \ {w} : job[v] # Idle /\ job[v].kind # "create"
                                      => job[v].id # job[w].id
         /\ \A v \in Worker \ {w} : Sent(v) => job[v].id # job[w].id
         /\ \A v \in Worker : Sent(v) /\ job[v].kind = "create" => job[v].ref # job[w].id
<1> DEFINE i == job[w].id
<1>1. Drew(w, i)
  BY DEF Drew
<1>2. ~Public(i) /\ \A v \in Worker \ {w} : ~Drew(v, i)
  BY <1>1 DEF Fresh
<1>3. ~InCatalog(i) /\ ~(i \in 0 .. FirstDraw) /\ \A v \in Worker : ~Asks(v, i)
  BY <1>2 DEF Public
<1>4. i # NoId
  <2>1. 0 \in 0 .. FirstDraw
    BY ConfigTyped DEF TypeInv
  <2>2. QED
    BY <1>3, <2>1 DEF NoId
<1>5. \A t \in DOMAIN catalog : i # t /\ i # catalog[t].ref
  BY <1>3 DEF InCatalog, InRecord
<1>6. \A t \in DOMAIN server : server[t].ref # i
  BY <1>2 DEF Public
<1>7. \A v \in Worker : job[v] # Idle /\ job[v].kind # "create" => job[v].id # i
  BY <1>3 DEF Asks
<1>8. \A v \in Worker : Sent(v) /\ job[v].kind = "create" => job[v].ref # i
  BY <1>3 DEF Asks
<1>9. \A v \in Worker \ {w} : Sent(v) => job[v].id # i
  <2>1. ASSUME NEW v \in Worker \ {w}, Sent(v) PROVE job[v].id # i
    <3>1. job[v] # Idle
      BY <2>1 DEF Sent, Idle
    <3>2. CASE job[v].kind = "create"
      BY <1>2, <2>1, <3>2 DEF Drew
    <3>3. QED
      BY <1>7, <3>1, <3>2
  <2>2. QED
    BY <2>1
<1>10. QED
  BY <1>4, <1>5, <1>6, <1>7, <1>8, <1>9

LEMMA ExistKept ==
  ASSUME TypeInv, ServerType, Fresh, NamesUnique, Exist, NEW w \in Worker, Act(w)
  PROVE  Exist'
<1> DEFINE i == job[w].id
           E1 == NoId \notin DOMAIN catalog \cup DOMAIN server
           E2 == \A t \in DOMAIN server \ DOMAIN catalog : Pending("create", t) # {}
           E3 == \A t \in DOMAIN catalog \ DOMAIN server : Pending("drop", t) # {}
           E4 == \A v \in Creating :
                   job[v].id \in DOMAIN server <=> job[v].step = "publish"
           E5 == \A v \in Busy : job[v].kind = "drop" /\ job[v].step # "sql"
                                   => job[v].id \notin DOMAIN server
<1>1. E1 /\ E2 /\ E3 /\ E4 /\ E5
  BY DEF Exist
<1>2. CASE CreateSql(w)
  <2>1. /\ Sent(w) /\ job[w].kind = "create" /\ job[w].step = "sql"
        /\ catalog' = catalog /\ job'[w].step = "publish" /\ GoesOn(job'[w], job[w])
        /\ \A v \in Worker \ {w} : job'[v] = job[v]
        /\ DOMAIN server' = DOMAIN server \cup {i}
    BY <1>2, CreateEffect DEF CreateJob, Sent
  <2>2. /\ i \notin DOMAIN catalog /\ i # NoId
        /\ \A v \in Worker \ {w} : job[v] # Idle /\ job[v].kind # "create" => job[v].id # i
        /\ \A v \in Worker \ {w} : Sent(v) => job[v].id # i
    BY <2>1, CreatesOwn
  <2>3. E1'
    BY <1>1, <2>1, <2>2 DEF NoId
  <2>4. /\ \A t : \A v \in Pending("create", t) : v \in Pending("create", t)'
        /\ \A t : t = i => w \in Pending("create", t)'
        /\ \A t : \A v \in Pending("drop", t) : v \in Pending("drop", t)'
    BY <2>1 DEF Pending, GoesOn
  <2>5. E2'
    <3>1. ASSUME NEW t \in DOMAIN server' \ DOMAIN catalog'
          PROVE  Pending("create", t)' # {}
      <4>1. t = i \/ t \in DOMAIN server \ DOMAIN catalog
        BY <2>1
      <4>2. QED
        BY <1>1, <2>4, <4>1
    <3>2. QED
      BY <3>1
  <2>6. E3'
    BY <1>1, <2>1, <2>4
  <2>7. E4'
    BY <1>1, <2>1, <2>2 DEF Creating, Sent, GoesOn
  <2>8. E5'
    BY <1>1, <2>1, <2>2 DEF Busy, GoesOn
  <2>9. QED
    BY <2>3, <2>5, <2>6, <2>7, <2>8 DEF Exist
<1>3. CASE DropSql(w)
  <2>1. Executed(w, "drop") /\ Sent(w)
    BY <1>3, DropEffect DEF Executed, Sent
  <2>2. i \in DOMAIN server /\ DOMAIN server' = DOMAIN server \ {i}
    BY <1>3, <2>1, ServerDomain DEF CreateSql, Sends, Executed
  <2>3. E1'
    BY <1>1, <2>1, <2>2 DEF NoId, Executed
  <2>4. /\ \A t : \A v \in Pending("create", t) : v \in Pending("create", t)'
        /\ \A t : t = i => w \in Pending("drop", t)'
        /\ \A t : \A v \in Pending("drop", t) : v \in Pending("drop", t)'
    BY <2>1 DEF Pending, GoesOn, Executed
  <2>5. E2'
    BY <1>1, <2>1, <2>2, <2>4 DEF Executed
  <2>6. E3'
    <3>1. ASSUME NEW t \in DOMAIN catalog' \ DOMAIN server'
          PROVE  Pending("drop", t)' # {}
      <4>1. t = i \/ t \in DOMAIN catalog \ DOMAIN server
        BY <2>1, <2>2 DEF Executed
      <4>2. QED
        BY <1>1, <2>4, <4>1
    <3>2. QED
      BY <3>1
  <2>7. E4'
    <3>1. ASSUME NEW v \in Creating' PROVE v \in Creating /\ job'[v] = job[v] /\ v # w
      BY <2>1 DEF Creating, Executed, Sent, GoesOn
    <3>2. ASSUME NEW v \in Creating' PROVE job[v].id # i
      BY <2>1, <3>1, CreatesOwn DEF Creating
    <3>3. QED
      BY <1>1, <2>2, <3>1, <3>2
  <2>8. E5'
    BY <1>1, <2>1, <2>2 DEF Busy, GoesOn, Executed
  <2>9. QED
    BY <2>3, <2>5, <2>6, <2>7, <2>8 DEF Exist
<1>4. CASE PublishCreate(w)
  <2>1. /\ Sent(w) /\ job[w].kind = "create" /\ job[w].step = "publish"
        /\ server' = server /\ job'[w].step = "recheck" /\ job'[w].kind = "create"
        /\ \A v \in Worker \ {w} : job'[v] = job[v]
        /\ DOMAIN catalog' = DOMAIN catalog \cup {i}
    BY <1>4, CreatePublish DEF CreateJob, Sent, Rest
  <2>2. i # NoId /\ i \in DOMAIN server
    BY <1>1, <2>1, CreatesOwn DEF Creating
  <2>3. E1'
    BY <1>1, <2>1, <2>2 DEF NoId
  <2>4. /\ \A t : t # i => \A v \in Pending("create", t) : v \in Pending("create", t)'
        /\ \A t : \A v \in Pending("drop", t) : v \in Pending("drop", t)'
    BY <2>1 DEF Pending
  <2>5. E2'
    BY <1>1, <2>1, <2>4
  <2>6. E3'
    BY <1>1, <2>1, <2>2, <2>4
  <2>7. E4'
    BY <1>1, <2>1 DEF Creating, Sent
  <2>8. E5'
    BY <1>1, <2>1 DEF Busy
  <2>9. QED
    BY <2>3, <2>5, <2>6, <2>7, <2>8 DEF Exist
<1>5. CASE PublishDrop(w)
  <2>1. /\ job[w].kind = "drop" /\ job[w].step = "publish"
        /\ server' = server /\ job'[w].step = "sweep" /\ job'[w].kind = "drop"
        /\ job'[w].id = i
        /\ \A v \in Worker \ {w} : job'[v] = job[v]
        /\ DOMAIN catalog' = DOMAIN catalog \ {i}
    BY <1>5, DropPublish DEF Rest
  <2>2. i \notin DOMAIN server
    BY <1>1, <2>1 DEF Busy, Idle
  <2>3. E1'
    BY <1>1, <2>1 DEF NoId
  <2>4. /\ \A t : t # i => \A v \in Pending("drop", t) : v \in Pending("drop", t)'
        /\ \A t : \A v \in Pending("create", t) : v \in Pending("create", t)'
    BY <2>1 DEF Pending
  <2>5. E2'
    BY <1>1, <2>1, <2>2, <2>4
  <2>6. E3'
    BY <1>1, <2>1, <2>4
  <2>7. E4'
    BY <1>1, <2>1 DEF Creating, Sent
  <2>8. E5'
    BY <1>1, <2>1, <2>2 DEF Busy
  <2>9. QED
    BY <2>3, <2>5, <2>6, <2>7, <2>8 DEF Exist
<1>6. CASE ~CreateSql(w) /\ ~DropSql(w) /\ ~PublishCreate(w) /\ ~PublishDrop(w)
  <2>1. DOMAIN server' = DOMAIN server /\ DOMAIN catalog' = DOMAIN catalog
    BY <1>6, ServerDomain, CatalogDomain
  <2>2. ASSUME NEW kind \in {"create", "drop"}, NEW t
        PROVE  Pending(kind, t)' = Pending(kind, t)
    <3>1. ~Touches(w, kind, t)
      BY <1>6, <2>2, KindOfAct DEF Touches
    <3>2. QED
      BY <3>1, PendingElsewhere
  <2>3. E1' /\ E2' /\ E3'
    BY <1>1, <2>1, <2>2 DEF NoId
  <2>4. ASSUME NEW v \in Worker, v # w
        PROVE  job'[v] = job[v]
    BY <2>4, JobsKept, PickKeeps
  <2>5. E4'
    <3>1. ASSUME NEW v \in Creating', v # w
          PROVE  v \in Creating /\ job'[v] = job[v]
      BY <2>4, <3>1 DEF Creating, Sent
    <3>2. ASSUME w \in Creating'
          PROVE  job'[w].id \in DOMAIN server' <=> job'[w].step = "publish"
      <4>1. CASE Pick(w)
        <5>1. Chosen(job'[w]) /\ job'[w].step = "sql" /\ job'[w].kind = "create"
          BY <3>2, <4>1, PickStep DEF Creating
        <5>2. job'[w].id = drawn + 1 /\ drawn \in Nat
          BY <5>1 DEF Chosen, TypeInv
        <5>3. ASSUME job'[w].id \in DOMAIN server PROVE FALSE
          <6>1. CASE job'[w].id \in DOMAIN catalog
            <7>1. job'[w].id \in 0 .. drawn
              BY <6>1 DEF Fresh, Public, InCatalog
            <7>2. QED
              BY <5>2, <7>1
          <6>2. CASE job'[w].id \notin DOMAIN catalog
            <7>1. PICK v \in Pending("create", job'[w].id) : TRUE
              BY <1>1, <5>3, <6>2
            <7>2. Drew(v, job'[w].id)
              BY <7>1 DEF Pending, Drew, Sent
            <7>3. job'[w].id \in 0 .. drawn
              BY <7>1, <7>2 DEF Fresh, Pending
            <7>4. QED
              BY <5>2, <7>3
          <6>3. QED
            BY <6>1, <6>2
        <5>4. QED
          BY <2>1, <5>1, <5>3
      <4>2. CASE ~Pick(w)
        <5>1. Sent(w) /\ GoesOn(job'[w], job[w])
          BY <3>2, <4>2, JobsKept DEF Creating, Sent
        <5>2. job[w].kind = "create"
          BY <3>2, <5>1 DEF Creating, GoesOn
        <5>3. Refused(w)
          BY <1>6, <5>1, <5>2, KindOfAct
        <5>4. job'[w] = Idle
          BY <5>3 DEF Refused, TypeInv
        <5>5. QED
          BY <3>2, <5>4 DEF Creating, Sent, Idle
      <4>3. QED
        BY <4>1, <4>2
    <3>3. QED
      BY <1>1, <2>1, <3>1, <3>2
  <2>6. E5'
    <3>1. ASSUME NEW v \in Busy', v # w
          PROVE  v \in Busy /\ job'[v] = job[v]
      BY <2>4, <3>1 DEF Busy, Idle
    <3>2. ASSUME w \in Busy', job'[w].kind = "drop", job'[w].step # "sql"
          PROVE  job'[w].id \notin DOMAIN server'
      <4>1. ~Pick(w)
        BY <3>2, PickKeeps
      <4>2. w \in Busy /\ job[w].kind = "drop" /\ job'[w].id = job[w].id
        BY <3>2, <4>1, JobsKept DEF Busy, Idle
      <4>3. job[w].step # "sql"
        <5>1. ASSUME job[w].step = "sql" PROVE FALSE
          <6>1. Sent(w)
            BY <5>1 DEF Sent
          <6>2. Refused(w)
            BY <1>6, <4>2, <6>1, KindOfAct
          <6>3. job'[w] = Idle
            BY <6>2 DEF Refused, TypeInv
          <6>4. QED
            BY <3>2, <6>3 DEF Busy, Idle
        <5>2. QED
          BY <5>1
      <4>4. QED
        BY <1>1, <2>1, <4>2, <4>3
    <3>3. QED
      BY <1>1, <2>1, <3>1, <3>2
  <2>7. QED
    BY <2>3, <2>5, <2>6 DEF Exist
<1>7. QED
  BY <1>2, <1>3, <1>4, <1>5, <1>6

-----------------------------------------------------------------------------
(* The races that clashes names, kept out.                                   *)

Clean == clashes \subseteq {"columns"}

Apart ==
  \A v, w \in Busy : job[w].kind = "unpart" =>
    /\ v # w /\ job[v].kind = "unpart" => job[v].id # job[w].id
    /\ job[v].kind = "create" => job[v].ref # job[w].id

\* No index is being made on a column that is being dropped.
IndexesApart ==
  \A v, w \in Worker : /\ Sent(v) /\ job[v].kind = "index"
                       /\ Sent(w) /\ job[w].kind = "alter" /\ job[v].id = job[w].id
                       => job[v].index.on \cap job[w].drops = {}

LEMMA NoClash ==
  ASSUME NEW j, NEW k, Clash(j, k) \subseteq {"columns"}
  PROVE  /\ ~(j.kind = "unpart" /\ k.kind = "unpart" /\ j.id = k.id)
         /\ ~(j.kind = "create" /\ k.kind = "unpart" /\ j.ref = k.id)
         /\ j.kind = "index" /\ k.kind = "alter" /\ j.id = k.id
              => j.index.on \cap k.drops = {}
<1>1. "partitions" \notin Clash(j, k) /\ "reference" \notin Clash(j, k)
      /\ "index" \notin Clash(j, k)
  OBVIOUS
<1>2. QED
  BY <1>1 DEF Clash

LEMMA PickClash ==
  ASSUME TypeInv, NEW w \in Worker, Pick(w), Clean', NEW v \in Busy
  PROVE  /\ Clash(job'[w], job[v]) \subseteq {"columns"}
         /\ Clash(job[v], job'[w]) \subseteq {"columns"}
BY PickStep DEF Clean

LEMMA ApartKept ==
  ASSUME TypeInv, Apart, NEW w \in Worker, Act(w), Clean'
  PROVE  Apart'
<1>1. CASE Pick(w)
  <2>1. /\ \A v \in Worker \ {w} : job'[v] = job[v]
        /\ Busy' = Busy \cup {w} /\ w \notin Busy /\ Busy \subseteq Worker
    BY <1>1, PickKeeps DEF Busy
  <2>2. \A v \in Busy : job'[v] = job[v]
    BY <2>1
  <2>3. \A v \in Busy :
          /\ ~(job[v].kind = "unpart" /\ job'[w].kind = "unpart" /\ job[v].id = job'[w].id)
          /\ ~(job[v].kind = "create" /\ job'[w].kind = "unpart" /\ job[v].ref = job'[w].id)
          /\ ~(job'[w].kind = "create" /\ job[v].kind = "unpart" /\ job'[w].ref = job[v].id)
    <3>1. ASSUME NEW v \in Busy
          PROVE  /\ Clash(job'[w], job[v]) \subseteq {"columns"}
                 /\ Clash(job[v], job'[w]) \subseteq {"columns"}
      BY <1>1, PickClash
    <3>2. QED
      BY <3>1, NoClash, Zenon
  <2>4. QED
    BY <2>1, <2>2, <2>3 DEF Apart
<1>2. CASE ~Pick(w)
  <2>1. /\ \A v \in Worker \ {w} : job'[v] = job[v]
        /\ w \in Busy
        /\ job'[w] # Idle => /\ job'[w].kind = job[w].kind /\ job'[w].id = job[w].id
                             /\ job[w].kind = "create" => job'[w].ref = job[w].ref
    BY <1>2, JobsKept
  <2>2. \A v \in Busy' :
          /\ v \in Busy /\ job'[v].kind = job[v].kind /\ job'[v].id = job[v].id
          /\ job[v].kind = "create" => job'[v].ref = job[v].ref
    BY <2>1 DEF Busy, Idle
  <2>3. QED
    BY <2>2 DEF Apart
<1>3. QED
  BY <1>1, <1>2

LEMMA IndexesApartKept ==
  ASSUME TypeInv, IndexesApart, NEW w \in Worker, Act(w), Clean'
  PROVE  IndexesApart'
<1>1. CASE Pick(w)
  <2>1. /\ \A v \in Worker \ {w} : job'[v] = job[v]
        /\ \A v \in Worker : Sent(v) => v \in Busy /\ v # w
    BY <1>1, PickKeeps DEF Busy, Sent, Idle
  <2>2. \A v \in Busy :
          /\ job[v].kind = "index" /\ job'[w].kind = "alter" /\ job[v].id = job'[w].id
               => job[v].index.on \cap job'[w].drops = {}
          /\ job'[w].kind = "index" /\ job[v].kind = "alter" /\ job'[w].id = job[v].id
               => job'[w].index.on \cap job[v].drops = {}
    <3>1. ASSUME NEW v \in Busy
          PROVE  /\ Clash(job'[w], job[v]) \subseteq {"columns"}
                 /\ Clash(job[v], job'[w]) \subseteq {"columns"}
      BY <1>1, PickClash
    <3>2. QED
      BY <3>1, NoClash, Zenon
  <2>3. \A v \in Worker \ {w} : Sent(v)' => Sent(v) /\ v \in Busy /\ job'[v] = job[v]
    BY <2>1 DEF Sent
  <2>4. SUFFICES ASSUME NEW u \in Worker, NEW v \in Worker,
                        Sent(u)', job'[u].kind = "index",
                        Sent(v)', job'[v].kind = "alter", job'[u].id = job'[v].id
                 PROVE  job'[u].index.on \cap job'[v].drops = {}
    BY DEF IndexesApart
  <2>5. u # v
    BY <2>4
  <2>6. CASE u # w /\ v # w
    BY <2>3, <2>4, <2>6 DEF IndexesApart
  <2>7. CASE u = w
    BY <2>2, <2>3, <2>4, <2>5, <2>7
  <2>8. CASE v = w
    BY <2>2, <2>3, <2>4, <2>5, <2>8
  <2>9. QED
    BY <2>6, <2>7, <2>8
<1>2. CASE ~Pick(w)
  <2>1. \A v \in Worker : Sent(v)' => Sent(v) /\ (job'[v] = job[v] \/ GoesOn(job'[v], job[v]))
    BY <1>2, JobsKept DEF Sent
  <2>2. SUFFICES ASSUME NEW u \in Worker, NEW v \in Worker,
                        Sent(u)', job'[u].kind = "index",
                        Sent(v)', job'[v].kind = "alter", job'[u].id = job'[v].id
                 PROVE  job'[u].index.on \cap job'[v].drops = {}
    BY DEF IndexesApart
  <2>3. /\ Sent(u) /\ job[u].kind = "index" /\ job'[u].index = job[u].index
        /\ job'[u].id = job[u].id
    BY <2>1, <2>2 DEF GoesOn
  <2>4. /\ Sent(v) /\ job[v].kind = "alter" /\ job'[v].drops = job[v].drops
        /\ job'[v].id = job[v].id
    BY <2>1, <2>2 DEF GoesOn
  <2>5. QED
    BY <2>2, <2>3, <2>4 DEF IndexesApart
<1>3. QED
  BY <1>1, <1>2

(* References on the server.                                                 *)

RefChange(w, t) ==
  \/ server'[t].ref = server[t].ref
  \/ /\ server'[t].ref = NoId
     /\ \/ DropSql(w) /\ server[t].ref = job[w].id
        \/ DropPartitionSql(w) /\ Postgres /\ server[t].ref = job[w].id
        \/ AlterSql(w) /\ t = job[w].id /\ FkCol \in job[w].drops

LEMMA RefChanges ==
  ASSUME TypeInv, ServerType, NamesUnique, NEW w \in Worker, Act(w),
         NEW t \in DOMAIN server, t \in DOMAIN server',
         CreateSql(w) => t # job[w].id
  PROVE  /\ RefChange(w, t)
         /\ AlterSql(w) /\ t = job[w].id /\ FkCol \in job[w].drops
              => server'[t].ref = NoId
         /\ DropPartitionSql(w) /\ Postgres =>
              server'[t].ref = IF server[t].ref = job[w].id THEN NoId ELSE server[t].ref
<1> USE DEF RefChange
<1>1. CASE AlterSql(w)
  <2>1. Executed(w, "alter")
    BY <1>1, AlterEffect
  <2>2. PICK s \in Named(job[w].says) :
          /\ Replaced(s)
          /\ server'[s].ref = IF FkCol \in job[w].drops THEN NoId ELSE server[s].ref
    BY <1>1, AlterEffect
  <2>3. s = job[w].id
    BY <2>1, NameIsHome DEF Executed, Sent, Aim
  <2>4. ~DropPartitionSql(w)
    BY <2>1 DEF DropPartitionSql, Sends, Executed
  <2>5. QED
    BY <1>1, <2>2, <2>3, <2>4 DEF Replaced
<1>2. CASE DropSql(w)
  <2>1. Executed(w, "drop")
    BY <1>2, DropEffect
  <2>2. PICK s \in Named(job[w].says) :
          server'[t].ref = IF Postgres /\ server[t].ref = s THEN NoId ELSE server[t].ref
    BY <1>2, DropEffect
  <2>3. s = job[w].id
    BY <2>1, NameIsHome DEF Executed, Sent, Aim
  <2>4. ~DropPartitionSql(w) /\ ~AlterSql(w)
    BY <2>1 DEF DropPartitionSql, AlterSql, Sends, Executed
  <2>5. QED
    BY <1>2, <2>2, <2>3, <2>4
<1>3. CASE DropPartitionSql(w)
  <2>1. Executed(w, "unpart")
    BY <1>3, NoRangeEffect
  <2>2. ~DropSql(w) /\ ~AlterSql(w)
    BY <2>1 DEF DropSql, AlterSql, Sends, Executed
  <2>3. PICK s \in DOMAIN server : \E p \in server[s].ranges :
          /\ IF Postgres THEN p.prefix = job[w].says
             ELSE s \in Named(job[w].says) /\ server[s].ranges # {p}
          /\ server'[t].ref = IF Postgres /\ server[t].ref = s THEN NoId
                              ELSE server[t].ref
    BY <1>3, NoRangeEffect
  <2>4. CASE Postgres
    <3>1. \E p \in server[s].ranges : p.prefix = job[w].says
      BY <2>3, <2>4
    <3>2. Bears(job[w].says, s)
      BY <3>1 DEF Bears, NamedIn
    <3>3. Bears(job[w].says, job[w].id)
      BY <2>1 DEF Bears, NamesIt, Executed, Sent, Aim
    <3>4. s = job[w].id
      BY <3>2, <3>3 DEF NamesUnique
    <3>5. QED
      BY <1>3, <2>2, <2>3, <2>4, <3>4
  <2>5. CASE ~Postgres
    BY <2>2, <2>3, <2>5
  <2>6. QED
    BY <2>4, <2>5
<1>4. CASE ~AlterSql(w) /\ ~DropSql(w) /\ ~DropPartitionSql(w)
  <2>1. server'[t].ref = server[t].ref
    <3>1. CASE ~SqlOf(w) \/ Refused(w)
      BY <3>1, StaysOnServer DEF Refused
    <3>2. CASE CreateSql(w)
      <4>1. server'[t] = server[t]
        BY <3>2, CreateEffect
      <4>2. QED
        BY <4>1
    <3>3. CASE RenameSql(w)
      BY <3>3, RenameEffect DEF Replaced, SameButName
    <3>4. CASE CreateIndexSql(w)
      BY <3>4, IndexEffect DEF Replaced, SameButIdx
    <3>5. CASE DropIndexSql(w)
      BY <3>5, NoIndexEffect DEF Replaced, SameButIdx
    <3>6. CASE CreatePartitionSql(w)
      BY <3>6, RangeEffect DEF Replaced, SameButRanges
    <3>7. QED
      BY <1>4, <3>1, <3>2, <3>3, <3>4, <3>5, <3>6 DEF SqlOf
  <2>2. QED
    BY <1>4, <2>1
<1>5. QED
  BY <1>1, <1>2, <1>3, <1>4

-----------------------------------------------------------------------------
(* A table that is made and not published is as the create made it.          *)

AsMade(j, r) ==
  /\ r.name = j.id /\ r.cols = 0 .. NewCols /\ r.wide = {}
  /\ r.idx = NewIndexes(j) /\ r.parted = j.parted /\ Bases(r) = j.ranges
  /\ r.ref \in {j.ref, NoId} /\ (j.ref \in DOMAIN server => r.ref = j.ref)

CreatesAgree ==
  \A v \in Worker : job[v].step = "publish" /\ job[v].kind = "create" =>
    AsMade(job[v], server[job[v].id])

\* A statement or publish other than a create's leaves a created table alone.
LEMMA NotTheirs ==
  ASSUME TypeInv, Fresh, NEW w \in Worker, Act(w), NEW v \in Worker, v # w,
         Sent(v), job[v].kind = "create"
  PROVE  /\ SqlOf(w) => job[w].id # job[v].id
         /\ DeltaOf(w) => job[w].id # job[v].id
         /\ PublishCreate(w) => job[w].id # job[v].id
<1>1. Sent(w) => job[w].id # job[v].id
  BY CreatesOwn
<1>2. SqlOf(w) => Sent(w)
  BY SqlIsServerStep DEF ServerStep, Sent
<1>3. DeltaOf(w) => Sent(w)
  BY DeltaIsDeltaStep DEF DeltaStep, Sent
<1>4. PublishCreate(w) => Sent(w)
  BY CreatePublish DEF Sent
<1>5. QED
  BY <1>1, <1>2, <1>3, <1>4

LEMMA ConfigStays ==
  ASSUME TypeInv, NEW w \in Worker, Act(w)
  PROVE  config' = config /\ NewCols' = NewCols /\ Postgres' = Postgres
         /\ \A j : NewIndexes(j)' = NewIndexes(j)
<1>1. config' = config
  BY NobodyNew, PickStep
<1>2. QED
  BY <1>1 DEF NewCols, Postgres, NewIndexes

LEMMA JustMade ==
  ASSUME TypeInv, ServerType, NEW w \in Worker, CreateSql(w),
         NEW j, j = job'[w], NEW r, r = server'[job[w].id]
  PROVE  /\ r.name = j.id /\ r.cols = 0 .. NewCols /\ r.wide = {}
         /\ r.idx = NewIndexes(j) /\ r.parted = j.parted /\ Bases(r) = j.ranges
         /\ r.ref = j.ref
<1>1. /\ job[w] \in CreateJob /\ j \in CreateJob /\ GoesOn(j, job[w])
      /\ r.name = job[w].id /\ r.cols = 0 .. NewCols /\ r.wide = {}
      /\ r.ref = job[w].ref /\ r.idx = NewIndexes(job[w])
      /\ r.parted = job[w].parted /\ r.ranges = [base : j.ranges, prefix : {job[w].id}]
  BY CreateEffect
<1>2. j.id = job[w].id /\ j.ref = job[w].ref /\ j.parted = job[w].parted
  BY <1>1 DEF GoesOn, CreateJob
<1>3. NewIndexes(j) = NewIndexes(job[w])
  BY <1>2 DEF NewIndexes
<1>4. \A S, x : {p.base : p \in [base : S, prefix : {x}]} = S
  <2>1. ASSUME NEW S, NEW x, NEW y \in S
        PROVE  y \in {p.base : p \in [base : S, prefix : {x}]}
    <3>1. /\ [base |-> y, prefix |-> x] \in [base : S, prefix : {x}]
          /\ [base |-> y, prefix |-> x].base = y
      OBVIOUS
    <3>2. QED
      BY <3>1, Zenon
  <2>2. ASSUME NEW S, NEW x PROVE {p.base : p \in [base : S, prefix : {x}]} \subseteq S
    OBVIOUS
  <2>3. QED
    BY <2>1, <2>2
<1>5. Bases(r) = j.ranges
  <2>1. r.ranges = [base : j.ranges, prefix : {job[w].id}]
    BY <1>1
  <2>2. Bases(r) = {p.base : p \in r.ranges}
    BY DEF Bases
  <2>3. {p.base : p \in r.ranges} = {p.base : p \in [base : j.ranges, prefix : {job[w].id}]}
    BY <2>1
  <2>4. {p.base : p \in [base : j.ranges, prefix : {job[w].id}]} = j.ranges
    BY <1>4
  <2>5. QED
    BY <2>2, <2>3, <2>4
<1>6. QED
  BY <1>1, <1>2, <1>3, <1>5

LEMMA CreatesAgreeKept ==
  ASSUME TypeInv, ServerType, Fresh, NamesUnique, OwnersUnique, Exist, Apart,
         CreatesAgree, NEW w \in Worker, Act(w)
  PROVE  CreatesAgree'
<1> SUFFICES ASSUME NEW v \in Worker, job'[v].step = "publish", job'[v].kind = "create"
             PROVE  AsMade(job[v], server[job[v].id])'
  BY DEF CreatesAgree
<1>1. CASE v = w
  <2>1. ~Pick(w)
    BY <1>1, PickStep
  <2>2. Sent(w)' /\ Sent(w) /\ GoesOn(job'[w], job[w]) /\ job[w].kind = "create"
    BY <1>1, <2>1, JobsKept DEF Sent, GoesOn
  <2>3. ~Refused(w) /\ ~PublishCreate(w)
    <3>1. ~Refused(w)
      BY <1>1 DEF Refused, TypeInv, Idle
    <3>2. ~PublishCreate(w)
      BY <1>1, CreatePublish
    <3>3. QED
      BY <3>1, <3>2
  <2>4. CreateSql(w)
    BY <2>2, <2>3, KindOfAct
  <2> DEFINE j == job'[w]
             r == server'[job[w].id]
  <2>5. /\ r.name = j.id /\ r.cols = 0 .. NewCols /\ r.wide = {}
        /\ r.idx = NewIndexes(j) /\ r.parted = j.parted /\ Bases(r) = j.ranges
        /\ r.ref = j.ref
    BY <2>4, JustMade
  <2>6. j.id = job[w].id
    BY <2>2 DEF GoesOn
  <2>7. server'[j.id] = r
    BY <2>6
  <2> HIDE DEF j, r
  <2>8. NewCols' = NewCols
    BY ConfigStays
  <2>9. job'[v] = j /\ server'[job'[v].id] = r
    BY <1>1, <2>7 DEF j
  <2>10. Bases(server[job[v].id])' = Bases(r)
    BY <2>9 DEF Bases
  <2>11. NewIndexes(job[v])' = NewIndexes(j)
    BY <2>9, ConfigStays DEF NewIndexes
  <2>12. QED
    BY <2>5, <2>8, <2>9, <2>10, <2>11, Zenon DEF AsMade
<1>2. CASE v # w
  <2> DEFINE j == job[v]
             i == job[v].id
  <2>1. job'[v] = j
    BY <1>2, JobsKept, PickKeeps
  <2>2. Sent(v) /\ j.kind = "create" /\ j.step = "publish" /\ v \in Creating /\ v \in Busy
    BY <2>1 DEF Sent, Creating, Busy, Idle
  <2>3. AsMade(j, server[i]) /\ i \in DOMAIN server
    BY <2>2 DEF CreatesAgree, Exist
  <2>4. SqlOf(w) => job[w].id # i
    BY <1>2, <2>2, NotTheirs
  <2>5. i \in DOMAIN server'
    BY <2>3, <2>4, ServerDomain DEF SqlOf
  <2>6. ServerChange(w, i)
    BY <2>3, <2>4, <2>5, ServerChanges DEF SqlOf
  <2>7. RefChange(w, i)
    BY <2>3, <2>4, <2>5, RefChanges DEF SqlOf
  <2>8. /\ server'[i].name = server[i].name /\ server'[i].cols = server[i].cols
        /\ server'[i].wide = server[i].wide /\ server'[i].idx = server[i].idx
        /\ server'[i].parted = server[i].parted /\ server'[i].ranges = server[i].ranges
    BY <2>4, <2>6 DEF ServerChange, NameChange, ColsChange, IdxChange, RangesChange, SqlOf
  <2>9. server'[i].ref \in {j.ref, NoId}
    BY <2>3, <2>7 DEF AsMade, RefChange
  <2>10. ASSUME j.ref \in DOMAIN server' PROVE server'[i].ref = j.ref
    <3>1. j.ref \in DOMAIN server
      <4>1. CreateSql(w) => job[w].id # j.ref
        <5>1. CreateSql(w) => Sent(w) /\ job[w].kind = "create"
          BY DEF CreateSql, Sends, Sent
        <5>2. QED
          BY <2>2, <5>1, CreatesOwn
      <4>2. QED
        BY <2>10, <4>1, ServerDomain
    <3>2. server[i].ref = j.ref
      BY <2>3, <3>1 DEF AsMade
    <3>3. CASE DropSql(w)
      <4>1. j.ref # job[w].id
        <5>1. ~CreateSql(w)
          BY <3>3 DEF DropSql, CreateSql, Sends
        <5>2. QED
          BY <2>10, <3>3, <5>1, ServerDomain
      <4>2. ~DropPartitionSql(w) /\ ~AlterSql(w)
        BY <3>3 DEF DropSql, DropPartitionSql, AlterSql, Sends
      <4>3. QED
        BY <2>7, <3>2, <4>1, <4>2 DEF RefChange
    <3>4. CASE DropPartitionSql(w)
      <4>1. w \in Busy /\ job[w].kind = "unpart"
        BY <3>4 DEF DropPartitionSql, Sends, Busy, Idle
      <4>2. j.ref # job[w].id
        BY <2>2, <4>1 DEF Apart
      <4>3. ~DropSql(w) /\ ~AlterSql(w)
        BY <3>4 DEF DropSql, DropPartitionSql, AlterSql, Sends
      <4>4. QED
        BY <2>7, <3>2, <4>2, <4>3 DEF RefChange
    <3>5. CASE ~DropSql(w) /\ ~DropPartitionSql(w)
      BY <2>4, <2>7, <3>2, <3>5 DEF RefChange, SqlOf
    <3>6. QED
      BY <3>3, <3>4, <3>5
  <2> HIDE DEF j, i
  <2>11. job'[v] = j /\ server[job[v].id]' = server'[i]
    BY <2>1 DEF i, j
  <2>12. Bases(server[job[v].id])' = Bases(server[i]) /\ NewIndexes(job[v])' = NewIndexes(j)
    BY <2>8, <2>11, ConfigStays DEF Bases, NewIndexes
  <2>13. j.id = i
    BY DEF i, j
  <2>14. QED
    BY <2>3, <2>8, <2>9, <2>10, <2>11, <2>12, <2>13, ConfigStays, Zenon DEF AsMade
<1>3. QED
  BY <1>1, <1>2

CatalogChange(w, t) ==
  \/ SameBesides(catalog'[t], catalog[t])
  \/ DeltaOf(w) /\ t = job[w].id /\ Changes(job[w], catalog[t], catalog'[t])

LEMMA CatalogChanges ==
  ASSUME TypeInv, NEW w \in Worker, Act(w), NEW t \in DOMAIN catalog,
         t \in DOMAIN catalog', PublishCreate(w) => t # job[w].id
  PROVE  CatalogChange(w, t)
<1>1. CASE PublishCreate(w)
  <2>1. catalog'[t] = catalog[t]
    BY <1>1, CreatePublish
  <2>2. QED
    BY <2>1 DEF CatalogChange, SameBesides
<1>2. CASE DeltaOf(w)
  <2>1. CASE t = job[w].id
    BY <1>2, <2>1, DeltaIsDeltaStep DEF DeltaStep, CatalogChange
  <2>2. CASE t # job[w].id
    <3>1. catalog'[t] = catalog[t]
      BY <1>2, <2>2, DeltaIsDeltaStep DEF DeltaStep
    <3>2. QED
      BY <3>1 DEF CatalogChange, SameBesides
  <2>3. QED
    BY <2>1, <2>2
<1>3. CASE ~PublishCreate(w) /\ ~DeltaOf(w)
  BY <1>3, OthersKeep DEF CatalogChange
<1>4. QED
  BY <1>1, <1>2, <1>3

\* A table in the catalog and on the server was both before, or is published.
LEMMA BothCases ==
  ASSUME TypeInv, ServerType, Fresh, NamesUnique, Exist, NEW w \in Worker, Act(w),
         NEW t \in DOMAIN catalog', t \in DOMAIN server'
  PROVE  \/ PublishCreate(w) /\ t = job[w].id /\ t \in DOMAIN server /\ server' = server
         \/ /\ t \in DOMAIN catalog /\ t \in DOMAIN server
            /\ CreateSql(w) => t # job[w].id
            /\ PublishCreate(w) => t # job[w].id
<1>1. CASE PublishCreate(w)
  BY <1>1, CreatePublish DEF Rest
<1>2. CASE CreateSql(w)
  <2>1. /\ Sent(w) /\ job[w].kind = "create" /\ catalog' = catalog
        /\ DOMAIN server' = DOMAIN server \cup {job[w].id} /\ ~PublishCreate(w)
    BY <1>2, CreateEffect DEF Sent, CreateJob, PublishCreate, Publishes
  <2>2. QED
    BY <2>1, CreatesOwn
<1>3. CASE ~PublishCreate(w) /\ ~CreateSql(w)
  BY <1>3, CatalogDomain, ServerDomain
<1>4. QED
  BY <1>1, <1>2, <1>3

\* Nothing else is pending on a table that is being created.
LEMMA NonePending ==
  ASSUME TypeInv, Fresh, NEW w \in Worker, Sent(w), job[w].kind = "create",
         NEW kind, kind # "create", NEW t, t = job[w].id
  PROVE  Pending(kind, t) = {}
BY CreatesOwn DEF Pending, Sent

LEMMA NoneTouched ==
  ASSUME TypeInv, NEW w \in Worker, PublishCreate(w), NEW kind, kind # "create", NEW t
  PROVE  ~Touches(w, kind, t)
BY CreatePublish DEF Touches, CreateJob

LEMMA JustPublished ==
  ASSUME TypeInv, Exist, CreatesAgree, NEW w \in Worker, PublishCreate(w),
         NEW t, t = job[w].id
  PROVE  /\ Sent(w) /\ job[w].kind = "create" /\ server' = server
         /\ AsMade(job[w], server[t]) /\ t \in DOMAIN server
         /\ catalog'[t].name = server[t].name /\ catalog'[t].cols = server[t].cols
         /\ catalog'[t].wide = server[t].wide /\ catalog'[t].idx = server[t].idx
         /\ catalog'[t].parted = server[t].parted
         /\ catalog'[t].ranges = Bases(server[t])
         /\ catalog'[t].ref = job[w].ref
<1>1. /\ Sent(w) /\ job[w].kind = "create" /\ server' = server
      /\ job[w].step = "publish"
  BY CreatePublish DEF Sent, CreateJob, Rest
<1>2. AsMade(job[w], server[t]) /\ t \in DOMAIN server
  BY <1>1 DEF CreatesAgree, Exist, Creating
<1>3. /\ catalog'[t].ref = job[w].ref /\ catalog'[t].name = job[w].id
      /\ catalog'[t].cols = 0 .. NewCols /\ catalog'[t].wide = {}
      /\ catalog'[t].idx = NewIndexes(job[w])
      /\ catalog'[t].parted = job[w].parted
      /\ catalog'[t].ranges = job[w].ranges
  BY CreatePublish
<1>4. QED
  BY <1>1, <1>2, <1>3 DEF AsMade

Both == DOMAIN catalog \cap DOMAIN server

(* Names.                                                                    *)

NameAgrees(t) ==
  /\ \A v \in Pending("rename", t) : job[v].to = server[t].name
  /\ Pending("rename", t) = {} => catalog[t].name = server[t].name

NamesAgree == \A t \in Both : NameAgrees(t)

LEMMA NamesAgreeKept ==
  ASSUME TypeInv, ServerType, Fresh, NamesUnique, OwnersUnique, Exist, CreatesAgree,
         NamesAgree, NEW w \in Worker, Act(w)
  PROVE  NamesAgree'
<1> SUFFICES ASSUME NEW t \in DOMAIN catalog', t \in DOMAIN server'
             PROVE  NameAgrees(t)'
  BY DEF NamesAgree, Both
<1>1. CASE PublishCreate(w) /\ t = job[w].id
  <2>1. /\ Sent(w) /\ job[w].kind = "create" /\ server' = server
        /\ catalog'[t].name = server[t].name
    BY <1>1, JustPublished
  <2>2. Pending("rename", t) = {}
    BY <1>1, <2>1, NonePending
  <2>3. Pending("rename", t)' = Pending("rename", t)
    BY <1>1, NoneTouched, PendingElsewhere
  <2>4. QED
    BY <2>1, <2>2, <2>3 DEF NameAgrees
<1>2. CASE /\ t \in DOMAIN catalog /\ t \in DOMAIN server
           /\ CreateSql(w) => t # job[w].id
           /\ PublishCreate(w) => t # job[w].id
  <2>1. NameAgrees(t)
    BY <1>2 DEF NamesAgree, Both
  <2>2. ServerChange(w, t) /\ CatalogChange(w, t)
    BY <1>2, ServerChanges, CatalogChanges
  <2>3. CASE RenameSql(w) /\ t = job[w].id
    <3>1. Executed(w, "rename") /\ catalog' = catalog
      BY <2>3, RenameEffect DEF Executed
    <3>2. PICK s \in Named(job[w].says) : server'[s].name = job[w].to
      BY <2>3, RenameEffect
    <3>3. s = t
      BY <2>3, <3>1, NameIsHome DEF Executed, Sent, Aim
    <3>4. /\ Pending("rename", t)' = Pending("rename", t) \cup {w}
          /\ \A v \in Pending("rename", t) : job'[v] = job[v]
      BY <2>3, <3>1, PendingJoins
    <3>5. Pending("rename", t) = {}
      <4>1. ASSUME NEW v \in Pending("rename", t) PROVE FALSE
        <5>1. job[v].to = job[w].says
          BY <2>1, <3>2, <3>3 DEF NameAgrees, Named
        <5>2. Drew(v, job[v].to) /\ v \in Worker
          BY DEF Pending, Drew, Sent
        <5>3. Public(job[w].says)
          BY <3>1 DEF Executed, Public, Asks, Sent
        <5>4. QED
          BY <5>1, <5>2, <5>3 DEF Fresh
      <4>2. QED
        BY <4>1
    <3>6. job'[w].to = job[w].to
      BY <3>1 DEF Executed, GoesOn
    <3>7. QED
      BY <3>2, <3>3, <3>4, <3>5, <3>6 DEF NameAgrees
  <2>4. CASE PublishRename(w) /\ t = job[w].id
    <3>1. DeltaOf(w) /\ DeltaStep(w) /\ job[w].kind = "rename" /\ job[w].step = "publish"
      BY <2>4, DeltaIsDeltaStep DEF DeltaOf, DeltaStep, PublishRename, Delta, Publishes
    <3>2. /\ server' = server /\ catalog'[t].name = job[w].to
      BY <1>2, <2>4, <3>1 DEF DeltaStep, Rest, Changes
    <3>3. /\ Pending("rename", t)' = Pending("rename", t) \ {w}
          /\ w \in Pending("rename", t)
          /\ \A v \in Pending("rename", t) \ {w} : job'[v] = job[v]
      BY <2>4, <3>1, PendingLeaves
    <3>4. QED
      BY <2>1, <3>2, <3>3 DEF NameAgrees
  <2>5. CASE ~(RenameSql(w) /\ t = job[w].id) /\ ~(PublishRename(w) /\ t = job[w].id)
    <3>1. ~Touches(w, "rename", t)
      BY <2>5, KindOfAct DEF Touches
    <3>2. /\ Pending("rename", t)' = Pending("rename", t)
          /\ \A v \in Pending("rename", t) : job'[v] = job[v]
      BY <3>1, PendingElsewhere
    <3>3. server'[t].name = server[t].name
      BY <2>2, <2>5 DEF ServerChange, NameChange
    <3>4. catalog'[t].name = catalog[t].name
      <4>1. CASE SameBesides(catalog'[t], catalog[t])
        BY <4>1 DEF SameBesides
      <4>2. CASE DeltaOf(w) /\ t = job[w].id /\ Changes(job[w], catalog[t], catalog'[t])
        <5>1. Sent(w) /\ job[w].step = "publish"
          BY <4>2, DeltaIsDeltaStep DEF DeltaStep, Sent
        <5>2. ~Refused(w)
          BY <5>1 DEF Refused
        <5>3. job[w].kind # "rename"
          BY <3>1, <4>2, <5>1, <5>2 DEF Touches
        <5>4. QED
          BY <4>2, <5>3 DEF Changes
      <4>3. QED
        BY <2>2, <4>1, <4>2 DEF CatalogChange
    <3>5. QED
      BY <2>1, <3>2, <3>3, <3>4 DEF NameAgrees
  <2>6. QED
    BY <2>3, <2>4, <2>5
<1>3. QED
  BY <1>1, <1>2, BothCases

LEMMA ExecutedTouches ==
  ASSUME TypeInv, NEW w \in Worker, NEW kind, Executed(w, kind), NEW t, t = job[w].id
  PROVE  Touches(w, kind, t)
<1>1. Sent(w) /\ job[w].kind = kind /\ job'[w].step = "publish"
  BY DEF Executed, Sent
<1>2. ~Refused(w)
  BY <1>1 DEF Refused, TypeInv, Idle
<1>3. QED
  BY <1>1, <1>2 DEF Touches

LEMMA DeltaTouches ==
  ASSUME TypeInv, NEW w \in Worker, DeltaOf(w), NEW t, t = job[w].id
  PROVE  Touches(w, job[w].kind, t)
<1>1. job[w].step = "publish"
  BY DeltaIsDeltaStep DEF DeltaStep
<1>2. Sent(w) /\ ~Refused(w)
  BY <1>1 DEF Sent, Refused
<1>3. QED
  BY <1>2 DEF Touches

LEMMA ServerUntouched ==
  ASSUME TypeInv, ServerType, Clean', NEW w \in Worker, NEW t, ServerChange(w, t)
  PROVE  /\ ~Touches(w, "alter", t) =>
              server'[t].cols = server[t].cols /\ server'[t].wide = server[t].wide
         /\ ~Touches(w, "alter", t) /\ ~Touches(w, "index", t) /\ ~Touches(w, "unindex", t)
              => server'[t].idx = server[t].idx
         /\ ~Touches(w, "part", t) /\ ~Touches(w, "unpart", t)
              => server'[t].ranges = server[t].ranges
<1>1. AlterSql(w) /\ t = job[w].id => Touches(w, "alter", t)
  BY AlterEffect, ExecutedTouches
<1>2. CreateIndexSql(w) /\ t = job[w].id => Touches(w, "index", t)
  BY IndexEffect, ExecutedTouches DEF Clean
<1>3. DropIndexSql(w) /\ t = job[w].id => Touches(w, "unindex", t)
  BY NoIndexEffect, ExecutedTouches
<1>4. CreatePartitionSql(w) /\ t = job[w].id => Touches(w, "part", t)
  BY RangeEffect, ExecutedTouches
<1>5. DropPartitionSql(w) /\ t = job[w].id => Touches(w, "unpart", t)
  BY NoRangeEffect, ExecutedTouches
<1>6. ColsChange(w, t) /\ IdxChange(w, t) /\ RangesChange(w, t)
  BY DEF ServerChange
<1>7. QED
  BY <1>1, <1>2, <1>3, <1>4, <1>5, <1>6 DEF ColsChange, IdxChange, RangesChange

LEMMA CatalogUntouched ==
  ASSUME TypeInv, NEW w \in Worker, NEW t, CatalogChange(w, t)
  PROVE  /\ ~Touches(w, "alter", t) =>
              catalog'[t].cols = catalog[t].cols /\ catalog'[t].wide = catalog[t].wide
         /\ ~Touches(w, "alter", t) /\ ~Touches(w, "index", t) /\ ~Touches(w, "unindex", t)
              => catalog'[t].idx = catalog[t].idx
         /\ ~Touches(w, "part", t) /\ ~Touches(w, "unpart", t)
              => catalog'[t].ranges = catalog[t].ranges
         /\ catalog'[t].parted = catalog[t].parted
<1>1. CASE SameBesides(catalog'[t], catalog[t])
  BY <1>1 DEF SameBesides
<1>2. CASE DeltaOf(w) /\ t = job[w].id /\ Changes(job[w], catalog[t], catalog'[t])
  <2>1. Touches(w, job[w].kind, t)
    BY <1>2, DeltaTouches
  <2>2. QED
    BY <1>2, <2>1 DEF Changes
<1>3. QED
  BY <1>1, <1>2 DEF CatalogChange

\* Whoever touches a table runs the statement or publishes the delta.
LEMMA TouchesHow ==
  ASSUME TypeInv, NEW w \in Worker, Act(w), NEW kind, NEW t, Touches(w, kind, t)
  PROVE  /\ t = job[w].id /\ job[w].kind = kind /\ Sent(w)
         /\ kind = "alter"   => AlterSql(w) \/ (PublishAlter(w) /\ DeltaOf(w))
         /\ kind = "index"   => CreateIndexSql(w) \/ (PublishIndex(w) /\ DeltaOf(w))
         /\ kind = "unindex" => DropIndexSql(w) \/ (PublishNoIndex(w) /\ DeltaOf(w))
         /\ kind = "part"    => CreatePartitionSql(w) \/ (PublishPartition(w) /\ DeltaOf(w))
         /\ kind = "unpart"  => DropPartitionSql(w) \/ (PublishNoPartition(w) /\ DeltaOf(w))
BY KindOfAct DEF Touches, DeltaOf

LEMMA ApartKinds ==
  ASSUME NEW w \in Worker, NEW kind, NEW t, Touches(w, kind, t), NEW other, other # kind
  PROVE  ~Touches(w, other, t)
BY DEF Touches

(* Columns.                                                                  *)

DropsApart == \A w \in Worker : Sent(w) /\ job[w].kind = "alter"
                                  => job[w].drops \cap job[w].widens = {}

LEMMA DropsApartKept ==
  ASSUME TypeInv, DropsApart, NEW w \in Worker, Act(w)
  PROVE  DropsApart'
<1>1. CASE Pick(w)
  BY <1>1, PickStep, PickKeeps DEF DropsApart, Chosen, Sent
<1>2. CASE ~Pick(w)
  BY <1>2, JobsKept DEF DropsApart, Sent, GoesOn
<1>3. QED
  BY <1>1, <1>2

\* New columns are in no record and in no other statement.
LEMMA AddsNew ==
  ASSUME Fresh, NEW w \in Worker, Sent(w), job[w].kind = "alter"
  PROVE  /\ \A t \in DOMAIN catalog : job[w].adds \cap catalog[t].cols = {}
         /\ \A t : /\ job[w].adds \cap Dropped(t) = {}
                   /\ job[w].adds \cap Widened(t) = {}
                   /\ Added(t) \cap job[w].drops = {}
                   /\ Added(t) \cap job[w].widens = {}
<1>1. \A v \in Worker : Sent(v) /\ job[v].kind = "alter" =>
        \A c \in job[v].adds :
          /\ \A t \in DOMAIN catalog : c \notin catalog[t].cols
          /\ \A u \in Worker : Sent(u) /\ job[u].kind = "alter" =>
               c \notin job[u].drops /\ c \notin job[u].widens
  <2>1. ASSUME NEW v \in Worker, Sent(v), job[v].kind = "alter", NEW c \in job[v].adds
        PROVE  ~Public(c)
    BY <2>1 DEF Fresh, Drew
  <2>2. \A c : ~Public(c) =>
          /\ \A t \in DOMAIN catalog : c \notin catalog[t].cols
          /\ \A u \in Worker : Sent(u) /\ job[u].kind = "alter" =>
               c \notin job[u].drops /\ c \notin job[u].widens
    BY DEF Public, InCatalog, InRecord, Asks
  <2>3. QED
    BY <2>1, <2>2
<1>2. \A t : \A u \in Pending("alter", t) : u \in Worker /\ Sent(u) /\ job[u].kind = "alter"
  BY DEF Pending, Sent
<1>3. ASSUME NEW t
      PROVE  /\ job[w].adds \cap Dropped(t) = {} /\ job[w].adds \cap Widened(t) = {}
             /\ Added(t) \cap job[w].drops = {} /\ Added(t) \cap job[w].widens = {}
  <2>1. job[w].adds \cap Dropped(t) = {}
    BY <1>1, <1>2 DEF Dropped
  <2>2. job[w].adds \cap Widened(t) = {}
    BY <1>1, <1>2 DEF Widened
  <2>3. Added(t) \cap job[w].drops = {} /\ Added(t) \cap job[w].widens = {}
    BY <1>1, <1>2 DEF Added
  <2>4. QED
    BY <2>1, <2>2, <2>3
<1>4. QED
  BY <1>1, <1>3

\* The server's columns, and its wide ones, once the pending deltas are published.
ColsAgree(t) ==
  /\ server[t].cols = (catalog[t].cols \ Dropped(t)) \cup Added(t)
  /\ server[t].wide = (catalog[t].wide \cup (Widened(t) \cap catalog[t].cols))
                        \ Dropped(t)

ColumnsAgree == \A t \in Both : ColsAgree(t)

\* ALTERs commute: a statement's, after the pending deltas, and a delta's before
\* the others that are pending.
LEMMA AltersCommute ==
  ASSUME NEW C, NEW W, NEW D, NEW A, NEW V, NEW d, NEW a, NEW v,
         a \cap C = {}, a \cap D = {}, a \cap V = {}, A \cap d = {}, A \cap v = {},
         d \cap v = {}
  PROVE  /\ v \subseteq (C \ D) \cup A =>
              /\ (((C \ D) \cup A) \ d) \cup a = (C \ (D \cup d)) \cup (A \cup a)
              /\ (((W \cup (V \cap C)) \ D) \ d) \cup v
                   = (W \cup ((V \cup v) \cap C)) \ (D \cup d)
         /\ (C \ (D \cup d)) \cup (A \cup a) = (((C \ d) \cup a) \ D) \cup A
         /\ (W \cup ((V \cup v) \cap C)) \ (D \cup d)
              = (((W \ d) \cup (v \cap (C \ d))) \cup (V \cap ((C \ d) \cup a))) \ D
<1>1. ASSUME v \subseteq (C \ D) \cup A
      PROVE  /\ (((C \ D) \cup A) \ d) \cup a = (C \ (D \cup d)) \cup (A \cup a)
             /\ (((W \cup (V \cap C)) \ D) \ d) \cup v
                  = (W \cup ((V \cup v) \cap C)) \ (D \cup d)
  <2>1. (((C \ D) \cup A) \ d) \cup a = (C \ (D \cup d)) \cup (A \cup a)
    OBVIOUS
  <2>2. v \subseteq C \ D
    BY <1>1
  <2>3. (((W \cup (V \cap C)) \ D) \ d) \cup v = (W \cup ((V \cup v) \cap C)) \ (D \cup d)
    BY <2>2
  <2>4. QED
    BY <2>1, <2>3
<1>2. (C \ (D \cup d)) \cup (A \cup a) = (((C \ d) \cup a) \ D) \cup A
  OBVIOUS
<1>3. (W \cup ((V \cup v) \cap C)) \ (D \cup d)
        = (((W \ d) \cup (v \cap (C \ d))) \cup (V \cap ((C \ d) \cup a))) \ D
  OBVIOUS
<1>4. QED
  BY <1>1, <1>2, <1>3

LEMMA ColumnsAgreeKept ==
  ASSUME TypeInv, ServerType, Fresh, NamesUnique, OwnersUnique, Exist, CreatesAgree,
         DropsApart, ColumnsAgree, NEW w \in Worker, Act(w), Clean'
  PROVE  ColumnsAgree'
<1> SUFFICES ASSUME NEW t \in DOMAIN catalog', t \in DOMAIN server'
             PROVE  ColsAgree(t)'
  BY DEF ColumnsAgree, Both
<1>1. CASE PublishCreate(w) /\ t = job[w].id
  <2>1. /\ Sent(w) /\ job[w].kind = "create" /\ server' = server
        /\ catalog'[t].cols = server[t].cols
        /\ catalog'[t].wide = server[t].wide
    BY <1>1, JustPublished
  <2>2. Pending("alter", t) = {}
    BY <1>1, <2>1, NonePending
  <2>3. Dropped(t) = {} /\ Added(t) = {} /\ Widened(t) = {}
    BY <2>2 DEF Dropped, Added, Widened
  <2>4. Dropped(t)' = {} /\ Added(t)' = {} /\ Widened(t)' = {}
    BY <1>1, <2>3, NoneTouched, DataElsewhere
  <2>5. QED
    BY <2>1, <2>4 DEF ColsAgree
<1>2. CASE /\ t \in DOMAIN catalog /\ t \in DOMAIN server
           /\ CreateSql(w) => t # job[w].id
           /\ PublishCreate(w) => t # job[w].id
  <2>1. ColsAgree(t)
    BY <1>2 DEF ColumnsAgree, Both
  <2>2. ServerChange(w, t) /\ CatalogChange(w, t)
    BY <1>2, ServerChanges, CatalogChanges
  <2>3. CASE ~Touches(w, "alter", t)
    <3>1. /\ server'[t].cols = server[t].cols /\ server'[t].wide = server[t].wide
          /\ catalog'[t].cols = catalog[t].cols /\ catalog'[t].wide = catalog[t].wide
      BY <2>2, <2>3, ServerUntouched, CatalogUntouched
    <3>2. Dropped(t)' = Dropped(t) /\ Added(t)' = Added(t) /\ Widened(t)' = Widened(t)
      BY <2>3, DataElsewhere
    <3>3. QED
      BY <2>1, <3>1, <3>2 DEF ColsAgree
  <2>4. CASE Touches(w, "alter", t)
    <3> DEFINE C == catalog[t].cols
               W == catalog[t].wide
               d == job[w].drops
               a == job[w].adds
               v == job[w].widens
    <3>1. t = job[w].id /\ job[w].kind = "alter" /\ Sent(w)
      BY <2>4, TouchesHow
    <3>2. /\ a \cap C = {} /\ d \cap v = {}
          /\ a \cap Dropped(t) = {} /\ a \cap Widened(t) = {}
          /\ Added(t) \cap d = {} /\ Added(t) \cap v = {}
      BY <1>2, <3>1, AddsNew DEF DropsApart
    <3>3. CASE AlterSql(w)
      <4>1. Executed(w, "alter") /\ catalog' = catalog
        BY <3>3, AlterEffect DEF Executed
      <4>2. PICK s \in Named(job[w].says) :
              /\ Replaced(s) /\ d \cup v \subseteq server[s].cols
              /\ server'[s].cols = (server[s].cols \ d) \cup a
              /\ server'[s].wide = (server[s].wide \ d) \cup v
        BY <3>3, AlterEffect
      <4>3. s = t
        BY <3>1, <4>1, NameIsHome DEF Executed, Sent, Aim
      <4>4. /\ Dropped(t)' = Dropped(t) \cup d /\ Added(t)' = Added(t) \cup a
            /\ Widened(t)' = Widened(t) \cup v
        BY <3>1, <4>1, AlterJoins
      <4> DEFINE D == Dropped(t)
                 A == Added(t)
                 V == Widened(t)
      <4>5. /\ server[t].cols = (C \ D) \cup A
            /\ server[t].wide = (W \cup (V \cap C)) \ D
        BY <2>1 DEF ColsAgree
      <4>6. /\ a \cap C = {} /\ a \cap D = {} /\ a \cap V = {} /\ A \cap d = {}
            /\ A \cap v = {} /\ d \cap v = {}
        BY <3>2
      <4>7. v \subseteq (C \ D) \cup A
        BY <4>2, <4>3, <4>5
      <4> HIDE DEF C, W, D, A, V, d, a, v
      <4>8. /\ (((C \ D) \cup A) \ d) \cup a = (C \ (D \cup d)) \cup (A \cup a)
            /\ (((W \cup (V \cap C)) \ D) \ d) \cup v
                 = (W \cup ((V \cup v) \cap C)) \ (D \cup d)
        BY <4>6, <4>7, AltersCommute
      <4>9. /\ server'[t].cols = (((C \ D) \cup A) \ d) \cup a
            /\ server'[t].wide = (((W \cup (V \cap C)) \ D) \ d) \cup v
        BY <4>2, <4>3, <4>5
      <4>10. catalog'[t].cols = C /\ catalog'[t].wide = W
        BY <4>1 DEF C, W
      <4>11. Dropped(t)' = D \cup d /\ Added(t)' = A \cup a /\ Widened(t)' = V \cup v
        BY <4>4 DEF D, A, V
      <4>12. QED
        BY <4>8, <4>9, <4>10, <4>11 DEF ColsAgree
    <3>4. CASE PublishAlter(w) /\ DeltaOf(w)
      <4>1. server' = server /\ Changes(job[w], catalog[t], catalog'[t])
        BY <1>2, <3>1, <3>4, DeltaIsDeltaStep DEF DeltaStep, Rest
      <4> DEFINE D == Dropped(t)'
                 A == Added(t)'
                 V == Widened(t)'
      <4>2. Dropped(t) = D \cup d /\ Added(t) = A \cup a /\ Widened(t) = V \cup v
        BY <3>1, <3>4, AlterLeaves
      <4>3. /\ server[t].cols = (C \ (D \cup d)) \cup (A \cup a)
            /\ server[t].wide = (W \cup ((V \cup v) \cap C)) \ (D \cup d)
        BY <2>1, <4>2 DEF ColsAgree
      <4>4. /\ a \cap C = {} /\ a \cap D = {} /\ a \cap V = {} /\ A \cap d = {}
            /\ A \cap v = {} /\ d \cap v = {}
        BY <3>2, <4>2
      <4>5. /\ catalog'[t].cols = (C \ d) \cup a
            /\ catalog'[t].wide = (W \ d) \cup (v \cap (C \ d))
        BY <3>1, <4>1 DEF Changes
      <4> HIDE DEF C, W, D, A, V, d, a, v
      <4>6. /\ (C \ (D \cup d)) \cup (A \cup a) = (((C \ d) \cup a) \ D) \cup A
            /\ (W \cup ((V \cup v) \cap C)) \ (D \cup d)
                 = (((W \ d) \cup (v \cap (C \ d))) \cup (V \cap ((C \ d) \cup a))) \ D
        BY <4>4, AltersCommute
      <4>7. Dropped(t)' = D /\ Added(t)' = A /\ Widened(t)' = V
        BY DEF D, A, V
      <4>8. QED
        BY <4>1, <4>3, <4>5, <4>6, <4>7 DEF ColsAgree
    <3>5. QED
      BY <2>4, <3>3, <3>4, TouchesHow
  <2>5. QED
    BY <2>3, <2>4
<1>3. QED
  BY <1>1, <1>2, BothCases

-----------------------------------------------------------------------------
(* Indexes.                                                                  *)

\* x is what dropping the columns D leaves of the index y.
Left(x, y, D) ==
  /\ x \in Index /\ x.no = y.no
  /\ IF Postgres THEN x.on = y.on /\ y.on \cap D = {}
     ELSE x.on = y.on \ D /\ x.on # {}

LEMMA CutIs ==
  ASSUME NEW S \in SUBSET Index, NEW D, NEW x
  PROVE  x \in Cut(S, D) <=> \E y \in S : Left(x, y, D)
<1>1. \A y \in Index : \A z \in Index : y.no = z.no /\ y.on = z.on => y = z
  BY DEF Index
<1>2. CASE Postgres
  BY <1>1, <1>2 DEF Cut, Left
<1>3. CASE ~Postgres
  <2>1. \A y \in Index : /\ [y EXCEPT !.on = @ \ D] \in Index
                         /\ [y EXCEPT !.on = @ \ D].no = y.no
                         /\ [y EXCEPT !.on = @ \ D].on = y.on \ D
    BY DEF Index
  <2> DEFINE Trim(y) == [y EXCEPT !.on = @ \ D]
  <2>2. Cut(S, D) = {z \in {Trim(y) : y \in S} : z.on # {}}
    BY <1>3 DEF Cut
  <2>3. \A y \in Index : /\ Trim(y) \in Index /\ Trim(y).no = y.no
                         /\ Trim(y).on = y.on \ D
    BY <2>1
  <2> HIDE DEF Trim
  <2>4. ASSUME x \in Cut(S, D) PROVE \E y \in S : Left(x, y, D)
    BY <1>3, <2>2, <2>3, <2>4 DEF Left
  <2>5. ASSUME NEW y \in S, Left(x, y, D) PROVE x \in Cut(S, D)
    <3>1. x \in Index /\ x.no = y.no /\ x.on = y.on \ D /\ x.on # {}
      BY <1>3, <2>5 DEF Left
    <3>2. x = Trim(y)
      BY <1>1, <2>3, <3>1
    <3>3. QED
      BY <2>2, <3>1, <3>2
  <2>6. QED
    BY <2>4, <2>5
<1>4. QED
  BY <1>2, <1>3

LEMMA CutTwice ==
  ASSUME NEW S \in SUBSET Index, NEW D, NEW E
  PROVE  Cut(Cut(S, D), E) = Cut(S, D \cup E)
<1> DEFINE T == Cut(S, D)
           U == Cut(T, E)
           V == Cut(S, D \cup E)
<1>1. T \in SUBSET Index
  BY CutTyped
<1>2. \A x : x \in T <=> \E y \in S : Left(x, y, D)
  BY CutIs
<1>3. \A x : x \in U <=> \E z \in T : Left(x, z, E)
  BY <1>1, CutIs
<1>4. \A x : x \in V <=> \E y \in S : Left(x, y, D \cup E)
  BY CutIs
<1> HIDE DEF T, U, V
<1>5. ASSUME NEW x \in U PROVE x \in V
  <2>1. PICK z \in T : Left(x, z, E)
    BY <1>3, <1>5
  <2>2. PICK y \in S : Left(z, y, D)
    BY <1>2, <2>1
  <2>3. Left(x, y, D \cup E)
    BY <2>1, <2>2 DEF Left
  <2>4. QED
    BY <1>4, <2>3
<1>6. ASSUME NEW x \in V PROVE x \in U
  <2>1. PICK y \in S : Left(x, y, D \cup E)
    BY <1>4, <1>6
  <2>2. PICK z : z = [no |-> y.no, on |-> IF Postgres THEN y.on ELSE y.on \ D]
    OBVIOUS
  <2>3. y \in Index
    OBVIOUS
  <2>4. z \in Index /\ z.no = y.no /\ z.on = IF Postgres THEN y.on ELSE y.on \ D
    BY <2>2, <2>3 DEF Index
  <2>5. Left(z, y, D) /\ Left(x, z, E)
    <3>1. CASE Postgres
      BY <2>1, <2>4, <3>1 DEF Left
    <3>2. CASE ~Postgres
      BY <2>1, <2>4, <3>2 DEF Left
    <3>3. QED
      BY <3>1, <3>2
  <2>6. QED
    BY <1>2, <1>3, <2>5
<1>7. U = V
  BY <1>5, <1>6
<1>8. QED
  BY <1>7 DEF U, V, T

LEMMA CutOfBoth ==
  ASSUME NEW S \in SUBSET Index, NEW T \in SUBSET Index, NEW D
  PROVE  Cut(S \cup T, D) = Cut(S, D) \cup Cut(T, D)
<1>1. S \cup T \in SUBSET Index
  OBVIOUS
<1>2. \A x : x \in Cut(S \cup T, D) <=> \E y \in S \cup T : Left(x, y, D)
  BY <1>1, CutIs
<1>3. \A x : x \in Cut(S, D) <=> \E y \in S : Left(x, y, D)
  BY CutIs
<1>4. \A x : x \in Cut(T, D) <=> \E y \in T : Left(x, y, D)
  BY CutIs
<1>5. QED
  BY <1>2, <1>3, <1>4, Zenon

LEMMA CutNothing ==
  ASSUME NEW S \in SUBSET Index, NEW D, \A x \in S : x.on \cap D = {} /\ x.on # {}
  PROVE  Cut(S, D) = S
<1>1. \A x : x \in Cut(S, D) <=> \E y \in S : Left(x, y, D)
  BY CutIs
<1>2. \A y \in Index : \A z \in Index : y.no = z.no /\ y.on = z.on => y = z
  BY DEF Index
<1>3. ASSUME NEW y \in S, NEW x PROVE Left(x, y, D) <=> x = y
  <2>1. y.on \ D = y.on /\ y \in Index
    OBVIOUS
  <2>2. QED
    BY <1>2, <1>3, <2>1 DEF Left
<1>4. QED
  BY <1>1, <1>3

LEMMA CutMinus ==
  ASSUME NEW S \in SUBSET Index, NEW D, NEW N
  PROVE  Cut(Minus(S, N), D) = Minus(Cut(S, D), N)
<1>1. Minus(S, N) \in SUBSET Index
  BY DEF Minus
<1>2. \A x : x \in Cut(Minus(S, N), D) <=> \E y \in Minus(S, N) : Left(x, y, D)
  BY <1>1, CutIs
<1>3. \A x : x \in Cut(S, D) <=> \E y \in S : Left(x, y, D)
  BY CutIs
<1>4. \A x, y : Left(x, y, D) => x.no = y.no
  BY DEF Left
<1>5. QED
  BY <1>2, <1>3, <1>4 DEF Minus

IndexesSound ==
  /\ \A t \in DOMAIN catalog : \A x \in catalog[t].idx : x.on # {}
  /\ \A w \in Worker : Sent(w) /\ job[w].kind = "index" => job[w].index.on # {}

LEMMA IndexesSoundKept ==
  ASSUME TypeInv, Fresh, IndexesSound, NEW w \in Worker, Act(w)
  PROVE  IndexesSound'
<1>1. ASSUME NEW v \in Worker, Sent(v)', job'[v].kind = "index"
      PROVE  job'[v].index.on # {}
  <2>1. CASE Pick(w)
    BY <1>1, <2>1, PickStep, PickKeeps DEF IndexesSound, Chosen, Sent
  <2>2. CASE ~Pick(w)
    BY <1>1, <2>2, JobsKept DEF IndexesSound, Sent, GoesOn
  <2>3. QED
    BY <2>1, <2>2
<1>2. ASSUME NEW t \in DOMAIN catalog', NEW x \in catalog'[t].idx
      PROVE  x.on # {}
  <2>1. CASE PublishCreate(w) /\ t = job[w].id
    <3>1. catalog'[t].idx = NewIndexes(job[w])
      BY <2>1, CreatePublish
    <3>2. QED
      BY <1>2, <3>1 DEF NewIndexes
  <2>2. CASE ~(PublishCreate(w) /\ t = job[w].id)
    <3>1. t \in DOMAIN catalog
      BY <2>2, CatalogDomain
    <3>2. CatalogChange(w, t)
      BY <2>2, <3>1, CatalogChanges
    <3>3. CASE SameBesides(catalog'[t], catalog[t])
      BY <1>2, <3>1, <3>3 DEF SameBesides, IndexesSound
    <3>4. CASE DeltaOf(w) /\ t = job[w].id /\ Changes(job[w], catalog[t], catalog'[t])
      <4>1. Sent(w)
        BY <3>4, DeltaIsDeltaStep DEF DeltaStep, Sent
      <4>2. CASE job[w].kind = "alter"
        <5> DEFINE S == catalog[t].idx
                   D == job[w].drops
        <5>1. S \in SUBSET Index /\ \A y \in S : y.on # {}
          BY <3>1 DEF TypeInv, CatalogType, CatalogRec, IndexesSound
        <5>2. x \in Cut(S, D)
          BY <1>2, <3>4, <4>2 DEF Changes
        <5> HIDE DEF S, D
        <5>3. PICK y \in S : Left(x, y, D)
          BY <5>1, <5>2, CutIs
        <5>4. QED
          BY <5>1, <5>3 DEF Left
      <4>3. CASE job[w].kind # "alter"
        BY <1>2, <3>1, <3>4, <4>1, <4>3 DEF Changes, Minus, IndexesSound
      <4>4. QED
        BY <4>2, <4>3
    <3>5. QED
      BY <3>2, <3>3, <3>4 DEF CatalogChange
  <2>3. QED
    BY <2>1, <2>2
<1>3. QED
  BY <1>1, <1>2 DEF IndexesSound

\* The server's indexes are the catalog's once the pending deltas are published.
IdxAgrees(t) ==
  server[t].idx = Minus(Cut(catalog[t].idx, Dropped(t)), Unindexed(t)) \cup Indexed(t)

IndexesAgree == \A t \in Both : IdxAgrees(t)

\* What is known of the indexes that are pending on a table.
LEMMA IndexedKnown ==
  ASSUME TypeInv, Fresh, IndexesSound, IndexesApart, NEW t
  PROVE  /\ Indexed(t) \in SUBSET Index
         /\ \A x \in Indexed(t) : x.on # {}
         /\ \A w \in Worker : Sent(w) /\ job[w].kind = "alter" /\ job[w].id = t =>
              \A x \in Indexed(t) : x.on \cap job[w].drops = {}
         /\ \A w \in Worker : Sent(w) /\ job[w].kind = "unindex" =>
              \A x \in Indexed(t) : x.no # job[w].no
<1>1. ASSUME NEW x \in Indexed(t)
      PROVE  \E v \in Worker : /\ Sent(v) /\ job[v].kind = "index" /\ job[v].id = t
                               /\ x = job[v].index /\ x \in Index
  <2>1. PICK v \in Pending("index", t) : x = job[v].index
    BY <1>1 DEF Indexed
  <2>2. v \in Worker /\ Sent(v) /\ job[v].kind = "index" /\ job[v].id = t
    BY DEF Pending, Sent
  <2>3. job[v] \in IndexJob
    BY <2>2, JobByStep DEF TypeInv, Sent
  <2>4. QED
    BY <2>1, <2>2, <2>3 DEF IndexJob
<1>2. ASSUME NEW x \in Indexed(t), NEW w \in Worker, Sent(w), job[w].kind = "unindex"
      PROVE  x.no # job[w].no
  <2>1. PICK v \in Worker : Sent(v) /\ job[v].kind = "index" /\ x = job[v].index
    BY <1>1
  <2>2. Drew(v, x.no)
    BY <2>1 DEF Drew
  <2>3. Public(job[w].no)
    BY <1>2 DEF Public, Asks
  <2>4. QED
    BY <2>2, <2>3 DEF Fresh
<1>3. Indexed(t) \in SUBSET Index
  BY <1>1
<1>4. \A x \in Indexed(t) : x.on # {}
  BY <1>1 DEF IndexesSound
<1>5. \A w \in Worker : Sent(w) /\ job[w].kind = "alter" /\ job[w].id = t =>
        \A x \in Indexed(t) : x.on \cap job[w].drops = {}
  BY <1>1 DEF IndexesApart
<1>6. QED
  BY <1>2, <1>3, <1>4, <1>5

\* What is known of the index of a delta.
LEMMA IndexKnown ==
  ASSUME TypeInv, Fresh, IndexesSound, IndexesApart, NEW w \in Worker, Sent(w),
         job[w].kind = "index", NEW t, t = job[w].id
  PROVE  /\ job[w].index \in Index /\ job[w].index.on # {}
         /\ job[w].index.on \cap Dropped(t) = {}
         /\ job[w].index.no \notin Unindexed(t)
<1> DEFINE x == job[w].index
<1>1. x \in Index
  BY JobByStep DEF TypeInv, Sent, IndexJob
<1>2. x.on # {}
  BY DEF IndexesSound
<1>3. x.on \cap Dropped(t) = {}
  <2>1. ASSUME NEW v \in Pending("alter", t) PROVE x.on \cap job[v].drops = {}
    BY DEF Pending, Sent, IndexesApart
  <2>2. QED
    BY <2>1 DEF Dropped
<1>4. x.no \notin Unindexed(t)
  <2>1. ASSUME NEW v \in Pending("unindex", t) PROVE Public(job[v].no)
    BY DEF Pending, Public, Asks, Sent
  <2>2. Drew(w, x.no)
    BY DEF Drew
  <2>3. QED
    BY <2>1, <2>2 DEF Unindexed, Fresh
<1>5. QED
  BY <1>1, <1>2, <1>3, <1>4

LEMMA IndexesAgreeKept ==
  ASSUME TypeInv, ServerType, Fresh, NamesUnique, OwnersUnique, Exist, CreatesAgree,
         IndexesSound, IndexesApart, IndexesAgree, NEW w \in Worker, Act(w), Clean'
  PROVE  IndexesAgree'
<1> SUFFICES ASSUME NEW t \in DOMAIN catalog', t \in DOMAIN server'
             PROVE  IdxAgrees(t)'
  BY DEF IndexesAgree, Both
<1>1. CASE PublishCreate(w) /\ t = job[w].id
  <2>1. /\ Sent(w) /\ job[w].kind = "create" /\ server' = server
        /\ catalog'[t].idx = server[t].idx /\ AsMade(job[w], server[t])
    BY <1>1, JustPublished
  <2>2. /\ Pending("alter", t) = {} /\ Pending("index", t) = {}
        /\ Pending("unindex", t) = {}
    BY <1>1, <2>1, NonePending
  <2>3. Dropped(t) = {} /\ Indexed(t) = {} /\ Unindexed(t) = {}
    BY <2>2 DEF Dropped, Indexed, Unindexed
  <2>4. Dropped(t)' = {} /\ Indexed(t)' = {} /\ Unindexed(t)' = {}
    BY <1>1, <2>3, NoneTouched, DataElsewhere
  <2>5. SUFFICES server'[t].idx = Minus(Cut(catalog'[t].idx, {}), {}) \cup {}
    <3>1. Cut(catalog[t].idx, Dropped(t))' = Cut(catalog'[t].idx, Dropped(t)')
      BY ConfigStays DEF Cut
    <3>2. QED
      BY <2>4, <3>1 DEF IdxAgrees, Minus
  <2> DEFINE S == catalog'[t].idx
  <2>6. S \in SUBSET Index /\ \A x \in S : x.on # {}
    BY <2>1 DEF AsMade, NewIndexes, Index, FkCol
  <2>7. server'[t].idx = S
    BY <2>1
  <2> HIDE DEF S
  <2>8. Cut(S, {}) = S
    BY <2>6, CutNothing
  <2>9. Minus(S, {}) = S
    BY DEF Minus
  <2>10. QED
    BY <2>7, <2>8, <2>9 DEF S
<1>2. CASE /\ t \in DOMAIN catalog /\ t \in DOMAIN server
           /\ CreateSql(w) => t # job[w].id
           /\ PublishCreate(w) => t # job[w].id
  <2>1. IdxAgrees(t)
    BY <1>2 DEF IndexesAgree, Both
  <2>2. ServerChange(w, t) /\ CatalogChange(w, t)
    BY <1>2, ServerChanges, CatalogChanges
  <2> DEFINE C == catalog[t].idx
             D == Dropped(t)
             N == Unindexed(t)
             P == Indexed(t)
             nC == catalog'[t].idx
             nD == Dropped(t)'
             nN == Unindexed(t)'
             nP == Indexed(t)'
  <2>3. C \in SUBSET Index
    BY <1>2 DEF TypeInv, CatalogType, CatalogRec
  <2>4. /\ P \in SUBSET Index /\ \A x \in P : x.on # {}
    BY IndexedKnown
  <2>5. server[t].idx = Minus(Cut(C, D), N) \cup P
    BY <2>1 DEF IdxAgrees
  <2>6. SUFFICES server'[t].idx = Minus(Cut(nC, nD), nN) \cup nP
    <3>1. Cut(catalog[t].idx, Dropped(t))' = Cut(nC, nD)
      BY ConfigStays DEF Cut
    <3>2. QED
      BY <3>1 DEF IdxAgrees, Minus
  <2> HIDE DEF C, D, N, P, nC, nD, nN, nP
  <2>7. Cut(C, D) \in SUBSET Index
    BY <2>3, CutTyped
  <2>8. CASE ~Touches(w, "alter", t) /\ ~Touches(w, "index", t) /\ ~Touches(w, "unindex", t)
    <3>1. server'[t].idx = server[t].idx /\ nC = C
      BY <2>2, <2>8, ServerUntouched, CatalogUntouched DEF C, nC
    <3>2. nD = D /\ nP = P /\ nN = N
      BY <2>8, DataElsewhere DEF D, P, N, nD, nN, nP
    <3>3. QED
      BY <2>5, <3>1, <3>2
  <2>9. CASE Touches(w, "alter", t)
    <3> DEFINE d == job[w].drops
    <3>1. t = job[w].id /\ job[w].kind = "alter" /\ Sent(w)
      BY <2>9, TouchesHow
    <3>2. nP = P /\ nN = N
      BY <2>9, ApartKinds, DataElsewhere DEF P, N, nN, nP
    <3>3. \A x \in P : x.on \cap d = {}
      BY <3>1, IndexedKnown DEF P
    <3>4. CASE AlterSql(w)
      <4>1. Executed(w, "alter") /\ catalog' = catalog
        BY <3>4, AlterEffect DEF Executed
      <4>2. PICK s \in Named(job[w].says) : server'[s].idx = Cut(server[s].idx, d)
        BY <3>4, AlterEffect
      <4>3. s = t
        BY <3>1, <4>1, NameIsHome DEF Executed, Sent, Aim
      <4>4. nD = D \cup d /\ nC = C
        BY <3>1, <4>1, AlterJoins DEF D, nD, C, nC
      <4> HIDE DEF d
      <4>5. Minus(Cut(C, D), N) \in SUBSET Index
        BY <2>7 DEF Minus
      <4>6. Cut(server[t].idx, d) = Cut(Minus(Cut(C, D), N), d) \cup Cut(P, d)
        BY <2>4, <2>5, <4>5, CutOfBoth
      <4>7. Cut(P, d) = P
        BY <2>4, <3>3, CutNothing
      <4>8. Cut(Minus(Cut(C, D), N), d) = Minus(Cut(Cut(C, D), d), N)
        BY <2>7, CutMinus
      <4>9. Cut(Cut(C, D), d) = Cut(C, D \cup d)
        BY <2>3, CutTwice
      <4>10. QED
        BY <3>2, <4>2, <4>3, <4>4, <4>6, <4>7, <4>8, <4>9
    <3>5. CASE PublishAlter(w) /\ DeltaOf(w)
      <4>1. server' = server /\ Changes(job[w], catalog[t], catalog'[t])
        BY <1>2, <3>1, <3>5, DeltaIsDeltaStep DEF DeltaStep, Rest
      <4>2. D = nD \cup d
        BY <3>1, <3>5, AlterLeaves DEF D, nD
      <4>3. nC = Cut(C, d)
        BY <3>1, <4>1 DEF Changes, C, nC
      <4> HIDE DEF d
      <4>4. Cut(Cut(C, d), nD) = Cut(C, d \cup nD)
        BY <2>3, CutTwice
      <4>5. d \cup nD = D
        BY <4>2
      <4>6. QED
        BY <2>5, <3>2, <4>1, <4>3, <4>4, <4>5
    <3>6. QED
      BY <2>9, <3>4, <3>5, TouchesHow
  <2>10. CASE Touches(w, "index", t)
    <3> DEFINE x == job[w].index
    <3>1. t = job[w].id /\ job[w].kind = "index" /\ Sent(w)
      BY <2>10, TouchesHow
    <3>2. nD = D /\ nN = N
      BY <2>10, ApartKinds, DataElsewhere DEF D, N, nN, nD
    <3>3. CASE CreateIndexSql(w)
      <4>1. Executed(w, "index") /\ catalog' = catalog
        BY <3>3, IndexEffect DEF Executed, Clean
      <4>2. PICK s \in Named(job[w].says) : server'[s].idx = server[s].idx \cup {x}
        BY <3>3, IndexEffect
      <4>3. s = t
        BY <3>1, <4>1, NameIsHome DEF Executed, Sent, Aim
      <4>4. nP = P \cup {x} /\ nC = C
        BY <3>1, <4>1, OthersJoin DEF P, nP, C, nC
      <4>5. QED
        BY <2>5, <3>2, <4>2, <4>3, <4>4
    <3>4. CASE PublishIndex(w) /\ DeltaOf(w)
      <4>1. server' = server /\ Changes(job[w], catalog[t], catalog'[t])
        BY <1>2, <3>1, <3>4, DeltaIsDeltaStep DEF DeltaStep, Rest
      <4>2. P = nP \cup {x}
        BY <3>1, <3>4, OthersLeave DEF P, nP
      <4>3. nC = C \cup {x}
        BY <3>1, <4>1 DEF Changes, C, nC
      <4>4. x \in Index /\ x.on # {} /\ x.on \cap D = {} /\ x.no \notin N
        BY <3>1, IndexKnown DEF D, N
      <4> HIDE DEF x
      <4>5. {x} \in SUBSET Index /\ \A y \in {x} : y.on \cap D = {} /\ y.on # {}
        BY <4>4
      <4>6. Cut(C \cup {x}, D) = Cut(C, D) \cup Cut({x}, D)
        BY <2>3, <4>5, CutOfBoth
      <4>7. Cut({x}, D) = {x}
        BY <4>5, CutNothing
      <4>8. Minus(Cut(C, D) \cup {x}, N) = Minus(Cut(C, D), N) \cup {x}
        BY <4>4 DEF Minus
      <4>9. QED
        BY <2>5, <3>2, <4>1, <4>2, <4>3, <4>6, <4>7, <4>8
    <3>5. QED
      BY <2>10, <3>3, <3>4, TouchesHow
  <2>11. CASE Touches(w, "unindex", t)
    <3> DEFINE n == job[w].no
    <3>1. t = job[w].id /\ job[w].kind = "unindex" /\ Sent(w)
      BY <2>11, TouchesHow
    <3>2. nD = D /\ nP = P
      BY <2>11, ApartKinds, DataElsewhere DEF D, P, nP, nD
    <3>3. CASE DropIndexSql(w)
      <4>1. Executed(w, "unindex") /\ catalog' = catalog
        BY <3>3, NoIndexEffect DEF Executed
      <4>2. PICK s \in DOMAIN server :
              /\ Postgres \/ s \in Named(job[w].says)
              /\ \E y \in server[s].idx : y.no = job[w].no
              /\ server'[s].idx = Minus(server[s].idx, {n})
        BY <3>3, NoIndexEffect
      <4>3. s = t
        BY <3>1, <4>2, IndexIsHome
      <4>4. nN = N \cup {n} /\ nC = C
        BY <3>1, <4>1, OthersJoin DEF N, nN, C, nC
      <4>5. \A x \in P : x.no # n
        BY <3>1, IndexedKnown DEF P
      <4> HIDE DEF n
      <4>6. Minus(Minus(Cut(C, D), N) \cup P, {n}) = Minus(Cut(C, D), N \cup {n}) \cup P
        BY <4>5 DEF Minus
      <4>7. QED
        BY <2>5, <3>2, <4>2, <4>3, <4>4, <4>6
    <3>4. CASE PublishNoIndex(w) /\ DeltaOf(w)
      <4>1. server' = server /\ Changes(job[w], catalog[t], catalog'[t])
        BY <1>2, <3>1, <3>4, DeltaIsDeltaStep DEF DeltaStep, Rest
      <4>2. N = nN \cup {n}
        BY <3>1, <3>4, OthersLeave DEF N, nN
      <4>3. nC = Minus(C, {n})
        BY <3>1, <4>1 DEF Changes, C, nC
      <4> HIDE DEF n
      <4>4. Cut(Minus(C, {n}), D) = Minus(Cut(C, D), {n})
        BY <2>3, CutMinus
      <4>5. Minus(Minus(Cut(C, D), {n}), nN) = Minus(Cut(C, D), N)
        BY <4>2 DEF Minus
      <4>6. QED
        BY <2>5, <3>2, <4>1, <4>3, <4>4, <4>5
    <3>5. QED
      BY <2>11, <3>3, <3>4, TouchesHow
  <2>12. QED
    BY <2>8, <2>9, <2>10, <2>11
<1>3. QED
  BY <1>1, <1>2, BothCases

-----------------------------------------------------------------------------
(* Partitions.                                                               *)

\* Every partitioned table has partitions, each with a range of its own; and
\* of the partitions a statement leaves out one is not the last.
RangesSound ==
  /\ \A w \in Worker : Sent(w) /\ job[w].kind = "create"
                         => (job[w].parted <=> job[w].ranges # {})
  /\ \A w \in Worker :
       Sent(w) /\ job[w].kind = "part" /\ job[w].id \in DOMAIN catalog
         => catalog[job[w].id].parted
  /\ \A w \in Worker :
       /\ job[w].step = "sql" /\ job[w].kind = "unpart" /\ job[w].id \in DOMAIN catalog
       => catalog[job[w].id].ranges \ {job[w].base} # {}
  /\ \A t \in DOMAIN server :
       /\ server[t].parted <=> server[t].ranges # {}
       /\ \A p, q \in server[t].ranges : p.base = q.base => p = q

\* The server's partitions are the catalog's once the pending deltas are published.
RangeAgrees(t) ==
  /\ Bases(server[t]) = (catalog[t].ranges \ Unparted(t)) \cup Parted(t)
  /\ server[t].parted = catalog[t].parted

RangesAgree == \A t \in Both : RangeAgrees(t)

\* The table of a statement is in the catalog if it is on the server.
LEMMA PublishedBefore ==
  ASSUME TypeInv, Fresh, Exist, NEW w \in Worker, Sent(w), job[w].kind # "create",
         NEW t, t = job[w].id, t \in DOMAIN server
  PROVE  t \in DOMAIN catalog
<1> SUFFICES ASSUME t \notin DOMAIN catalog PROVE FALSE
  OBVIOUS
<1>1. PICK v \in Pending("create", t) : TRUE
  BY DEF Exist
<1>2. v \in Worker /\ Sent(v) /\ job[v].kind = "create" /\ job[v].id = t
  BY DEF Pending, Sent
<1>3. v # w
  BY <1>2
<1>4. QED
  BY <1>2, <1>3, CreatesOwn

LEMMA RangeKnown ==
  ASSUME Fresh, NEW w \in Worker, Sent(w), NEW t
  PROVE  /\ job[w].kind = "part" => /\ job[w].base \notin Unparted(t)
                                    /\ job[w].step = "sql" => job[w].base \notin Parted(t)
                                    /\ \A s \in DOMAIN catalog :
                                         job[w].base \notin catalog[s].ranges
         /\ job[w].kind = "unpart" => job[w].base \notin Parted(t)
<1>1. \A v \in Worker : Sent(v) /\ job[v].kind = "part" =>
        /\ ~Public(job[v].base)
        /\ \A u \in Worker \ {v} : ~Drew(u, job[v].base)
  BY DEF Fresh, Drew
<1>2. \A v \in Worker : Sent(v) /\ job[v].kind = "unpart" => Public(job[v].base)
  BY DEF Public, Asks
<1>3. \A v \in Worker : Sent(v) /\ job[v].kind = "part" => Drew(v, job[v].base)
  BY DEF Drew
<1>4. \A v \in Pending("part", t) : v \in Worker /\ Sent(v) /\ job[v].kind = "part"
                                    /\ job[v].step = "publish"
  BY DEF Pending, Sent
<1>5. \A v \in Pending("unpart", t) : v \in Worker /\ Sent(v) /\ job[v].kind = "unpart"
  BY DEF Pending, Sent
<1>6. job[w].kind = "part" => job[w].base \notin Unparted(t)
  BY <1>1, <1>2, <1>5 DEF Unparted
<1>7. job[w].kind = "part" /\ job[w].step = "sql" => job[w].base \notin Parted(t)
  BY <1>1, <1>3, <1>4 DEF Parted
<1>8. job[w].kind = "part" =>
        \A s \in DOMAIN catalog : job[w].base \notin catalog[s].ranges
  BY <1>1 DEF Public, InCatalog, InRecord
<1>9. job[w].kind = "unpart" => job[w].base \notin Parted(t)
  BY <1>1, <1>2, <1>4 DEF Parted
<1>10. QED
  BY <1>6, <1>7, <1>8, <1>9

\* A table's ranges stay, or become one more or one less.
LEMMA BasesChanges ==
  ASSUME TypeInv, ServerType, Clean', RangesSound, NEW w \in Worker,
         NEW t \in DOMAIN server, ServerChange(w, t)
  PROVE  \/ server'[t].ranges = server[t].ranges /\ Bases(server'[t]) = Bases(server[t])
         \/ /\ CreatePartitionSql(w) /\ t = job[w].id
            /\ server'[t].ranges = server[t].ranges
                 \cup {[base |-> job[w].base, prefix |-> job[w].says]}
            /\ Bases(server'[t]) = Bases(server[t]) \cup {job[w].base}
         \/ /\ DropPartitionSql(w) /\ t = job[w].id
            /\ server'[t].ranges \subseteq server[t].ranges
            /\ ~Postgres => server'[t].ranges # {}
            /\ job[w].base \in Bases(server[t])
            /\ Bases(server'[t]) = Bases(server[t]) \ {job[w].base}
<1>1. CASE server'[t].ranges = server[t].ranges
  BY <1>1 DEF Bases
<1>2. CASE /\ CreatePartitionSql(w) /\ t = job[w].id
           /\ server'[t].ranges = server[t].ranges
                \cup {[base |-> job[w].base, prefix |-> job[w].says]}
  <2> DEFINE p == [base |-> job[w].base, prefix |-> job[w].says]
  <2>1. p.base = job[w].base
    OBVIOUS
  <2>2. server'[t].ranges = server[t].ranges \cup {p}
    BY <1>2
  <2> HIDE DEF p
  <2>3. Bases(server'[t]) = Bases(server[t]) \cup {p.base}
    BY <2>2 DEF Bases
  <2>4. QED
    BY <1>2, <2>1, <2>3
<1>3. CASE /\ DropPartitionSql(w) /\ t = job[w].id
           /\ \E p \in server[t].ranges :
                /\ p.base = job[w].base
                /\ Postgres \/ server[t].ranges # {p}
                /\ server'[t].ranges = server[t].ranges \ {p}
  <2>1. PICK p \in server[t].ranges :
          /\ p.base = job[w].base
          /\ Postgres \/ server[t].ranges # {p}
          /\ server'[t].ranges = server[t].ranges \ {p}
    BY <1>3
  <2>2. \A q \in server[t].ranges : q.base = p.base => q = p
    BY DEF RangesSound
  <2>3. Bases(server'[t]) = Bases(server[t]) \ {p.base}
    BY <2>1, <2>2 DEF Bases
  <2>4. p.base \in Bases(server[t])
    BY DEF Bases
  <2>5. server'[t].ranges \subseteq server[t].ranges /\ (~Postgres => server'[t].ranges # {})
    BY <2>1
  <2>6. /\ job[w].base \in Bases(server[t])
        /\ Bases(server'[t]) = Bases(server[t]) \ {job[w].base}
    BY <2>1, <2>3, <2>4
  <2>7. DropPartitionSql(w) /\ t = job[w].id
    BY <1>3
  <2>8. QED
    BY <2>5, <2>6, <2>7
<1>4. QED
  BY <1>1, <1>2, <1>3 DEF ServerChange, RangesChange

\* What is there after a step that does not make it was there before.
LEMMA ThereBefore ==
  ASSUME TypeInv, ServerType, NamesUnique, NEW w \in Worker, Act(w), NEW t
  PROVE  /\ t \in DOMAIN catalog' /\ (PublishCreate(w) => t # job[w].id)
              => t \in DOMAIN catalog
         /\ t \in DOMAIN server' /\ (CreateSql(w) => t # job[w].id)
              => t \in DOMAIN server
<1>1. CASE PublishCreate(w)
  <2>1. DOMAIN catalog' = DOMAIN catalog \cup {job[w].id} /\ server' = server
    BY <1>1, CreatePublish DEF Rest
  <2>2. QED
    BY <1>1, <2>1
<1>2. CASE CreateSql(w)
  <2>1. DOMAIN server' = DOMAIN server \cup {job[w].id} /\ catalog' = catalog
    BY <1>2, CreateEffect
  <2>2. QED
    BY <1>2, <2>1
<1>3. CASE ~PublishCreate(w) /\ ~CreateSql(w)
  <2>1. DOMAIN catalog' \subseteq DOMAIN catalog /\ DOMAIN server' \subseteq DOMAIN server
    BY <1>3, CatalogDomain, ServerDomain
  <2>2. QED
    BY <2>1
<1>4. QED
  BY <1>1, <1>2, <1>3

\* Nobody publishes a table under the id of a statement on a table.
LEMMA NotAgain ==
  ASSUME TypeInv, Fresh, NEW w \in Worker, PublishCreate(w), NEW v \in Worker,
         Sent(v), job[v].kind # "create"
  PROVE  job[v].id # job[w].id
<1>1. Sent(w) /\ job[w].kind = "create"
  BY CreatePublish DEF Sent, CreateJob
<1>2. QED
  BY <1>1, CreatesOwn

LEMMA MoreThanOne ==
  ASSUME NEW S, NEW b, Cardinality(S) >= 2
  PROVE  S \ {b} # {}
<1> SUFFICES ASSUME S \subseteq {b} PROVE FALSE
  OBVIOUS
<1>1. IsFiniteSet({b}) /\ Cardinality({b}) = 1
  BY FS_Singleton
<1>2. Cardinality(S) \in Nat /\ Cardinality(S) <= Cardinality({b})
  BY <1>1, Smaller
<1>3. QED
  BY <1>1, <1>2

LEMMA RangesSoundKept ==
  ASSUME TypeInv, ServerType, Fresh, NamesUnique, OwnersUnique, Exist, Apart,
         RangesSound, RangesAgree, NEW w \in Worker, Act(w), Clean'
  PROVE  RangesSound'
<1>1. ASSUME NEW v \in Worker, Sent(v)', job'[v].kind = "create"
      PROVE  job'[v].parted <=> job'[v].ranges # {}
  <2>1. CASE Pick(w) /\ v = w
    BY <1>1, <2>1, PickStep DEF Chosen
  <2>2. CASE ~(Pick(w) /\ v = w) /\ ~(CreateSql(w) /\ v = w)
    <3>1. Sent(v) /\ (job'[v] = job[v] \/ (v = w /\ ~Pick(w)))
      BY <1>1, <2>2, JobsKept, PickKeeps DEF Sent
    <3>2. CASE job'[v] = job[v]
      BY <1>1, <3>1, <3>2 DEF RangesSound
    <3>3. CASE v = w /\ ~Pick(w)
      <4>1. Sent(w) /\ job[w].kind = "create" /\ Sent(w)'
        BY <1>1, <3>3, JobsKept DEF GoesOn
      <4>2. ~Refused(w)
        BY <4>1 DEF Refused, TypeInv, Idle, Sent
      <4>3. ~PublishCreate(w)
        <5>1. PublishCreate(w) => job'[w].step = "recheck"
          BY CreatePublish
        <5>2. QED
          BY <4>1, <5>1 DEF Sent
      <4>4. QED
        BY <2>2, <3>3, <4>1, <4>2, <4>3, KindOfAct
    <3>4. QED
      BY <3>1, <3>2, <3>3
  <2>3. CASE CreateSql(w) /\ v = w
    <3>1. /\ job[w] \in CreateJob /\ job[w].step = "sql" /\ GoesOn(job'[w], job[w])
          /\ job'[w].ranges # {} \/ job[w].ranges = {}
      BY <2>3, CreateEffect DEF Clean
    <3>2. job[w].parted <=> job[w].ranges # {}
      BY <3>1 DEF RangesSound, Sent, CreateJob
    <3>3. job'[w].parted = job[w].parted /\ job'[w].ranges \subseteq job[w].ranges
      BY <3>1 DEF GoesOn, CreateJob
    <3>4. QED
      BY <2>3, <3>1, <3>2, <3>3
  <2>4. QED
    BY <2>1, <2>2, <2>3
<1>2. ASSUME NEW v \in Worker, Sent(v)', job'[v].kind = "part",
             NEW t, t = job'[v].id, t \in DOMAIN catalog'
      PROVE  catalog'[t].parted
  <2>1. CASE Pick(w) /\ v = w
    BY <1>2, <2>1, PickStep DEF Chosen
  <2>2. CASE ~(Pick(w) /\ v = w)
    <3>1. Sent(v) /\ job[v].kind = "part" /\ t = job[v].id
      BY <1>2, <2>2, JobsKept, PickKeeps DEF Sent, GoesOn
    <3>2. PublishCreate(w) => t # job[w].id
      BY <3>1, NotAgain
    <3>3. t \in DOMAIN catalog
      BY <1>2, <3>2, ThereBefore
    <3>4. CatalogChange(w, t)
      BY <1>2, <3>2, <3>3, CatalogChanges
    <3>5. catalog'[t].parted = catalog[t].parted
      BY <3>4, CatalogUntouched
    <3>6. QED
      BY <3>1, <3>3, <3>5 DEF RangesSound
  <2>3. QED
    BY <2>1, <2>2
<1>3. ASSUME NEW v \in Worker, job'[v].step = "sql", job'[v].kind = "unpart",
             NEW t, t = job'[v].id, t \in DOMAIN catalog'
      PROVE  catalog'[t].ranges \ {job'[v].base} # {}
  <2>1. CASE Pick(w) /\ v = w
    <3>1. catalog' = catalog /\ Cardinality(catalog[t].ranges) >= 2
      BY <1>3, <2>1, PickStep DEF Chosen
    <3>2. QED
      BY <3>1, MoreThanOne
  <2>2. CASE ~(Pick(w) /\ v = w)
    <3>1. /\ Sent(v) /\ job[v].kind = "unpart" /\ t = job[v].id
          /\ job'[v].base = job[v].base
      BY <1>3, <2>2, JobsKept, PickKeeps DEF Sent, GoesOn
    <3>2. v # w /\ job'[v] = job[v] /\ job[v].step = "sql"
      <4>1. v # w
        <5>1. CASE v = w
          <6>1. ~Pick(w) /\ Sent(w)' /\ Sent(w)
            BY <1>3, <2>2, <3>1, <5>1 DEF Sent
          <6>2. ~Refused(w)
            BY <6>1 DEF Refused, TypeInv, Idle, Sent
          <6>3. DropPartitionSql(w) \/ PublishNoPartition(w)
            BY <3>1, <5>1, <6>1, <6>2, KindOfAct
          <6>4. ~DropPartitionSql(w)
            BY <1>3, <5>1, NoRangeEffect DEF Executed
          <6>5. ~PublishNoPartition(w)
            BY <1>3, <5>1, DeltaIsDeltaStep DEF DeltaOf, DeltaStep, Idle
          <6>6. QED
            BY <6>3, <6>4, <6>5
        <5>2. QED
          BY <5>1
      <4>2. job'[v] = job[v]
        BY <4>1, JobsKept, PickKeeps
      <4>3. QED
        BY <1>3, <4>1, <4>2
    <3>3. PublishCreate(w) => t # job[w].id
      BY <3>1, NotAgain
    <3>4. t \in DOMAIN catalog
      BY <1>3, <3>3, ThereBefore
    <3>5. CatalogChange(w, t)
      BY <1>3, <3>3, <3>4, CatalogChanges
    <3>6. catalog[t].ranges \ {job[v].base} # {}
      BY <3>1, <3>2, <3>4 DEF RangesSound
    <3>7. ~(Sent(w) /\ job[w].kind = "unpart" /\ job[w].id = t)
      <4>1. \A u \in Worker : Sent(u) => u \in Busy
        BY DEF Sent, Busy, Idle
      <4>2. QED
        BY <3>1, <3>2, <4>1 DEF Apart
    <3>8. catalog[t].ranges \subseteq catalog'[t].ranges
      <4>1. CASE SameBesides(catalog'[t], catalog[t])
        BY <4>1 DEF SameBesides
      <4>2. CASE DeltaOf(w) /\ t = job[w].id /\ Changes(job[w], catalog[t], catalog'[t])
        <5>1. Sent(w)
          BY <4>2, DeltaIsDeltaStep DEF DeltaStep, Sent
        <5>2. QED
          BY <3>7, <4>2, <5>1 DEF Changes
      <4>3. QED
        BY <3>5, <4>1, <4>2 DEF CatalogChange
    <3>9. QED
      BY <3>1, <3>6, <3>8
  <2>3. QED
    BY <2>1, <2>2
<1>4. ASSUME NEW t \in DOMAIN server'
      PROVE  /\ server'[t].parted <=> server'[t].ranges # {}
             /\ \A p, q \in server'[t].ranges : p.base = q.base => p = q
  <2>1. CASE CreateSql(w) /\ t = job[w].id
    <3> DEFINE j == job'[w]
               r == server'[t]
    <3>1. r.parted = j.parted /\ Bases(r) = j.ranges /\ j.kind = "create" /\ Sent(w)'
      <4>1. j \in CreateJob /\ j.step = "publish"
        BY <2>1, CreateEffect
      <4>2. r = server'[job[w].id]
        BY <2>1
      <4>3. r.parted = j.parted /\ Bases(r) = j.ranges
        BY <2>1, <4>2, JustMade
      <4>4. QED
        BY <4>1, <4>3 DEF CreateJob, Sent
    <3>2. r.ranges = [base : j.ranges, prefix : {job[w].id}]
      BY <2>1, CreateEffect
    <3>3. j.parted <=> j.ranges # {}
      BY <1>1, <3>1
    <3>4. r.parted <=> r.ranges # {}
      BY <3>1, <3>3 DEF Bases
    <3>5. \A p, q \in r.ranges : p.base = q.base => p = q
      BY <3>2
    <3>6. QED
      BY <3>4, <3>5
  <2>2. CASE ~(CreateSql(w) /\ t = job[w].id)
    <3>1. t \in DOMAIN server
      BY <1>4, <2>2, ThereBefore
    <3>2. ServerChange(w, t)
      BY <2>2, <3>1, ServerChanges
    <3>3. server'[t].parted = server[t].parted
      BY <3>2 DEF ServerChange
    <3>4. /\ server[t].parted <=> server[t].ranges # {}
          /\ \A p, q \in server[t].ranges : p.base = q.base => p = q
      BY <3>1 DEF RangesSound
    <3>5. CASE server'[t].ranges = server[t].ranges
      BY <3>3, <3>4, <3>5
    <3>6. CASE /\ CreatePartitionSql(w) /\ t = job[w].id
               /\ server'[t].ranges = server[t].ranges
                    \cup {[base |-> job[w].base, prefix |-> job[w].says]}
      <4>1. Sent(w) /\ job[w].kind = "part" /\ job[w].step = "sql"
        BY <3>6, RangeEffect DEF Executed, Sent
      <4>2. t \in DOMAIN catalog
        BY <3>1, <3>6, <4>1, PublishedBefore
      <4>3. /\ Bases(server[t]) = (catalog[t].ranges \ Unparted(t)) \cup Parted(t)
            /\ server[t].parted = catalog[t].parted
        BY <3>1, <4>2 DEF RangesAgree, RangeAgrees, Both
      <4>4. catalog[t].parted
        BY <3>6, <4>1, <4>2 DEF RangesSound
      <4>5. job[w].base \notin Bases(server[t])
        BY <4>1, <4>2, <4>3, RangeKnown
      <4>6. \A q \in server[t].ranges : q.base # job[w].base
        BY <4>5 DEF Bases
      <4> DEFINE n == [base |-> job[w].base, prefix |-> job[w].says]
      <4>7. n.base = job[w].base /\ server'[t].ranges = server[t].ranges \cup {n}
        BY <3>6
      <4> HIDE DEF n
      <4>8. QED
        BY <3>3, <3>4, <4>3, <4>4, <4>6, <4>7
    <3>7. CASE /\ DropPartitionSql(w) /\ t = job[w].id
               /\ server'[t].ranges \subseteq server[t].ranges
               /\ ~Postgres => server'[t].ranges # {}
               /\ job[w].base \in Bases(server[t])
               /\ Bases(server'[t]) = Bases(server[t]) \ {job[w].base}
      <4>1. Sent(w) /\ job[w].kind = "unpart" /\ job[w].step = "sql"
        BY <3>7, NoRangeEffect DEF Executed, Sent
      <4>2. t \in DOMAIN catalog
        BY <3>1, <3>7, <4>1, PublishedBefore
      <4>3. Bases(server[t]) = (catalog[t].ranges \ Unparted(t)) \cup Parted(t)
        BY <3>1, <4>2 DEF RangesAgree, RangeAgrees, Both
      <4>4. Unparted(t) = {}
        <5>1. ASSUME NEW v \in Pending("unpart", t) PROVE FALSE
          <6>1. v # w /\ v \in Busy /\ w \in Busy /\ job[v].kind = "unpart"
                /\ job[v].id = job[w].id
            BY <3>7, <4>1 DEF Pending, Busy, Idle
          <6>2. QED
            BY <4>1, <6>1 DEF Apart
        <5>2. QED
          BY <5>1 DEF Unparted
      <4>5. catalog[t].ranges \ {job[w].base} # {}
        BY <3>7, <4>1, <4>2 DEF RangesSound
      <4>6. Bases(server'[t]) # {}
        BY <3>7, <4>3, <4>4, <4>5
      <4>7. server'[t].ranges # {} /\ server[t].ranges # {}
        BY <3>7, <4>6 DEF Bases
      <4>8. QED
        BY <3>3, <3>4, <3>7, <4>7
    <3>8. QED
      BY <3>1, <3>2, <3>5, <3>6, <3>7, BasesChanges
  <2>3. QED
    BY <2>1, <2>2
<1>5. ASSUME NEW v \in Worker, Sent(v)', job'[v].kind = "part",
             job'[v].id \in DOMAIN catalog'
      PROVE  catalog'[job'[v].id].parted
  BY <1>2, <1>5
<1>6. ASSUME NEW v \in Worker, job'[v].step = "sql", job'[v].kind = "unpart",
             job'[v].id \in DOMAIN catalog'
      PROVE  catalog'[job'[v].id].ranges \ {job'[v].base} # {}
  BY <1>3, <1>6
<1>7. QED
  BY <1>1, <1>4, <1>5, <1>6 DEF RangesSound

LEMMA RangesAgreeKept ==
  ASSUME TypeInv, ServerType, Fresh, NamesUnique, OwnersUnique, Exist, CreatesAgree,
         RangesSound, RangesAgree, NEW w \in Worker, Act(w), Clean'
  PROVE  RangesAgree'
<1> SUFFICES ASSUME NEW t \in DOMAIN catalog', t \in DOMAIN server'
             PROVE  RangeAgrees(t)'
  BY DEF RangesAgree, Both
<1>1. CASE PublishCreate(w) /\ t = job[w].id
  <2>1. /\ Sent(w) /\ job[w].kind = "create" /\ server' = server
        /\ catalog'[t].parted = server[t].parted
        /\ catalog'[t].ranges = Bases(server[t])
    BY <1>1, JustPublished
  <2>2. Pending("part", t) = {} /\ Pending("unpart", t) = {}
    BY <1>1, <2>1, NonePending
  <2>3. Parted(t) = {} /\ Unparted(t) = {}
    BY <2>2 DEF Parted, Unparted
  <2>4. Parted(t)' = {} /\ Unparted(t)' = {}
    BY <1>1, <2>3, NoneTouched, DataElsewhere
  <2>5. Bases(server[t])' = Bases(server[t])
    BY <2>1 DEF Bases
  <2>6. QED
    BY <2>1, <2>4, <2>5 DEF RangeAgrees
<1>2. CASE /\ t \in DOMAIN catalog /\ t \in DOMAIN server
           /\ CreateSql(w) => t # job[w].id
           /\ PublishCreate(w) => t # job[w].id
  <2>1. RangeAgrees(t)
    BY <1>2 DEF RangesAgree, Both
  <2>2. ServerChange(w, t) /\ CatalogChange(w, t)
    BY <1>2, ServerChanges, CatalogChanges
  <2>3. server'[t].parted = server[t].parted /\ catalog'[t].parted = catalog[t].parted
    BY <2>2, CatalogUntouched DEF ServerChange
  <2> DEFINE C == catalog[t].ranges
             U == Unparted(t)
             P == Parted(t)
             B == Bases(server[t])
             nC == catalog'[t].ranges
             nU == Unparted(t)'
             nP == Parted(t)'
             nB == Bases(server'[t])
             b == job[w].base
  <2>4. B = (C \ U) \cup P
    BY <2>1 DEF RangeAgrees
  <2>5. SUFFICES nB = (nC \ nU) \cup nP
    <3>1. Bases(server[t])' = nB
      BY DEF Bases
    <3>2. server[t].parted = catalog[t].parted
      BY <2>1 DEF RangeAgrees
    <3>3. QED
      BY <2>3, <3>1, <3>2 DEF RangeAgrees
  <2>6. server'[t].ranges = server[t].ranges => nB = B
    BY DEF Bases
  <2> HIDE DEF C, U, P, B, nC, nU, nP, nB, b
  <2>7. CASE ~Touches(w, "part", t) /\ ~Touches(w, "unpart", t)
    <3>1. nB = B /\ nC = C
      BY <2>2, <2>6, <2>7, ServerUntouched, CatalogUntouched DEF C, nC
    <3>2. nU = U /\ nP = P
      BY <2>7, DataElsewhere DEF U, P, nU, nP
    <3>3. QED
      BY <2>4, <3>1, <3>2
  <2>8. CASE Touches(w, "part", t)
    <3>1. t = job[w].id /\ job[w].kind = "part" /\ Sent(w)
      BY <2>8, TouchesHow
    <3>2. nU = U
      BY <2>8, ApartKinds, DataElsewhere DEF U, nU
    <3>3. CASE CreatePartitionSql(w)
      <4>1. Executed(w, "part") /\ catalog' = catalog
        BY <3>3, RangeEffect DEF Executed
      <4>2. PICK s \in Named(job[w].says) :
              server'[s].ranges = server[s].ranges
                \cup {[base |-> job[w].base, prefix |-> job[w].says]}
        BY <3>3, RangeEffect
      <4>3. s = t
        BY <3>1, <4>1, NameIsHome DEF Executed, Sent, Aim
      <4>4. nB = B \cup {b}
        <5> DEFINE p == [base |-> job[w].base, prefix |-> job[w].says]
        <5>1. p.base = job[w].base /\ server'[t].ranges = server[t].ranges \cup {p}
          BY <4>2, <4>3
        <5> HIDE DEF p
        <5>2. QED
          BY <5>1 DEF Bases, B, nB, b
      <4>5. nP = P \cup {b} /\ nC = C
        BY <3>1, <4>1, OthersJoin DEF P, nP, C, nC, b
      <4>6. QED
        BY <2>4, <3>2, <4>4, <4>5
    <3>4. CASE PublishPartition(w) /\ DeltaOf(w)
      <4>1. server' = server /\ Changes(job[w], catalog[t], catalog'[t])
        BY <1>2, <3>1, <3>4, DeltaIsDeltaStep DEF DeltaStep, Rest
      <4>2. P = nP \cup {b}
        BY <3>1, <3>4, OthersLeave DEF P, nP, b
      <4>3. catalog[t].parted
        BY <1>2, <3>1 DEF RangesSound
      <4>4. nC = C \cup {b}
        BY <3>1, <4>1, <4>3 DEF Changes, C, nC, b
      <4>5. b \notin U
        BY <3>1, RangeKnown DEF b, U
      <4>6. QED
        BY <2>4, <2>6, <3>2, <4>1, <4>2, <4>4, <4>5
    <3>5. QED
      BY <2>8, <3>3, <3>4, TouchesHow
  <2>9. CASE Touches(w, "unpart", t)
    <3>1. t = job[w].id /\ job[w].kind = "unpart" /\ Sent(w)
      BY <2>9, TouchesHow
    <3>2. nP = P
      BY <2>9, ApartKinds, DataElsewhere DEF P, nP
    <3>3. b \notin P
      BY <3>1, RangeKnown DEF b, P
    <3>4. CASE DropPartitionSql(w)
      <4>1. Executed(w, "unpart") /\ catalog' = catalog
        BY <3>4, NoRangeEffect DEF Executed
      <4>2. nB = B \ {b}
        <5>1. ~CreatePartitionSql(w)
          BY <4>1, RangeEffect DEF Executed
        <5>2. PICK p \in server[t].ranges : p.base = job[w].base /\
                server'[t].ranges = server[t].ranges \ {p}
          <6>1. PICK s \in DOMAIN server : \E p \in server[s].ranges :
                  /\ p.base = job[w].base
                  /\ IF Postgres THEN p.prefix = job[w].says
                     ELSE s \in Named(job[w].says) /\ server[s].ranges # {p}
                  /\ server'[s].ranges = server[s].ranges \ {p}
            BY <3>4, NoRangeEffect
          <6>2. s = t
            <7>1. CASE Postgres
              <8>1. Bears(job[w].says, s)
                BY <6>1, <7>1 DEF Bears, NamedIn
              <8>2. Bears(job[w].says, t)
                BY <3>1 DEF Bears, NamesIt, Aim
              <8>3. QED
                BY <8>1, <8>2 DEF NamesUnique
            <7>2. CASE ~Postgres
              BY <3>1, <6>1, <7>2, NameIsHome DEF Aim
            <7>3. QED
              BY <7>1, <7>2
          <6>3. QED
            BY <6>1, <6>2
        <5>3. \A q \in server[t].ranges : q.base = p.base => q = p
          BY <1>2 DEF RangesSound
        <5>4. QED
          BY <5>2, <5>3 DEF Bases, B, nB, b
      <4>3. nU = U \cup {b} /\ nC = C
        BY <3>1, <4>1, OthersJoin DEF U, nU, C, nC, b
      <4>4. QED
        BY <2>4, <3>2, <3>3, <4>2, <4>3
    <3>5. CASE PublishNoPartition(w) /\ DeltaOf(w)
      <4>1. server' = server /\ Changes(job[w], catalog[t], catalog'[t])
        BY <1>2, <3>1, <3>5, DeltaIsDeltaStep DEF DeltaStep, Rest
      <4>2. U = nU \cup {b}
        BY <3>1, <3>5, OthersLeave DEF U, nU, b
      <4>3. nC = C \ {b}
        BY <3>1, <4>1 DEF Changes, C, nC, b
      <4>4. QED
        BY <2>4, <2>6, <3>2, <4>1, <4>2, <4>3
    <3>6. QED
      BY <2>9, <3>4, <3>5, TouchesHow
  <2>10. QED
    BY <2>7, <2>8, <2>9
<1>3. QED
  BY <1>1, <1>2, BothCases

-----------------------------------------------------------------------------
(* References.                                                               *)

\* MySQL has no foreign key to a partitioned table; and none is left that a
\* statement cleared.
RefsSound ==
  /\ ~Postgres => \A t \in DOMAIN server :
       server[t].ref \in DOMAIN server => ~server[server[t].ref].parted
  /\ \A w \in Worker :
       /\ job[w].step = "publish" /\ job[w].kind = "alter" /\ FkCol \in job[w].drops
       /\ job[w].id \in DOMAIN server
       => server[job[w].id].ref = NoId
  /\ \A w \in Busy : job[w].kind = "unpart" =>
       /\ job[w].id # NoId
       /\ job[w].step # "sql" =>
            \A t \in DOMAIN server : server[t].ref # job[w].id

\* w is still going to clear the reference of t in the catalog, to r.
Clears(w, t, r) ==
  \/ /\ job[w].step = "publish" /\ job[w].kind = "alter" /\ job[w].id = t
     /\ FkCol \in job[w].drops
  \/ job[w].step = "publish" /\ job[w].kind = "unpart" /\ job[w].id = r
  \/ job[w].step = "sweep" /\ job[w].id = r
  \/ job[w].step = "unref" /\ job[w].id = r /\ t \in job[w].todo

\* A reference to a table that is there is the same on both sides, but for one
\* that the server cleared and a worker is going to clear.
RefAgrees(t) ==
  /\ server[t].ref \in DOMAIN server => catalog[t].ref = server[t].ref
  /\ catalog[t].ref \in Both => \/ server[t].ref = catalog[t].ref
                                \/ \E w \in Worker : Clears(w, t, catalog[t].ref)

RefsAgree == \A t \in Both : RefAgrees(t)

LEMMA StepOf ==
  ASSUME TypeInv, NEW w \in Worker, Act(w)
  PROVE  /\ job[w].step = "sweep" => Sweep(w)
         /\ job[w].step = "unref" => Unref(w)
         /\ job[w].step = "publish" => ~SqlOf(w) /\ ~Refused(w)
<1>1. Pick(w) => job[w].step = "idle"
  BY PickKeeps
<1>2. SqlOf(w) => job[w].step = "sql"
  BY SqlIsServerStep DEF ServerStep
<1>3. PublishCreate(w) \/ PublishDrop(w) \/ DeltaOf(w) => job[w].step = "publish"
  BY CreatePublish, DropPublish, DeltaIsDeltaStep DEF DeltaStep
<1>4. /\ Recheck(w) => job[w].step = "recheck"
      /\ Sweep(w) => job[w].step = "sweep"
      /\ Unref(w) => job[w].step = "unref"
  BY DEF Recheck, Sweep, Unref
<1>5. job[w].step = "sweep" => Sweep(w)
  BY <1>1, <1>2, <1>3, <1>4, ActCases
<1>6. job[w].step = "unref" => Unref(w)
  BY <1>1, <1>2, <1>3, <1>4, ActCases
<1>7. job[w].step = "publish" => ~SqlOf(w) /\ ~Refused(w)
  BY <1>2 DEF SqlOf
<1>8. QED
  BY <1>5, <1>6, <1>7

\* The reference of a table of the catalog.
CatalogRefChange(w, t) ==
  \/ catalog'[t].ref = catalog[t].ref
  \/ /\ catalog'[t].ref = NoId
     /\ \/ Recheck(w) /\ TargetGone(catalog[t].ref)
        \/ Unref(w) /\ catalog[t].ref = job[w].id
        \/ /\ PublishAlter(w) /\ DeltaOf(w) /\ t = job[w].id
           /\ FkCol \in job[w].drops

LEMMA CatalogRefChanges ==
  ASSUME TypeInv, NEW w \in Worker, Act(w), NEW t \in DOMAIN catalog,
         t \in DOMAIN catalog', PublishCreate(w) => t # job[w].id
  PROVE  /\ CatalogRefChange(w, t)
         /\ PublishAlter(w) /\ DeltaOf(w) /\ t = job[w].id /\ FkCol \in job[w].drops
              => catalog'[t].ref = NoId
<1> USE DEF CatalogRefChange
<1>1. CASE DeltaOf(w)
  <2>1. ~Recheck(w) /\ ~Unref(w)
    BY <1>1, DeltaIsDeltaStep DEF DeltaStep, Recheck, Unref
  <2>2. CASE t # job[w].id
    BY <1>1, <2>2, DeltaIsDeltaStep DEF DeltaStep
  <2>3. CASE t = job[w].id
    <3>1. /\ Changes(job[w], catalog[t], catalog'[t])
          /\ job[w].step = "publish"
      BY <1>1, <2>3, DeltaIsDeltaStep DEF DeltaStep
    <3>2. catalog'[t].ref = IF job[w].kind = "alter" /\ FkCol \in job[w].drops
                            THEN NoId ELSE catalog[t].ref
      BY <3>1 DEF Changes
    <3>3. job[w].kind = "alter" <=> PublishAlter(w)
      <4>1. Sent(w) /\ ~Refused(w) /\ ~AlterSql(w)
        BY <3>1, StepOf DEF Sent, SqlOf
      <4>2. PublishAlter(w) => job[w].kind = "alter"
        BY DEF PublishAlter, Delta, Publishes
      <4>3. QED
        BY <4>1, <4>2, KindOfAct
    <3>4. QED
      BY <1>1, <2>3, <3>2, <3>3
  <2>4. QED
    BY <2>2, <2>3
<1>2. CASE ~DeltaOf(w)
  <2>1. CASE Pick(w) \/ SqlOf(w) \/ Sweep(w)
    BY <1>2, <2>1, PickStep, SqlIsServerStep, SweepStep DEF ServerStep
  <2>2. CASE PublishCreate(w)
    BY <1>2, <2>2, CreatePublish
  <2>3. CASE PublishDrop(w)
    BY <1>2, <2>3, DropPublish
  <2>4. CASE Recheck(w)
    BY <1>2, <2>4, RecheckStep
  <2>5. CASE Unref(w)
    BY <1>2, <2>5, UnrefStep
  <2>6. QED
    BY <1>2, <2>1, <2>2, <2>3, <2>4, <2>5, ActCases
<1>3. QED
  BY <1>1, <1>2

LEMMA RefsSoundKept ==
  ASSUME TypeInv, ServerType, Fresh, NamesUnique, OwnersUnique, Exist, Exist', Apart,
         RangesSound, RefsSound, NEW w \in Worker, Act(w)
  PROVE  RefsSound'
<1>0. CreateSql(w) => Sent(w) /\ job[w].kind = "create" /\ job[w].step = "sql"
  BY CreateEffect DEF CreateJob, Sent
<1>1. ASSUME ~Postgres, NEW t \in DOMAIN server', NEW r, r = server'[t].ref,
             r \in DOMAIN server'
      PROVE  ~server'[r].parted
  <2>1. r # NoId
    BY <1>1 DEF Exist
  <2>2. CASE CreateSql(w) /\ t = job[w].id
    <3>1. /\ \A s \in DOMAIN server : s # job[w].id => server'[s] = server[s]
          /\ DOMAIN server' = DOMAIN server \cup {job[w].id} /\ r = job[w].ref
      BY <1>1, <2>2, CreateEffect
    <3>2. r # job[w].id
      BY <1>0, <2>2, <3>1, CreatesOwn
    <3>3. r \in DOMAIN server /\ server'[r] = server[r]
      BY <1>1, <3>1, <3>2
    <3>4. PICK s \in Named(job[w].says) : ~server[s].parted
      BY <1>1, <2>1, <2>2, <3>1, CreateEffect
    <3>5. s = r
      BY <1>0, <2>2, <3>1, <3>4, NameIsHome DEF Aim
    <3>6. QED
      BY <3>3, <3>4, <3>5
  <2>3. CASE ~(CreateSql(w) /\ t = job[w].id)
    <3>1. t \in DOMAIN server
      BY <2>3, ThereBefore
    <3>2. r = server[t].ref
      BY <1>1, <2>1, <2>3, <3>1, RefChanges DEF RefChange
    <3>3. CreateSql(w) => r # job[w].id
      BY <1>0, <3>1, <3>2, CreatesOwn
    <3>4. r \in DOMAIN server
      BY <1>1, <3>3, ThereBefore
    <3>5. ServerChange(w, r)
      BY <1>1, <3>3, <3>4, ServerChanges
    <3>6. QED
      BY <1>1, <3>1, <3>2, <3>4, <3>5 DEF RefsSound, ServerChange
  <2>4. QED
    BY <2>2, <2>3
<1>2. ASSUME NEW v \in Worker, job'[v].step = "publish", job'[v].kind = "alter",
             FkCol \in job'[v].drops, NEW t, t = job'[v].id, t \in DOMAIN server'
      PROVE  server'[t].ref = NoId
  <2>1. ~(Pick(w) /\ v = w)
    BY <1>2, PickStep
  <2>2. /\ Sent(v) /\ job[v].kind = "alter" /\ t = job[v].id
        /\ FkCol \in job[v].drops
    BY <1>2, <2>1, JobsKept, PickKeeps DEF Sent, GoesOn
  <2>3. CreateSql(w) => t # job[w].id
    BY <1>0, <2>2, CreatesOwn
  <2>4. t \in DOMAIN server
    BY <1>2, <2>3, ThereBefore
  <2>5. CASE job[v].step = "publish"
    <3>1. server[t].ref = NoId
      BY <2>2, <2>4, <2>5 DEF RefsSound
    <3>2. QED
      BY <1>2, <2>3, <2>4, <3>1, RefChanges DEF RefChange
  <2>6. CASE job[v].step # "publish"
    <3>1. v = w /\ ~Pick(w)
      BY <1>2, <2>1, <2>6, JobsKept, PickKeeps
    <3>2. ~Refused(w) /\ ~PublishAlter(w)
      <4>1. ~Refused(w)
        BY <1>2, <3>1 DEF Refused, TypeInv, Idle
      <4>2. ~PublishAlter(w)
        BY <2>6, <3>1 DEF PublishAlter, Delta, Publishes
      <4>3. QED
        BY <4>1, <4>2
    <3>3. AlterSql(w)
      BY <2>2, <3>1, <3>2, KindOfAct
    <3>4. QED
      BY <1>2, <2>2, <2>3, <2>4, <3>1, <3>3, RefChanges
  <2>7. QED
    BY <2>5, <2>6
<1>3. ASSUME NEW v \in Worker, job'[v] # Idle, job'[v].kind = "unpart"
      PROVE  job'[v].id # NoId
  <2>1. CASE Pick(w) /\ v = w
    <3>1. job'[w].id \in DOMAIN catalog
      BY <1>3, <2>1, PickStep DEF Chosen
    <3>2. QED
      BY <2>1, <3>1 DEF Exist
  <2>2. CASE ~(Pick(w) /\ v = w)
    <3>1. job[v] # Idle /\ job[v].kind = "unpart" /\ job'[v].id = job[v].id
      BY <1>3, <2>2, JobsKept, PickKeeps
    <3>2. QED
      BY <3>1 DEF RefsSound, Busy
  <2>3. QED
    BY <2>1, <2>2
<1>4. ASSUME NEW v \in Worker, job'[v] # Idle, job'[v].kind = "unpart",
             job'[v].step # "sql", NEW t \in DOMAIN server', NEW i, i = job'[v].id
      PROVE  server'[t].ref # i
  <2>1. ~(Pick(w) /\ v = w)
    BY <1>4, PickStep
  <2>2. job[v] # Idle /\ job[v].kind = "unpart" /\ i = job[v].id
    BY <1>4, <2>1, JobsKept, PickKeeps
  <2>3. i # NoId
    BY <1>3, <1>4
  <2>4. CASE CreateSql(w) /\ t = job[w].id
    <3>1. server'[t].ref = job[w].ref
      BY <2>4, CreateEffect
    <3>2. v \in Busy /\ w \in Busy
      BY <1>0, <2>2, <2>4 DEF Busy, Sent, Idle
    <3>3. QED
      BY <1>0, <2>2, <2>4, <3>1, <3>2 DEF Apart
  <2>5. CASE ~(CreateSql(w) /\ t = job[w].id)
    <3>1. t \in DOMAIN server
      BY <1>4, <2>5, ThereBefore
    <3>2. RefChange(w, t)
      BY <2>5, <3>1, RefChanges
    <3>3. CASE job[v].step # "sql"
      <4>1. server[t].ref # i
        BY <2>2, <3>1, <3>3 DEF RefsSound, Busy
      <4>2. QED
        BY <2>3, <3>2, <4>1 DEF RefChange
    <3>4. CASE job[v].step = "sql"
      <4>1. v = w /\ ~Pick(w)
        BY <1>4, <2>1, <3>4, JobsKept, PickKeeps
      <4>2. ~Refused(w) /\ ~PublishNoPartition(w)
        <5>1. ~Refused(w)
          BY <1>4, <4>1 DEF Refused, TypeInv
        <5>2. ~PublishNoPartition(w)
          BY <3>4, <4>1 DEF PublishNoPartition, Delta, Publishes
        <5>3. QED
          BY <5>1, <5>2
      <4>3. DropPartitionSql(w)
        BY <2>2, <3>4, <4>1, <4>2, KindOfAct DEF Sent
      <4>4. CASE Postgres
        <5>1. server'[t].ref = IF server[t].ref = i THEN NoId ELSE server[t].ref
          BY <2>2, <2>5, <3>1, <4>1, <4>3, <4>4, RefChanges
        <5>2. QED
          BY <2>3, <5>1
      <4>5. CASE ~Postgres
        <5>1. PICK s \in Named(job[w].says) : server[s].ranges # {}
          BY <4>3, <4>5, NoRangeEffect
        <5>2. s = i /\ i \in DOMAIN server
          BY <2>2, <3>4, <4>1, <5>1, NameIsHome DEF Sent, Aim, Named
        <5>3. server[i].parted
          BY <5>1, <5>2 DEF RangesSound
        <5>4. server[t].ref # i
          BY <3>1, <4>5, <5>2, <5>3 DEF RefsSound
        <5>5. QED
          BY <2>3, <3>2, <5>4 DEF RefChange
      <4>6. QED
        BY <4>4, <4>5
    <3>5. QED
      BY <3>3, <3>4
  <2>6. QED
    BY <2>4, <2>5
<1>5. Postgres' = Postgres
  BY ConfigStays
<1>6. ASSUME ~Postgres PROVE \A t \in DOMAIN server' :
        server'[t].ref \in DOMAIN server' => ~server'[server'[t].ref].parted
  BY <1>1, <1>6
<1>7. \A v \in Worker :
        /\ job'[v].step = "publish" /\ job'[v].kind = "alter" /\ FkCol \in job'[v].drops
        /\ job'[v].id \in DOMAIN server'
        => server'[job'[v].id].ref = NoId
  BY <1>2
<1>8. \A v \in Busy' : job'[v].kind = "unpart" =>
        /\ job'[v].id # NoId
        /\ job'[v].step # "sql" =>
             \A t \in DOMAIN server' : server'[t].ref # job'[v].id
  BY <1>3, <1>4 DEF Busy, Idle
<1>9. QED
  BY <1>5, <1>6, <1>7, <1>8 DEF RefsSound

\* The reference that counts was there before the step, and so was its target.
LEMMA RefsThere ==
  ASSUME TypeInv, ServerType, Fresh, NamesUnique, Exist, NEW w \in Worker, Act(w),
         NEW r, \/ \E t \in DOMAIN catalog : catalog[t].ref = r
                \/ \E t \in DOMAIN server : server[t].ref = r
  PROVE  /\ r \in DOMAIN catalog' => r \in DOMAIN catalog
         /\ r \in DOMAIN server' => r \in DOMAIN server
<1>1. Sent(w) /\ job[w].kind = "create" => r # job[w].id
  BY CreatesOwn
<1>2. PublishCreate(w) => r # job[w].id
  <2>1. PublishCreate(w) => Sent(w) /\ job[w].kind = "create"
    BY CreatePublish DEF Sent, CreateJob
  <2>2. QED
    BY <1>1, <2>1
<1>3. CreateSql(w) => r # job[w].id
  <2>1. CreateSql(w) => Sent(w) /\ job[w].kind = "create"
    BY CreateEffect DEF Sent, CreateJob
  <2>2. QED
    BY <1>1, <2>1
<1>4. QED
  BY <1>2, <1>3, ThereBefore

\* A worker that is going to clear a reference, clears it or is still going to.
LEMMA ClearsStill ==
  ASSUME TypeInv, NEW w \in Worker, Act(w), NEW t \in DOMAIN catalog,
         t \in DOMAIN catalog', PublishCreate(w) => t # job[w].id,
         NEW r, r = catalog[t].ref, r # NoId, catalog'[t].ref = r,
         NEW v \in Worker, Clears(v, t, r)
  PROVE  Clears(v, t, r)'
<1>1. CASE v # w
  <2>1. job'[v] = job[v]
    BY <1>1, JobsKept, PickKeeps
  <2>2. QED
    BY <2>1 DEF Clears
<1>2. CASE v = w
  <2>1. CASE /\ job[w].step = "publish" /\ job[w].kind = "alter" /\ job[w].id = t
             /\ FkCol \in job[w].drops
    <3>1. Sent(w) /\ ~Refused(w) /\ ~AlterSql(w)
      BY <2>1, StepOf DEF Sent, SqlOf
    <3>2. PublishAlter(w) /\ DeltaOf(w)
      BY <2>1, <3>1, KindOfAct DEF DeltaOf
    <3>3. catalog'[t].ref = NoId
      BY <2>1, <3>2, CatalogRefChanges
    <3>4. QED
      BY <3>3
  <2>2. CASE job[w].step = "publish" /\ job[w].kind = "unpart" /\ job[w].id = r
    <3>1. Sent(w) /\ ~Refused(w) /\ ~DropPartitionSql(w)
      BY <2>2, StepOf DEF Sent, SqlOf
    <3>2. PublishNoPartition(w)
      BY <2>2, <3>1, KindOfAct
    <3>3. job'[w].step = "sweep" /\ job'[w].id = job[w].id
      <4>1. Goes(w, "sweep") /\ job[w] \in NoRangeJob
        BY <2>2, <3>2, JobByStep DEF PublishNoPartition, TypeInv
      <4>2. QED
        BY <4>1 DEF Goes, TypeInv, NoRangeJob
    <3>4. QED
      BY <1>2, <2>2, <3>3 DEF Clears
  <2>3. CASE job[w].step = "sweep" /\ job[w].id = r
    <3>1. Sweep(w)
      BY <2>3, StepOf
    <3>2. job'[w].step = "unref" /\ job'[w].id = r /\ job'[w].todo = ToSweep(r)
      BY <2>3, <3>1, SweepStep
    <3>3. t \in ToSweep(r)
      BY DEF ToSweep
    <3>4. QED
      BY <1>2, <3>2, <3>3 DEF Clears
  <2>4. CASE job[w].step = "unref" /\ job[w].id = r /\ t \in job[w].todo
    <3>1. Unref(w)
      BY <2>4, StepOf
    <3>2. PICK s \in job[w].todo :
            /\ job'[w].step = "unref" /\ job'[w].id = job[w].id
            /\ job'[w].todo = job[w].todo \ {s}
            /\ \A u \in DOMAIN catalog :
                 catalog'[u].ref = IF u = s /\ catalog[u].ref = job[w].id
                                   THEN NoId ELSE catalog[u].ref
      BY <2>4, <3>1, UnrefStep
    <3>3. s # t
      BY <2>4, <3>2
    <3>4. QED
      BY <1>2, <2>4, <3>2, <3>3 DEF Clears
  <2>5. QED
    BY <1>2, <2>1, <2>2, <2>3, <2>4 DEF Clears
<1>3. QED
  BY <1>1, <1>2

LEMMA RefsAgreeKept ==
  ASSUME TypeInv, ServerType, Fresh, NamesUnique, OwnersUnique, Exist, Exist',
         CreatesAgree, RefsSound, RefsAgree, NEW w \in Worker, Act(w)
  PROVE  RefsAgree'
<1> SUFFICES ASSUME NEW t \in DOMAIN catalog', t \in DOMAIN server'
             PROVE  RefAgrees(t)'
  BY DEF RefsAgree, Both
<1>0. NoId \notin DOMAIN catalog' /\ NoId \notin DOMAIN server'
  BY DEF Exist
<1>1. CASE PublishCreate(w) /\ t = job[w].id
  <2>1. /\ server' = server /\ AsMade(job[w], server[t])
        /\ catalog'[t].ref = job[w].ref
    BY <1>1, JustPublished
  <2>2. /\ server[t].ref \in {job[w].ref, NoId}
        /\ job[w].ref \in DOMAIN server => server[t].ref = job[w].ref
    BY <2>1 DEF AsMade
  <2>3. QED
    BY <1>0, <2>1, <2>2 DEF RefAgrees, Both
<1>2. CASE /\ t \in DOMAIN catalog /\ t \in DOMAIN server
           /\ CreateSql(w) => t # job[w].id
           /\ PublishCreate(w) => t # job[w].id
  <2>1. RefAgrees(t)
    BY <1>2 DEF RefsAgree, Both
  <2>2. RefChange(w, t) /\ CatalogRefChange(w, t)
    BY <1>2, RefChanges, CatalogRefChanges
  <2>3. ASSUME NEW r, r = server'[t].ref, r \in DOMAIN server'
        PROVE  catalog'[t].ref = r
    <3>1. r # NoId /\ server[t].ref = r
      BY <1>0, <2>2, <2>3 DEF RefChange
    <3>2. r \in DOMAIN server
      BY <1>2, <2>3, <3>1, RefsThere
    <3>3. catalog[t].ref = r
      BY <2>1, <3>1, <3>2 DEF RefAgrees
    <3>4. CASE Recheck(w) /\ TargetGone(catalog[t].ref)
      <4>1. r \notin DOMAIN catalog
        BY <3>3, <3>4 DEF TargetGone
      <4>2. PICK v \in Pending("create", r) : TRUE
        BY <3>2, <4>1 DEF Exist
      <4>3. v \in Worker /\ Sent(v) /\ job[v].kind = "create" /\ job[v].id = r
        BY DEF Pending, Sent
      <4>4. QED
        BY <1>2, <3>3, <4>3, CreatesOwn
    <3>5. CASE Unref(w) /\ catalog[t].ref = job[w].id
      <4>1. job[w] \in UnrefJob
        BY <3>5, UnrefStep
      <4>2. w \in Busy /\ job[w].kind \in {"drop", "unpart"} /\ job[w].step = "unref"
        BY <4>1 DEF UnrefJob, Busy, Idle
      <4>3. job[w].kind # "drop"
        BY <3>2, <3>3, <3>5, <4>2 DEF Exist
      <4>4. server[t].ref # job[w].id
        BY <1>2, <4>2, <4>3 DEF RefsSound
      <4>5. QED
        BY <3>1, <3>3, <3>5, <4>4
    <3>6. CASE PublishAlter(w) /\ DeltaOf(w) /\ t = job[w].id /\ FkCol \in job[w].drops
      <4>1. job[w].step = "publish" /\ job[w].kind = "alter"
        BY <3>6 DEF PublishAlter, Delta, Publishes
      <4>2. server[t].ref = NoId
        BY <1>2, <3>6, <4>1 DEF RefsSound
      <4>3. QED
        BY <3>1, <4>2
    <3>7. QED
      BY <2>2, <3>3, <3>4, <3>5, <3>6 DEF CatalogRefChange
  <2>4. ASSUME NEW r, r = catalog'[t].ref, r \in DOMAIN catalog', r \in DOMAIN server'
        PROVE  server'[t].ref = r \/ \E v \in Worker : Clears(v, t, r)'
    <3>1. r # NoId /\ catalog[t].ref = r
      BY <1>0, <2>2, <2>4 DEF CatalogRefChange
    <3>2. r \in DOMAIN catalog /\ r \in DOMAIN server
      BY <1>2, <2>4, <3>1, RefsThere
    <3>3. server[t].ref = r \/ \E v \in Worker : Clears(v, t, r)
      BY <2>1, <3>1, <3>2 DEF RefAgrees, Both
    <3>4. CASE \E v \in Worker : Clears(v, t, r)
      <4>1. PICK v \in Worker : Clears(v, t, r)
        BY <3>4
      <4>2. Clears(v, t, r)'
        BY <1>2, <2>4, <3>1, <4>1, ClearsStill
      <4>3. QED
        BY <4>2
    <3>5. CASE server[t].ref = r
      <4>1. CASE server'[t].ref = server[t].ref
        BY <3>5, <4>1
      <4>2. CASE DropSql(w) /\ r = job[w].id
        <5>1. ~CreateSql(w)
          BY <4>2 DEF DropSql, CreateSql, Sends
        <5>2. r \notin DOMAIN server'
          BY <4>2, <5>1, ServerDomain
        <5>3. QED
          BY <2>4, <5>2
      <4>3. CASE DropPartitionSql(w) /\ r = job[w].id
        <5>1. Executed(w, "unpart")
          BY <4>3, NoRangeEffect
        <5>2. /\ job'[w].step = "publish" /\ job'[w].kind = "unpart"
              /\ job'[w].id = r
          BY <4>3, <5>1 DEF Executed, GoesOn
        <5>3. Clears(w, t, r)'
          BY <5>2 DEF Clears
        <5>4. QED
          BY <5>3
      <4>4. CASE AlterSql(w) /\ t = job[w].id /\ FkCol \in job[w].drops
        <5>1. Executed(w, "alter")
          BY <4>4, AlterEffect
        <5>2. /\ job'[w].step = "publish" /\ job'[w].kind = "alter"
              /\ job'[w].id = t /\ FkCol \in job'[w].drops
          BY <4>4, <5>1 DEF Executed, GoesOn
        <5>3. Clears(w, t, r)'
          BY <5>2 DEF Clears
        <5>4. QED
          BY <5>3
      <4>5. QED
        BY <2>2, <3>5, <4>1, <4>2, <4>3, <4>4 DEF RefChange
    <3>6. QED
      BY <3>3, <3>4, <3>5
  <2>5. \A v \in Worker : Clears(v, t, catalog[t].ref)' <=>
          \/ /\ job'[v].step = "publish" /\ job'[v].kind = "alter" /\ job'[v].id = t
             /\ FkCol \in job'[v].drops
          \/ /\ job'[v].step = "publish" /\ job'[v].kind = "unpart"
             /\ job'[v].id = catalog'[t].ref
          \/ job'[v].step = "sweep" /\ job'[v].id = catalog'[t].ref
          \/ /\ job'[v].step = "unref" /\ job'[v].id = catalog'[t].ref
             /\ t \in job'[v].todo
    BY DEF Clears
  <2>6. catalog'[t].ref \in Both' =>
          \/ server'[t].ref = catalog'[t].ref
          \/ \E v \in Worker : Clears(v, t, catalog[t].ref)'
    <3> SUFFICES ASSUME NEW r, r = catalog'[t].ref, r \in Both'
                 PROVE  \/ server'[t].ref = r
                        \/ \E v \in Worker : Clears(v, t, catalog[t].ref)'
      OBVIOUS
    <3>1. server'[t].ref = r \/ \E v \in Worker : Clears(v, t, r)'
      BY <2>4 DEF Both
    <3>2. QED
      BY <2>5, <3>1 DEF Clears
  <2>7. server'[t].ref \in DOMAIN server' => catalog'[t].ref = server'[t].ref
    BY <2>3
  <2>8. QED
    BY <2>6, <2>7 DEF RefAgrees
<1>3. QED
  BY <1>1, <1>2, BothCases

-----------------------------------------------------------------------------
(* The catalog and the server, whatever raced.                               *)

Known == /\ ServerType /\ Fresh /\ NamesUnique /\ OwnersUnique /\ Exist
         /\ DropsApart /\ IndexesSound

\* And while none of the races of clashes took place, but for "columns".
Agree == /\ Apart /\ IndexesApart /\ CreatesAgree /\ NamesAgree /\ ColumnsAgree
         /\ IndexesAgree /\ RangesSound /\ RangesAgree /\ RefsSound /\ RefsAgree

DriftInv == Known /\ (Clean => Agree)

LEMMA InitDrift == Init => DriftInv
<1> SUFFICES ASSUME Init PROVE DriftInv
  OBVIOUS
<1>1. /\ config \in Config /\ catalog = << >> /\ server = << >> /\ drawn = FirstDraw
      /\ job = [w \in Worker |-> Idle]
  BY DdlAssumption DEF Init
<1>2. FirstDraw \in Nat /\ 0 \in 0 .. FirstDraw
  BY <1>1, ConfigTyped
<1>3. DOMAIN catalog = {} /\ DOMAIN server = {}
  BY <1>1
<1>4. \A w \in Worker : job[w] = Idle /\ ~Sent(w) /\ job[w].step = "idle"
  BY <1>1 DEF Sent, Idle
<1>5. Busy = {} /\ Creating = {}
  BY <1>4 DEF Busy, Creating
<1>6. ServerType
  BY <1>1 DEF ServerType
<1>7. Fresh
  <2>1. \A w \in Worker : \A n : ~Drew(w, n) /\ ~Asks(w, n)
    BY <1>4 DEF Drew, Asks
  <2>2. \A n : Public(n) => n \in 0 .. FirstDraw
    BY <1>3, <2>1 DEF Public, InCatalog
  <2>3. QED
    BY <1>1, <1>2, <2>1, <2>2 DEF Fresh
<1>8. NamesUnique
  <2>1. \A n, t : Bears(n, t) => n = NoId /\ t = NoId
    BY <1>3, <1>4 DEF Bears, NamedIn, NamesIt
  <2>2. NoId \in 0 .. drawn
    BY <1>1, <1>2 DEF NoId
  <2>3. QED
    BY <2>1, <2>2 DEF NamesUnique
<1>9. OwnersUnique
  BY <1>3, <1>4 DEF OwnersUnique, Owner, IndexedIn, IndexesIt
<1>10. Exist
  BY <1>3, <1>5 DEF Exist
<1>11. DropsApart /\ IndexesSound
  BY <1>3, <1>4 DEF DropsApart, IndexesSound
<1>12. Apart /\ IndexesApart /\ CreatesAgree
  BY <1>4, <1>5 DEF Apart, IndexesApart, CreatesAgree
<1>13. NamesAgree /\ ColumnsAgree /\ IndexesAgree /\ RangesAgree /\ RefsAgree
  BY <1>3 DEF NamesAgree, ColumnsAgree, IndexesAgree, RangesAgree, RefsAgree, Both
<1>14. RangesSound
  BY <1>3, <1>4 DEF RangesSound
<1>15. RefsSound
  BY <1>3, <1>4, <1>5 DEF RefsSound
<1>16. QED
  BY <1>6, <1>7, <1>8, <1>9, <1>10, <1>11, <1>12, <1>13, <1>14, <1>15
     DEF DriftInv, Known, Agree

LEMMA StutterDrift == DriftInv /\ UNCHANGED vars => DriftInv'
<1> SUFFICES ASSUME DriftInv, UNCHANGED vars PROVE DriftInv'
  OBVIOUS
<1>1. /\ config' = config /\ catalog' = catalog /\ server' = server /\ drawn' = drawn
      /\ job' = job /\ clashes' = clashes
  BY DEF vars
<1>2. /\ Postgres' = Postgres /\ NewCols' = NewCols /\ FirstDraw' = FirstDraw
      /\ Busy' = Busy /\ Creating' = Creating /\ Both' = Both /\ Clean' = Clean
      /\ \A w : Sent(w)' = Sent(w)
      /\ \A j : NewIndexes(j)' = NewIndexes(j)
      /\ \A kind, t : Pending(kind, t)' = Pending(kind, t)
  BY <1>1 DEF Postgres, NewCols, FirstDraw, MaxParts, Busy, Creating, Both, Clean, Sent,
     NewIndexes, Pending
<1>3. \A t : /\ Dropped(t)' = Dropped(t) /\ Added(t)' = Added(t)
             /\ Widened(t)' = Widened(t) /\ Indexed(t)' = Indexed(t)
             /\ Unindexed(t)' = Unindexed(t) /\ Parted(t)' = Parted(t)
             /\ Unparted(t)' = Unparted(t)
  BY <1>1, <1>2 DEF Dropped, Added, Widened, Indexed, Unindexed, Parted, Unparted
<1>4. ServerType'
  BY <1>1 DEF DriftInv, Known, ServerType
<1>5. Fresh'
  BY <1>1, <1>2 DEF DriftInv, Known, Fresh, Drew, Public, InCatalog, Asks
<1>6. NamesUnique' /\ OwnersUnique'
  <2>1. \A n, t : Bears(n, t)' = Bears(n, t)
    BY <1>1, <1>2 DEF Bears, NamedIn, NamesIt
  <2>2. \A n, t : Owner(n, t)' = Owner(n, t)
    BY <1>1, <1>2 DEF Owner, IndexedIn, IndexesIt
  <2>3. NamesUnique'
    BY <1>1, <2>1 DEF DriftInv, Known, NamesUnique
  <2>4. OwnersUnique'
    BY <1>1, <1>2, <2>2 DEF DriftInv, Known, OwnersUnique
  <2>5. QED
    BY <2>3, <2>4
<1>7. Exist' /\ DropsApart' /\ IndexesSound'
  BY <1>1, <1>2 DEF DriftInv, Known, Exist, DropsApart, IndexesSound
<1>8. ASSUME Clean' PROVE Agree'
  <2>1. Agree
    BY <1>2, <1>8 DEF DriftInv
  <2>2. Apart' /\ IndexesApart' /\ CreatesAgree'
    BY <1>1, <1>2, <2>1 DEF Agree, Apart, IndexesApart, CreatesAgree, AsMade, Bases
  <2>3. NamesAgree' /\ ColumnsAgree'
    BY <1>1, <1>2, <1>3, <2>1 DEF Agree, NamesAgree, NameAgrees, ColumnsAgree, ColsAgree
  <2>4. IndexesAgree'
    <3> SUFFICES ASSUME NEW t \in Both PROVE IdxAgrees(t)'
      BY <1>2 DEF IndexesAgree
    <3>1. IdxAgrees(t)
      BY <2>1 DEF Agree, IndexesAgree
    <3>2. /\ Dropped(t)' = Dropped(t) /\ Unindexed(t)' = Unindexed(t)
          /\ Indexed(t)' = Indexed(t)
      BY <1>3
    <3>3. Cut(catalog[t].idx, Dropped(t))' = Cut(catalog[t].idx, Dropped(t))
      BY <1>1, <1>2, <3>2 DEF Cut
    <3>4. Minus(Cut(catalog[t].idx, Dropped(t)), Unindexed(t))' =
            Minus(Cut(catalog[t].idx, Dropped(t)), Unindexed(t))
      BY <3>2, <3>3 DEF Minus
    <3>5. QED
      BY <1>1, <3>1, <3>2, <3>4 DEF IdxAgrees
  <2>5. RangesSound' /\ RangesAgree'
    BY <1>1, <1>2, <1>3, <2>1 DEF Agree, RangesSound, RangesAgree, RangeAgrees, Bases
  <2>6. RefsSound' /\ RefsAgree'
    BY <1>1, <1>2, <2>1 DEF Agree, RefsSound, RefsAgree, RefAgrees, Clears
  <2>7. QED
    BY <2>2, <2>3, <2>4, <2>5, <2>6 DEF Agree
<1>9. QED
  BY <1>4, <1>5, <1>6, <1>7, <1>8 DEF DriftInv, Known

LEMMA ActDrift ==
  ASSUME TypeInv, DriftInv, NEW w \in Worker, Act(w)
  PROVE  DriftInv'
<1>1. /\ ServerType /\ Fresh /\ NamesUnique /\ OwnersUnique /\ Exist
      /\ DropsApart /\ IndexesSound
  BY DEF DriftInv, Known
<1>2. ServerType'
  BY <1>1, ServerDomain
<1>3. Fresh'
  BY <1>1, FreshKept
<1>4. NamesUnique' /\ OwnersUnique'
  BY <1>1, NamesUniqueKept, OwnersUniqueKept
<1>5. Exist'
  BY <1>1, ExistKept
<1>6. DropsApart' /\ IndexesSound'
  BY <1>1, DropsApartKept, IndexesSoundKept
<1>7. ASSUME Clean' PROVE Agree'
  <2>1. clashes \subseteq clashes'
    BY NobodyNew, PickStep
  <2>2. Agree
    BY <1>7, <2>1 DEF DriftInv, Clean
  <2>3. /\ Apart /\ IndexesApart /\ CreatesAgree /\ NamesAgree /\ ColumnsAgree
        /\ IndexesAgree /\ RangesSound /\ RangesAgree /\ RefsSound /\ RefsAgree
    BY <2>2 DEF Agree
  <2>4. Apart' /\ IndexesApart'
    BY <1>7, <2>3, ApartKept, IndexesApartKept
  <2>5. CreatesAgree'
    BY <1>1, <2>3, CreatesAgreeKept
  <2>6. NamesAgree'
    BY <1>1, <2>3, NamesAgreeKept
  <2>7. ColumnsAgree'
    BY <1>1, <1>7, <2>3, ColumnsAgreeKept
  <2>8. IndexesAgree'
    BY <1>1, <1>7, <2>3, IndexesAgreeKept
  <2>9. RangesSound'
    BY <1>1, <1>7, <2>3, RangesSoundKept
  <2>10. RangesAgree'
    BY <1>1, <1>7, <2>3, RangesAgreeKept
  <2>11. RefsSound'
    BY <1>1, <1>5, <2>3, RefsSoundKept
  <2>12. RefsAgree'
    BY <1>1, <1>5, <2>3, RefsAgreeKept
  <2>13. QED
    BY <2>4, <2>5, <2>6, <2>7, <2>8, <2>9, <2>10, <2>11, <2>12 DEF Agree
<1>8. QED
  BY <1>2, <1>3, <1>4, <1>5, <1>6, <1>7 DEF DriftInv, Known

LEMMA AlwaysDrift == Spec => []DriftInv
<1>1. TypeInv /\ DriftInv /\ [Next]_vars => DriftInv'
  <2> SUFFICES ASSUME TypeInv, DriftInv, [Next]_vars PROVE DriftInv'
    OBVIOUS
  <2>1. CASE UNCHANGED vars \/ Stop
    BY <2>1, StutterDrift DEF Stop
  <2>2. ASSUME NEW w \in Worker, Act(w) PROVE DriftInv'
    BY <2>2, ActDrift
  <2>3. QED
    BY <2>1, <2>2 DEF Next
<1>2. Inv => TypeInv
  BY DEF Inv
<1>3. QED
  BY <1>1, <1>2, InitDrift, AlwaysInv, PTL DEF Spec

-----------------------------------------------------------------------------
(* What the oracle compares at rest: nothing is pending any more.            *)

LEMMA NothingPending ==
  ASSUME AtRest, NEW t
  PROVE  /\ \A kind : Pending(kind, t) = {}
         /\ Dropped(t) = {} /\ Added(t) = {} /\ Widened(t) = {}
         /\ Indexed(t) = {} /\ Unindexed(t) = {} /\ Parted(t) = {} /\ Unparted(t) = {}
<1>1. \A w \in Worker : job[w] = Idle /\ job[w].step = "idle"
  BY DEF AtRest, Busy, Idle
<1>2. \A kind : Pending(kind, t) = {}
  BY <1>1 DEF Pending
<1>3. QED
  BY <1>2 DEF Dropped, Added, Widened, Indexed, Unindexed, Parted, Unparted

\* What the populator reads of a table.
LEMMA DiscoveredIs ==
  ASSUME ServerType, NEW t \in DOMAIN server
  PROVE  /\ DOMAIN Discovered = DOMAIN server
         /\ Discovered[t].name = server[t].name /\ Discovered[t].cols = server[t].cols
         /\ Discovered[t].wide = server[t].wide /\ Discovered[t].idx = server[t].idx
         /\ Discovered[t].parted = (server[t].ranges # {})
         /\ Discovered[t].ranges = Bases(server[t])
         /\ Discovered[t].ref = IF server[t].ref \in DOMAIN server THEN server[t].ref
                                ELSE NoId
<1> DEFINE r == server[t]
           ref == IF r.ref \in DOMAIN server THEN r.ref ELSE NoId
           parted == r.ranges # {}
           ranges == {p.base : p \in r.ranges}
<1>1. r \in ServerRec
  BY DEF ServerType
<1>2. DOMAIN Discovered = DOMAIN server
      /\ Discovered[t] = [r EXCEPT !.ref = ref, !.parted = parted, !.ranges = ranges]
  BY Zenon DEF Discovered
<1> HIDE DEF ref, parted, ranges, r
<1>3. \A n : n = [r EXCEPT !.ref = ref, !.parted = parted, !.ranges = ranges] =>
        /\ n.name = r.name /\ n.cols = r.cols /\ n.wide = r.wide /\ n.idx = r.idx
        /\ n.ref = ref /\ n.parted = parted /\ n.ranges = ranges
  BY <1>1 DEF ServerRec
<1>4. ranges = Bases(r)
  BY DEF ranges, Bases
<1>5. QED
  BY <1>2, <1>3, <1>4 DEF ref, parted, r

-----------------------------------------------------------------------------
(* At rest the two sides are the same.                                       *)

LEMMA SameTablesThen ==
  ASSUME AtRest, Exist
  PROVE  DOMAIN catalog = DOMAIN server
BY NothingPending DEF Exist

\* The records of a table that is at rest, field by field.
LEMMA SameRecords ==
  ASSUME TypeInv, RefsCovered, ServerType, Exist, IndexesSound, Agree, AtRest,
         NEW t \in DOMAIN server
  PROVE  /\ t \in DOMAIN catalog
         /\ catalog[t].name = server[t].name /\ catalog[t].cols = server[t].cols
         /\ catalog[t].wide = server[t].wide /\ catalog[t].idx = server[t].idx
         /\ catalog[t].parted <=> server[t].ranges # {}
         /\ catalog[t].ranges = Bases(server[t])
         /\ catalog[t].ref = IF server[t].ref \in DOMAIN server THEN server[t].ref
                             ELSE NoId
<1>1. t \in DOMAIN catalog /\ DOMAIN catalog = DOMAIN server /\ t \in Both
  BY SameTablesThen DEF Both
<1>2. /\ Pending("rename", t) = {}
      /\ Dropped(t) = {} /\ Added(t) = {} /\ Widened(t) = {}
      /\ Indexed(t) = {} /\ Unindexed(t) = {} /\ Parted(t) = {} /\ Unparted(t) = {}
  BY NothingPending
<1>3. catalog[t].name = server[t].name
  BY <1>1, <1>2 DEF Agree, NamesAgree, NameAgrees
<1>4. catalog[t].cols = server[t].cols /\ catalog[t].wide = server[t].wide
  BY <1>1, <1>2 DEF Agree, ColumnsAgree, ColsAgree
<1>5. catalog[t].idx = server[t].idx
  <2>1. catalog[t].idx \in SUBSET Index
    BY <1>1 DEF TypeInv, CatalogType, CatalogRec
  <2>2. \A x \in catalog[t].idx : x.on \cap {} = {} /\ x.on # {}
    BY <1>1 DEF IndexesSound
  <2>3. Cut(catalog[t].idx, {}) = catalog[t].idx
    BY <2>1, <2>2, CutNothing, Zenon
  <2>4. server[t].idx = Minus(catalog[t].idx, {}) \cup {}
    BY <1>1, <1>2, <2>3 DEF Agree, IndexesAgree, IdxAgrees
  <2>5. QED
    BY <2>4 DEF Minus
<1>6. Bases(server[t]) = catalog[t].ranges /\ server[t].parted = catalog[t].parted
  BY <1>1, <1>2 DEF Agree, RangesAgree, RangeAgrees
<1>7. server[t].parted <=> server[t].ranges # {}
  BY DEF Agree, RangesSound
<1>8. \A w \in Worker : job[w].step = "idle"
  BY DEF AtRest, Busy, Idle
<1>9. /\ server[t].ref \in DOMAIN server => catalog[t].ref = server[t].ref
      /\ catalog[t].ref \in DOMAIN server => server[t].ref = catalog[t].ref
  BY <1>1, <1>8 DEF Agree, RefsAgree, RefAgrees, Clears, Both
<1>10. catalog[t].ref \in DOMAIN server \cup {NoId}
  BY <1>1, <1>8 DEF RefsCovered, Handles
<1>11. QED
  BY <1>1, <1>3, <1>4, <1>5, <1>6, <1>7, <1>9, <1>10

LEMMA NormalizedSame ==
  ASSUME TypeInv, RefsCovered, ServerType, Exist, IndexesSound, Agree, AtRest
  PROVE  Valid
<1>1. PICK D : D = Discovered
  OBVIOUS
<1>2. DOMAIN D = DOMAIN server /\ DOMAIN catalog = DOMAIN server
  BY <1>1, SameTablesThen, Zenon DEF Discovered
<1>3. ASSUME NEW t \in DOMAIN server
      PROVE  /\ D[t].name = catalog[t].name /\ D[t].cols = catalog[t].cols
             /\ D[t].wide = catalog[t].wide /\ D[t].idx = catalog[t].idx
             /\ D[t].parted = catalog[t].parted
             /\ D[t].ranges = catalog[t].ranges /\ D[t].ref = catalog[t].ref
  <2>1. catalog[t].parted \in BOOLEAN
    BY <1>2 DEF TypeInv, CatalogType, CatalogRec
  <2>2. catalog[t].parted = (server[t].ranges # {})
    BY <2>1, SameRecords
  <2>3. QED
    BY <1>1, <2>2, DiscoveredIs, SameRecords
<1>4. ASSUME NEW t \in DOMAIN server
      PROVE  Target(D, D[t]) = Target(catalog, catalog[t])
  BY <1>2, <1>3 DEF Target
<1> DEFINE Norm(tables, t) ==
             [name |-> tables[t].name, cols |-> tables[t].cols,
              wide |-> tables[t].wide, target |-> Target(tables, tables[t]),
              idx |-> tables[t].idx, parted |-> tables[t].parted,
              ranges |-> tables[t].ranges]
<1>5. ASSUME NEW t \in DOMAIN server PROVE Norm(D, t) = Norm(catalog, t)
  BY <1>3, <1>4
<1>6. /\ Normalize(catalog) = {Norm(catalog, t) : t \in DOMAIN catalog}
      /\ Normalize(D) = {Norm(D, t) : t \in DOMAIN D}
  BY Zenon DEF Normalize
<1> HIDE DEF Norm
<1>7. {Norm(catalog, t) : t \in DOMAIN catalog} = {Norm(D, t) : t \in DOMAIN D}
  BY <1>2, <1>5
<1>8. QED
  BY <1>1, <1>6, <1>7 DEF Valid

\* SameTablesAtRest: whatever raced or was left half done, once all workers are
\* done the catalog holds the tables of the server and no others, each under its
\* id: what CreateTable and DropTable publish by id (ddl.cpp) is what their SQL
\* did by name, however often the tables were renamed in between.
SameTables == AtRest => DOMAIN catalog = DOMAIN server

THEOREM SameTablesAtRest == Spec => []SameTables
<1>1. DriftInv => SameTables
  BY SameTablesThen DEF DriftInv, Known, SameTables
<1>2. QED
  BY <1>1, AlwaysDrift, PTL

\* DriftOnlyByClashes: whenever the workers are at rest Worker::validate_metadata
\* accepts, on both server families, for any number of workers and any limits,
\* unless one of the races NoDriftWithoutClash names took place or a statement
\* was left half done: the deltas ddl.cpp publishes merge in every other order.
THEOREM DriftOnlyByClashes == Spec => []NoDriftWithoutClash
<1>1. Inv /\ DriftInv => NoDriftWithoutClash
  BY NormalizedSame DEF Inv, DriftInv, Known, Clean, NoDriftWithoutClash
<1>2. QED
  BY <1>1, AlwaysInv, AlwaysDrift, PTL
=============================================================================

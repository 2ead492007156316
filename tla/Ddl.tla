-------------------------------- MODULE Ddl ---------------------------------
(***************************************************************************)
(* The DDL actions (core/src/action/ddl.cpp) of several workers in         *)
(* autocommit, against the server and the shared catalog, and the drift    *)
(* oracle (Worker::validate_metadata) that compares the two.               *)
(*                                                                         *)
(* An action decides from a snapshot, sends SQL that names tables BY NAME  *)
(* and publishes a delta BY ID; the other workers run between any two of   *)
(* these steps.  The catalog is the map of records Catalog.tla implements. *)
(* A statement may always be refused, without effect; lost connections and *)
(* transactions are TransactionAction's subject.                           *)
(*                                                                         *)
(* Ids, names, columns, indexes and range bases are numbers.  The program  *)
(* draws the new ones at random from ranges of 10^6 and more; here a draw  *)
(* never repeats.  Column 0 is the primary key, column 1 the only one that *)
(* may be a foreign key.  Storage engines are left out: neither the        *)
(* actions nor the populator record them.                                  *)
(***************************************************************************)
EXTENDS Naturals, FiniteSets, Functions

CONSTANTS Worker,
          Configs      \* the configurations of a workload, see Config

\* What a workload is set up with: PostgreSQL or the MySQL family, how many
\* workers, the actions in their registry, the columns of a new table without
\* its primary key, and the limits of DdlConfig (no script can set that of
\* partitions to nothing); and maxDraws, the bound on the numbers that are drawn.
Config == [postgres : BOOLEAN, workers : 1 .. Cardinality(Worker),
           kinds : SUBSET STRING, newCols : Nat \ {0}, maxClauses : Nat,
           minTables : Nat, maxTables : Nat, minParts : Nat \ {0},
           maxParts : Nat, maxDraws : Nat]

ASSUME DdlAssumption == IsFiniteSet(Worker) /\ Configs \subseteq Config

VARIABLES config,      \* one of Configs
          catalog,     \* id -> record
          server,      \* the table created under that id -> record
          drawn,       \* the last number drawn
          job,         \* worker -> the action it is in
          clashes      \* history: the races and half-done statements that are
                       \* known to cause drift

vars == << config, catalog, server, drawn, job, clashes >>

Postgres   == config.postgres
Workers    == config.workers
Kinds      == config.kinds
NewCols    == config.newCols
MaxClauses == config.maxClauses
MinTables  == config.minTables
MaxTables  == config.maxTables
MinParts   == config.minParts
MaxParts   == config.maxParts
MaxDraws   == config.maxDraws

NoId  == 0
PkCol == 0
FkCol == 1

Index == [no : Nat, on : SUBSET Nat]

\* wide: the columns an ALTER made VARCHAR; ref: what column FkCol references.
CatalogRec == [name : Nat, cols : SUBSET Nat, wide : SUBSET Nat, ref : Nat,
               idx : SUBSET Index, parted : BOOLEAN, ranges : SUBSET Nat]

\* PostgreSQL's partition is a table <name>_p<base>, which keeps the name
\* the parent had when it was added.
ServerRec == [name : Nat, cols : SUBSET Nat, wide : SUBSET Nat, ref : Nat,
              idx : SUBSET Index, parted : BOOLEAN,
              ranges : SUBSET [base : Nat, prefix : Nat]]

Put(f, k, v)  == [x \in DOMAIN f \cup {k} |-> IF x = k THEN v ELSE f[x]]
Without(f, k) == Restrict(f, DOMAIN f \ {k})

Idle == [step |-> "idle"]
Busy == {w \in Worker : job[w] # Idle}
AtRest == Busy = {}

FirstDraw == NewCols + MaxParts + 1

New(n) == drawn + 1 .. drawn + n

Init ==
  /\ config \in Configs
  /\ catalog = << >> /\ server = << >>
  /\ drawn = FirstDraw
  /\ job = [w \in Worker |-> Idle]
  /\ clashes = {}

-----------------------------------------------------------------------------
(* Pick: what an action decides from the catalog before its SQL. *)

Job(kind, ids) == [kind : {kind}, id : ids, step : {"sql"}]

\* Mutant of BelowLimit: one table too many.
AtMostLimit == Cardinality(DOMAIN catalog) <= MaxTables

BelowLimit == Cardinality(DOMAIN catalog) < MaxTables

CreateJobs ==
  {j \in [kind : {"create"}, id : New(1), step : {"sql"},
          ref : DOMAIN catalog \cup {NoId}, parted : BOOLEAN,
          ranges : {0 .. n - 1 : n \in MinParts .. MaxParts} \cup {{}}] :
     /\ BelowLimit
     /\ j.parted <=> j.ranges # {}
     /\ j.parted => Postgres \/ j.ref = NoId}    \* supportsFkOnPartitionedTables

DropJobs ==
  IF Cardinality(DOMAIN catalog) > MinTables THEN Job("drop", DOMAIN catalog)
  ELSE {}

\* Two columns are left, and the primary key is one of them.
MayDrop(cols, drops) ==
  drops \subseteq cols \ {PkCol} /\ Cardinality(cols \ drops) >= 2

AlterJobs ==
  UNION {
    LET snap == catalog[id]
        notFk == snap.cols \ (IF snap.ref = NoId THEN {} ELSE {FkCol})
    IN {j \in [kind : {"alter"}, id : {id}, step : {"sql"},
               drops : SUBSET (IF Postgres THEN snap.cols ELSE notFk),
               widens : SUBSET (notFk \ (snap.wide \cup {PkCol})),
               adds : {New(n) : n \in 0 .. MaxClauses}] :
          /\ Cardinality(j.drops) + Cardinality(j.widens) + Cardinality(j.adds)
               \in 1 .. MaxClauses
          /\ j.drops # {} => MayDrop(snap.cols, j.drops)
          /\ j.drops \cap j.widens = {}}
    : id \in DOMAIN catalog}

RenameJobs ==
  [kind : {"rename"}, id : DOMAIN catalog, step : {"sql"}, to : New(1)]

\* Not every column at once.  (A table with one column makes the code ask for
\* a random number between 1 and 0, and index that column.)
CreateIndexJobs ==
  UNION {
    [kind : {"index"}, id : {id}, step : {"sql"},
     index : [no : New(1),
              on : LET cols == catalog[id].cols
                   IN {S \in (SUBSET cols) \ {{}} : S # cols \/ Cardinality(S) = 1}]]
    : id \in DOMAIN catalog}

DropIndexJobs ==
  UNION {[kind : {"unindex"}, id : {id}, step : {"sql"},
          no : {x.no : x \in catalog[id].idx}] : id \in DOMAIN catalog}

\* findPartitionedTable()
Partitioned == {id \in DOMAIN catalog :
                  catalog[id].parted /\ Cardinality(catalog[id].ranges)
                                          \in MinParts + 1 .. MaxParts - 1}

CreatePartitionJobs ==
  [kind : {"part"}, id : Partitioned, step : {"sql"}, base : New(1)]

DropPartitionJobs ==
  UNION {[kind : {"unpart"}, id : {id}, step : {"sql"},
          base : catalog[id].ranges] : id \in Partitioned}

Offered(kind, jobs) == IF kind \in Kinds THEN jobs ELSE {}

Jobs ==
  Offered("create", CreateJobs) \cup Offered("drop", DropJobs)
    \cup Offered("alter", AlterJobs) \cup Offered("rename", RenameJobs)
    \cup Offered("index", CreateIndexJobs) \cup Offered("unindex", DropIndexJobs)
    \cup Offered("part", CreatePartitionJobs)
    \cup Offered("unpart", DropPartitionJobs)

Draws(j) == IF j.kind = "alter" THEN Cardinality(j.adds)
            ELSE IF j.kind \in {"create", "rename", "index", "part"} THEN 1 ELSE 0

\* The name the SQL will say: the snapshot's, or the foreign key target's.
Says(j) == LET id == IF j.kind = "create" THEN j.ref ELSE j.id
           IN  IF id = NoId THEN NoId ELSE catalog[id].name

\* The races the catalog's deltas do not survive: an index on a column that
\* goes, two column or partition drops on one table, and a reference made to
\* a table one of whose partitions goes.
Clash(j, k) ==
  {c \in {"index", "columns", "partitions", "reference"} :
     \/ c = "index" /\ j.kind = "index" /\ k.kind = "alter" /\ j.id = k.id
          /\ j.index.on \cap k.drops # {}
     \/ c = "columns" /\ j.kind = "alter" /\ k.kind = "alter" /\ j.id = k.id
          /\ j.drops # {} /\ k.drops # {}
     \/ c = "partitions" /\ j.kind = "unpart" /\ k.kind = "unpart" /\ j.id = k.id
     \/ c = "reference" /\ j.kind = "create" /\ k.kind = "unpart" /\ j.ref = k.id}

Pick(w) ==
  /\ w \notin Busy /\ Cardinality(Busy) < Workers
  /\ \E j \in Jobs :
       /\ drawn + Draws(j) <= FirstDraw + MaxDraws
       /\ drawn' = drawn + Draws(j)
       /\ job' = [job EXCEPT ![w] = Put(j, "says", Says(j))]
       /\ clashes' = clashes \cup
            UNION {Clash(j, job[v]) \cup Clash(job[v], j) : v \in Busy}
  /\ UNCHANGED << config, catalog, server >>

-----------------------------------------------------------------------------
(* The SQL.  A name that no table has (any more) is refused, and so is      *)
(* whatever the server's own state rules out.                               *)

Named(n) == {t \in DOMAIN server : server[t].name = n}
Sends(w, kind) == job[w].step = "sql" /\ job[w].kind = kind
Goes(w, step) == job' = [job EXCEPT ![w].step = step]
Succeeds(w) == Goes(w, "publish")
ServerOnly == UNCHANGED << config, catalog, drawn, clashes >>

\* Neither a foreign key nor a table's reference outlives its target.
Unreferenced(tables, id) ==
  [t \in DOMAIN tables |->
     IF tables[t].ref = id THEN [tables[t] EXCEPT !.ref = NoId] ELSE tables[t]]

Refused(w) ==
  /\ job[w].step = "sql"
  /\ job' = [job EXCEPT ![w] = Idle]
  /\ UNCHANGED server /\ ServerOnly

NewIndexes(j) ==
  IF ~Postgres /\ j.ref # NoId THEN {[no |-> 0, on |-> {FkCol}]} ELSE {}

\* A statement of several did a part of its work and failed.
HalfDone(what) == clashes' = clashes \cup {what}

\* PostgreSQL's partitions are created one by one; those that fail are left
\* out, and with all of them what the table is partitioned by.
CreateSql(w) ==
  /\ Sends(w, "create")
  /\ LET j == job[w]
     IN  /\ j.ref = NoId \/ \E t \in Named(j.says) : Postgres \/ ~server[t].parted
         /\ \E made \in IF Postgres THEN SUBSET j.ranges ELSE {j.ranges} :
              /\ IF made = {} /\ j.ranges # {} THEN HalfDone("empty table")
                 ELSE UNCHANGED clashes
              /\ server' = Put(server, j.id,
                   [name |-> j.id, cols |-> 0 .. NewCols, wide |-> {},
                    ref |-> j.ref, idx |-> NewIndexes(j), parted |-> j.parted,
                    ranges |-> [base : made, prefix : {j.id}]])
              /\ job' = [job EXCEPT ![w] =
                           [@ EXCEPT !.step = "publish", !.ranges = made]]
  /\ UNCHANGED << config, catalog, drawn >>

\* PostgreSQL cascades to the foreign keys; MySQL, with its checks off, keeps
\* them dangling.
DropSql(w) ==
  /\ Sends(w, "drop")
  /\ \E t \in Named(job[w].says) :
       server' = LET rest == Without(server, t)
                 IN  IF Postgres THEN Unreferenced(rest, t) ELSE rest
  /\ Succeeds(w) /\ ServerOnly

AlterSql(w) ==
  /\ Sends(w, "alter")
  /\ \E t \in Named(job[w].says) :
       LET j == job[w]
           r == server[t]
       IN  /\ j.drops \cup j.widens \subseteq r.cols
           /\ r.ref # NoId => FkCol \notin j.widens
           /\ r.ref # NoId /\ ~Postgres => FkCol \notin j.drops
           /\ server' = [server EXCEPT ![t] =
                [r EXCEPT
                   !.cols = (@ \ j.drops) \cup j.adds,
                   !.wide = (@ \ j.drops) \cup j.widens,
                   !.ref  = IF FkCol \in j.drops THEN NoId ELSE @,
                   !.idx  = IF Postgres THEN {x \in @ : x.on \cap j.drops = {}}
                            ELSE {x \in {[y EXCEPT !.on = @ \ j.drops] : y \in @} :
                                    x.on # {}}]]
  /\ Succeeds(w) /\ ServerOnly

RenameSql(w) ==
  /\ Sends(w, "rename")
  /\ \E t \in Named(job[w].says) : server' = [server EXCEPT ![t].name = job[w].to]
  /\ Succeeds(w) /\ ServerOnly

\* CREATE INDEX CONCURRENTLY that fails leaves an invalid index behind.
CreateIndexSql(w) ==
  /\ Sends(w, "index")
  /\ \E t \in Named(job[w].says) :
       /\ job[w].index.on \subseteq server[t].cols
       /\ server' = [server EXCEPT ![t].idx = @ \cup {job[w].index}]
  /\ \/ Succeeds(w) /\ UNCHANGED clashes
     \/ Postgres /\ job' = [job EXCEPT ![w] = Idle] /\ HalfDone("invalid index")
  /\ UNCHANGED << config, catalog, drawn >>

\* PostgreSQL drops by the index's name alone.
DropIndexSql(w) ==
  /\ Sends(w, "unindex")
  /\ \E t \in IF Postgres THEN DOMAIN server ELSE Named(job[w].says) :
       /\ \E x \in server[t].idx : x.no = job[w].no
       /\ server' = [server EXCEPT ![t].idx = {x \in @ : x.no # job[w].no}]
  /\ Succeeds(w) /\ ServerOnly

CreatePartitionSql(w) ==
  /\ Sends(w, "part")
  /\ \E t \in Named(job[w].says) :
       server' = [server EXCEPT ![t].ranges =
                    @ \cup {[base |-> job[w].base, prefix |-> job[w].says]}]
  /\ Succeeds(w) /\ ServerOnly

\* PostgreSQL: DROP TABLE <name>_p<base> CASCADE, which also drops the foreign
\* keys to the parent.  MySQL refuses to drop a table's last partition.
DropPartitionSql(w) ==
  /\ Sends(w, "unpart")
  /\ \E t \in DOMAIN server :
       \E p \in server[t].ranges :
         /\ p.base = job[w].base
         /\ IF Postgres THEN p.prefix = job[w].says
            ELSE server[t].name = job[w].says /\ server[t].ranges # {p}
         /\ LET cut == [server EXCEPT ![t].ranges = @ \ {p}]
            IN  server' = IF Postgres THEN Unreferenced(cut, t) ELSE cut
  /\ Succeeds(w) /\ ServerOnly

-----------------------------------------------------------------------------
(* The publish: deltas by id on the current record. *)

Publishes(w, kind) == job[w].step = "publish" /\ job[w].kind = kind
Done(w) == job' = [job EXCEPT ![w] = Idle]
CatalogOnly == UNCHANGED << config, server, drawn, clashes >>

\* Catalog::update(): nothing happens to an id that is gone.
Update(id, rec) ==
  catalog' = IF id \in DOMAIN catalog THEN [catalog EXCEPT ![id] = rec]
             ELSE catalog

PublishCreate(w) ==
  /\ Publishes(w, "create")
  /\ LET j == job[w]
     IN  catalog' = Put(catalog, j.id,
           [name |-> j.id, cols |-> 0 .. NewCols, wide |-> {}, ref |-> j.ref,
            idx |-> NewIndexes(j), parted |-> j.parted, ranges |-> j.ranges])
  /\ Goes(w, "recheck")
  /\ CatalogOnly

\* Mutant of TargetGone: the created table is not looked at again.
NotRechecked(id) == FALSE

TargetGone(id) == id # NoId /\ id \notin DOMAIN catalog

\* removeReferencesTo() on the record under t.
RemoveReferences(t, id) ==
  Update(t, IF catalog[t].ref = id THEN [catalog[t] EXCEPT !.ref = NoId]
            ELSE catalog[t])

\* The referenced table was dropped mid-create: its sweep could not see us.
Recheck(w) ==
  /\ job[w].step = "recheck"
  /\ IF TargetGone(job[w].ref) THEN RemoveReferences(job[w].id, job[w].ref)
     ELSE UNCHANGED catalog
  /\ Done(w) /\ CatalogOnly

PublishDrop(w) ==
  /\ Publishes(w, "drop")
  /\ catalog' = Without(catalog, job[w].id)
  /\ Goes(w, "sweep")
  /\ CatalogOnly

ToSweep(id) == {t \in DOMAIN catalog : catalog[t].ref = id}

Sweep(w) ==
  /\ job[w].step = "sweep"
  /\ job' = [job EXCEPT ![w] = [kind |-> @.kind, id |-> @.id, step |-> "unref",
                                todo |-> ToSweep(@.id)]]
  /\ UNCHANGED catalog /\ CatalogOnly

Unref(w) ==
  /\ job[w].step = "unref"
  /\ IF job[w].todo = {} THEN UNCHANGED catalog /\ Done(w)
     ELSE \E t \in job[w].todo :
            /\ RemoveReferences(t, job[w].id)
            /\ job' = [job EXCEPT ![w].todo = @ \ {t}]
  /\ CatalogOnly

\* Mutant of WholeIndexDrop: the dialects' answers are mixed up.
OtherDialect == ~Postgres

\* dropColumnRemovesWholeIndex()
WholeIndexDrop == Postgres

AlterDelta(j, r) ==
  LET uncut == {x \in r.idx : x.on \cap j.drops = {}}
      cut   == {[x EXCEPT !.on = @ \ j.drops] : x \in r.idx}
      left  == r.cols \ j.drops
  IN  [r EXCEPT !.cols = left \cup j.adds,
                !.wide = (@ \ j.drops) \cup (j.widens \cap left),
                !.ref  = IF FkCol \in j.drops THEN NoId ELSE @,
                !.idx  = IF WholeIndexDrop THEN uncut
                         ELSE {x \in cut : x.on # {}}]

Delta(w, kind, rec) ==
  Publishes(w, kind) /\ Update(job[w].id, rec) /\ CatalogOnly

Current(w) == catalog[job[w].id]

PublishAlter(w) == Delta(w, "alter", AlterDelta(job[w], Current(w))) /\ Done(w)

PublishRename(w) ==
  Delta(w, "rename", [Current(w) EXCEPT !.name = job[w].to]) /\ Done(w)

PublishIndex(w) ==
  Delta(w, "index", [Current(w) EXCEPT !.idx = @ \cup {job[w].index}]) /\ Done(w)

PublishNoIndex(w) ==
  /\ Delta(w, "unindex", [Current(w) EXCEPT !.idx = {x \in @ : x.no # job[w].no}])
  /\ Done(w)

\* The partition deltas give up on a range that is there, or gone, already.
PublishPartition(w) ==
  /\ Delta(w, "part", IF Current(w).parted
                      THEN [Current(w) EXCEPT !.ranges = @ \cup {job[w].base}]
                      ELSE Current(w))
  /\ Done(w)

PublishNoPartition(w) ==
  /\ Delta(w, "unpart", [Current(w) EXCEPT !.ranges = @ \ {job[w].base}])
  /\ Goes(w, "sweep")

-----------------------------------------------------------------------------
Act(w) ==
  \/ Pick(w) \/ Refused(w)
  \/ CreateSql(w) \/ DropSql(w) \/ AlterSql(w) \/ RenameSql(w)
  \/ CreateIndexSql(w) \/ DropIndexSql(w)
  \/ CreatePartitionSql(w) \/ DropPartitionSql(w)
  \/ PublishCreate(w) \/ Recheck(w) \/ PublishDrop(w) \/ Sweep(w) \/ Unref(w)
  \/ PublishAlter(w) \/ PublishRename(w) \/ PublishIndex(w) \/ PublishNoIndex(w)
  \/ PublishPartition(w) \/ PublishNoPartition(w)

\* A workload stops when its time is up.
Stop == AtRest /\ UNCHANGED vars

Next == Stop \/ \E w \in Worker : Act(w)

Spec == Init /\ [][Next]_vars

-----------------------------------------------------------------------------
(* The drift oracle compares normalize() of the catalog with normalize() of *)
(* what the populator discovers: names for ids, a reference to nothing      *)
(* skipped, and a table partitioned if it has partitions.                   *)

\* No target, the target's name, or "#dangling".
Target(tables, r) ==
  IF r.ref = NoId THEN {}
  ELSE IF r.ref \in DOMAIN tables THEN {tables[r.ref].name} ELSE {NoId}

Normalize(tables) ==
  {[name |-> tables[t].name, cols |-> tables[t].cols, wide |-> tables[t].wide,
    target |-> Target(tables, tables[t]), idx |-> tables[t].idx,
    parted |-> tables[t].parted, ranges |-> tables[t].ranges]
     : t \in DOMAIN tables}

Discovered ==
  [t \in DOMAIN server |->
     LET r == server[t]
     IN  [r EXCEPT !.ref    = IF @ \in DOMAIN server THEN @ ELSE NoId,
                   !.parted = r.ranges # {},
                   !.ranges = {p.base : p \in @}]]

Valid == Normalize(catalog) = Normalize(Discovered)

\* Concurrent DDL merges: whenever the workers are at rest the drift oracle
\* accepts, although SQL and publishes of several workers interleaved freely -
\* unless one of the named races took place or a statement was left half done,
\* which are therefore all there are.  A single worker has no races: what the
\* stable test relies on (tests/stable/test_stable_example.py:41-64) only an
\* invalid index or a table without its partitions can break.
NoDriftWithoutClash ==
  AtRest /\ clashes \subseteq {"columns"} => Valid

\* The re-check of CreateTable and the sweep of DropTable meet every order of
\* the two: no reference of the catalog is left dangling, whatever else raced.
NoDanglingRefs ==
  AtRest => \A t \in DOMAIN catalog :
              catalog[t].ref \in DOMAIN catalog \cup {NoId}

\* LimitsHold: what an action checks before its SQL, other workers can make
\* false before it publishes.  Each of them may overshoot a limit by one and no
\* more than that; and AlterTable leaves a column beside the primary key, which
\* CreateIndex's random_number(1, columns - 1) counts on, unless two ALTERs drop
\* columns of one table at the same time.
LimitsHold ==
  LET others == Workers - 1
  IN  /\ Cardinality(DOMAIN catalog) <= MaxTables + others
      /\ \A t \in DOMAIN catalog :
           /\ Cardinality(catalog[t].ranges) <= MaxParts + others
           /\ "columns" \notin clashes => Cardinality(catalog[t].cols) >= 2
=============================================================================

------------------------------ MODULE Discovery ------------------------------
(***************************************************************************)
(* How a catalog is rebuilt from the server, and the drift oracle on top:  *)
(* Worker::discover_existing_schema() and validate_metadata()              *)
(* (core/src/workload.cpp), MetadataPopulator and the two SchemaDiscovery  *)
(* classes, over tables that the program's own DDL made                    *)
(* (core/src/sql_dialect/).                                                *)
(*                                                                         *)
(* A call lists the tables and asks five questions BY NAME about each, in  *)
(* statements of their own: any of them may fail, the connection may be    *)
(* lost, and a session whose worker is gone may still change the server    *)
(* between any two.  Nobody else uses the catalog during a call, as        *)
(* normalize() demands.                                                    *)
(*                                                                         *)
(* The server's tables are kept as the metadata would describe them; what  *)
(* a query returns is computed from that by the DDL's dialect and read     *)
(* back by the discovery, and the two have to be inverses.  Names of       *)
(* tables are numbers, as the listing is ordered by them.  Left out: the   *)
(* order of columns, which normalize() sorts away; defaults, which the DDL *)
(* does not set; and columns whose names end in another's, which the       *)
(* search for "<column> DESC" in an index's definition would mix up.       *)
(***************************************************************************)
EXTENDS Registry, FiniteSets

\* Records of: mysql, the dialect; has and had, what the server holds and what
\* the catalog is first made from; and how many calls, failed queries and
\* foreign changes there are at most.
CONSTANT Configs

ColumnType == {"INT", "CHAR", "VARCHAR", "REAL", "BOOL", "BYTEA", "TEXT"}

NoName == 0

\* ref is the name of a table for the server, an id in the catalog.
Column == [type : ColumnType, length : Nat, nullable : BOOLEAN, pk : BOOLEAN,
           part : BOOLEAN, auto : BOOLEAN, ref : Nat]

Index == [unique : BOOLEAN, fields : Seq([col : STRING, desc : BOOLEAN])]

HasLength == {"VARCHAR", "CHAR"}

\* What CreateTable and AlterTable make: only a primary key is NOT NULL, and
\* only some types have a length.
IsColumn(c) ==
  c \in Column /\ c.nullable = ~c.pk /\ (c.type \notin HasLength => c.length = 0)

\* The tables of the program's own DDL.  cols and idx are functions of the
\* names; the column "id" and the primary key's index are on every server.
IsTable(t) ==
  /\ t = [name |-> t.name, cols |-> t.cols, idx |-> t.idx, parted |-> t.parted,
          ranges |-> t.ranges]
  /\ t.name \in Nat \ {NoName} /\ t.parted \in BOOLEAN /\ t.ranges \subseteq Nat
  /\ t.cols = [c \in DOMAIN t.cols |-> t.cols[c]] /\ "id" \in DOMAIN t.cols
  /\ \A c \in DOMAIN t.cols : IsColumn(t.cols[c])
  /\ t.idx = [i \in DOMAIN t.idx |-> t.idx[i]] /\ "PRIMARY" \notin DOMAIN t.idx
  /\ \A i \in DOMAIN t.idx : t.idx[i] \in Index /\ t.idx[i].fields # << >>

\* A name is taken once.
IsSchema(tables) ==
  /\ IsFiniteSet(tables) /\ \A t \in tables : IsTable(t)
  /\ \A t, u \in tables : t.name = u.name => t = u

\* Everything is a table that the DDL can make.
ASSUME DiscoveryAssumption ==
  \A c \in Configs :
    /\ c.mysql \in BOOLEAN /\ IsSchema(c.has) /\ IsSchema(c.had)
    /\ c.calls \in Nat /\ c.faults \in Nat /\ c.races \in Nat

VARIABLES config,    \* one of Configs
          server,    \* the set of the server's tables
          call       \* discover_existing_schema() or validate_metadata(),
                     \* under way or the last one, see Begun

discoveryVars == << config, server, catalog, nextId, call >>

\* The names in their order: each at the place of its rank.
InOrder(tables) ==
  LET names == {t.name : t \in tables}
  IN  [i \in 1 .. Cardinality(names) |->
         CHOOSE nm \in names : Cardinality({m \in names : m <= nm}) = i]

-----------------------------------------------------------------------------
(* The rows of the catalog queries: what the server made of the DDL.         *)

\* typeName(), and what the server calls the type.
PgType == [INT |-> "int4", CHAR |-> "bpchar", VARCHAR |-> "varchar",
           REAL |-> "float4", BOOL |-> "bool", BYTEA |-> "bytea", TEXT |-> "text"]

MyType == [INT |-> "int", CHAR |-> "char", VARCHAR |-> "varchar",
           REAL |-> "double", BOOL |-> "tinyint", BYTEA |-> "blob", TEXT |-> "text"]

\* columnDefinition(): SERIAL has a default, nextval; a type modifier is the
\* length and four.  Only a primary key is NOT NULL.
PgColumnRow(c) ==
  [type |-> PgType[c.type], size |-> IF c.length = 0 THEN 0 ELSE c.length + 4,
   notNull |-> c.pk, serial |-> c.auto]

\* CHARACTER_MAXIMUM_LENGTH is there for TEXT and BLOB too.
MyColumnRow(c) ==
  [type |-> MyType[c.type],
   size |-> IF c.type \in {"TEXT", "BYTEA"} THEN 65535 ELSE c.length,
   notNull |-> c.pk, serial |-> c.auto]

PrimaryKey(t) == {c \in DOMAIN t.cols : t.cols[c].pk}

\* A row for each column of each index, the primary key's among them.
IndexRows(t) ==
  {[index |-> "PRIMARY", unique |-> TRUE, col |-> c, pos |-> 1, desc |-> FALSE] :
     c \in PrimaryKey(t)}
    \cup UNION {{[index |-> i, unique |-> t.idx[i].unique,
                  col |-> t.idx[i].fields[k].col, pos |-> k,
                  desc |-> t.idx[i].fields[k].desc] : k \in DOMAIN t.idx[i].fields}
                  : i \in DOMAIN t.idx}

\* createTable(): PRIMARY KEY, and a foreign key on one column; a UNIQUE index
\* is a constraint to MySQL.
Constraints(t) ==
  {[kind |-> "primary", cols |-> PrimaryKey(t), target |-> NoName]}
    \cup {[kind |-> "foreign", cols |-> {c}, target |-> t.cols[c].ref]
            : c \in {c \in DOMAIN t.cols : t.cols[c].ref # NoName}}
    \cup {[kind |-> "unique", cols |-> {f.col : f \in Range(t.idx[i].fields)},
           target |-> NoName]
            : i \in {i \in DOMAIN t.idx : config.mysql /\ t.idx[i].unique}}

\* addPartition(): a table <parent>_p<base> on PostgreSQL, p<base> on MySQL.
PartitionNames(t) ==
  IF config.mysql THEN {<<"p", b>> : b \in t.ranges}
  ELSE {<<t.name, "p", b>> : b \in t.ranges}

-----------------------------------------------------------------------------
(* SchemaDiscovery: what the program reads off the rows.                     *)

PgParsed == [int2 |-> "INT", int4 |-> "INT", int8 |-> "INT",
             varchar |-> "VARCHAR", bpchar |-> "CHAR", text |-> "TEXT",
             float4 |-> "REAL", float8 |-> "REAL", bool |-> "BOOL",
             bytea |-> "BYTEA"]

MyParsed == [int |-> "INT", bigint |-> "INT", smallint |-> "INT",
             mediumint |-> "INT", tinyint |-> "BOOL", varchar |-> "VARCHAR",
             char |-> "CHAR", text |-> "TEXT", longtext |-> "TEXT",
             double |-> "REAL", float |-> "REAL", blob |-> "BYTEA",
             longblob |-> "BYTEA", varbinary |-> "BYTEA", binary |-> "BYTEA"]

\* Mutant of parseTypeModifier: the header is counted.
WithHeader(row) ==
  IF row.type \in {"varchar", "bpchar"} /\ row.size >= 4 THEN row.size ELSE 0

\* PostgreSQL stores the length and a header of four.
parseTypeModifier(row) ==
  IF row.type \in {"varchar", "bpchar"} /\ row.size >= 4 THEN row.size - 4 ELSE 0

PgColumn(row) ==
  [type |-> PgParsed[row.type],
   length |-> IF PgParsed[row.type] \in HasLength THEN parseTypeModifier(row) ELSE 0,
   notNull |-> row.notNull, serial |-> row.serial]

MyColumn(row) ==
  [type |-> MyParsed[row.type],
   length |-> IF MyParsed[row.type] \in HasLength THEN row.size ELSE 0,
   notNull |-> row.notNull, serial |-> row.serial]

discoverColumns(t) ==
  [c \in DOMAIN t.cols |-> IF config.mysql THEN MyColumn(MyColumnRow(t.cols[c]))
                           ELSE PgColumn(PgColumnRow(t.cols[c]))]

\* The rows of an index come in the order of its key.
discoverIndexes(t) ==
  LET rows     == {r \in IndexRows(t) : r.index # "PRIMARY"}
      Of(i)    == {r \in rows : r.index = i}
      At(i, k) == CHOOSE r \in Of(i) : r.pos = k
  IN  [i \in {r.index : r \in rows} |->
         [unique |-> At(i, 1).unique,
          fields |-> [k \in {r.pos : r \in Of(i)} |->
                        [col |-> At(i, k).col, desc |-> At(i, k).desc]]]]

discoverPartitionKeys(t) == {c \in DOMAIN t.cols : t.cols[c].part}

-----------------------------------------------------------------------------
(* MetadataPopulator: what it records of a table.                            *)

convertColumn(d) ==
  [type |-> d.type, length |-> d.length, nullable |-> ~d.notNull, pk |-> FALSE,
   part |-> FALSE, auto |-> d.serial, ref |-> NoId]

\* The flag of a primary key; a foreign key is kept by name for later.
applyConstraints(t, constraints) ==
  LET keys == UNION {x.cols : x \in {x \in constraints : x.kind = "primary"}}
  IN  [t EXCEPT !.cols = [c \in DOMAIN t.cols |->
                            IF c \in keys THEN [t.cols[c] EXCEPT !.pk = TRUE]
                            ELSE t.cols[c]]]

ForeignKeys(constraints) ==
  UNION {{[col |-> c, target |-> x.target] : c \in x.cols}
           : x \in {x \in constraints : x.kind = "foreign"}}

applyPartitionKeys(t, keys) ==
  [t EXCEPT !.cols = [c \in DOMAIN t.cols |->
                        IF c \in keys THEN [t.cols[c] EXCEPT !.part = TRUE]
                        ELSE t.cols[c]]]

\* The number after the last "_p", or after "p".  A table is partitioned if it
\* has partitions, whatever its type says.
applyPartitioning(t, names) ==
  [t EXCEPT !.parted = names # {}, !.ranges = {n[Len(n)] : n \in names}]

-----------------------------------------------------------------------------
(* A call.                                                                   *)

NewTable(nm) ==
  [name |-> nm, cols |-> EmptyFcn, idx |-> EmptyFcn, parted |-> FALSE, ranges |-> {}]

\* Mutant of Target: references are compared by id.
TargetId(c, ref) == IF ref = NoId THEN {} ELSE {ref}

\* normalize(): names for ids, {NoName} for an id of nothing; and how many tables
\* are described alike, as the vectors it returns are compared.
Target(c, ref) ==
  IF ref = NoId THEN {} ELSE IF ref \in Live(c) THEN {RecOf(c, ref).name} ELSE {NoName}

Normal(c, id) ==
  LET t == RecOf(c, id)
  IN  [t EXCEPT !.cols = [x \in DOMAIN t.cols |->
                            [t.cols[x] EXCEPT !.ref = Target(c, t.cols[x].ref)]]]

normalize(c) ==
  [t \in {Normal(c, id) : id \in Live(c)} |->
     Cardinality({id \in Live(c) : Normal(c, id) = t})]

\* original: what the catalog was; first: the first id this call may give out;
\* todo: tables still to be read, of those listed; fks: foreign keys of the
\* draft, pending: of the tables done.  touched and skipped are history: the
\* tables that others changed during the call, and those it could not read.
Begun(kind, n) ==
  [step |-> "list", kind |-> kind, number |-> n, original |-> normalize(catalog),
   first |-> nextId, listed |-> {NoName}, todo |-> << >>, draft |-> NewTable(NoName),
   fks |-> {}, pending |-> {}, up |-> TRUE, faults |-> config.faults,
   races |-> config.races, touched |-> {}, skipped |-> {}, verdict |-> "none"]

\* The catalog that describes tables, with the ids from 1 in the order of names.
\* A reference to a table that is gone, which MySQL keeps, DropTable removed.
CatalogOf(tables) ==
  LET order == InOrder(tables)
      IdOf(nm) == IF nm \notin Range(order) THEN NoId
                  ELSE CHOOSE i \in DOMAIN order : order[i] = nm
      Rec(t) == [t EXCEPT !.cols = [c \in DOMAIN t.cols |->
                                      [t.cols[c] EXCEPT !.ref = IdOf(@)]]]
  IN  [slots    |-> [i \in DOMAIN order |->
                       [rec |-> Rec(CHOOSE t \in tables : t.name = order[i]), pos |-> i]],
       sampling |-> [i \in DOMAIN order |-> i],
       names    |-> [nm \in Range(order) |-> IdOf(nm)]]

DiscoveryInit ==
  /\ config \in Configs
  /\ server = config.has
  /\ catalog = CatalogOf(config.had)
  /\ nextId = Cardinality(config.had) + 1
  /\ call = [Begun("discover", 0) EXCEPT !.step = "done"]

MayCall == call.step = "done" /\ call.number < config.calls

Discover ==
  /\ MayCall
  /\ call' = Begun("discover", call.number + 1)
  /\ UNCHANGED << config, server, catalog, nextId >>

\* validate_metadata(): normalize(), then reset_metadata(), which keeps nextId_.
Validate ==
  /\ MayCall
  /\ call' = Begun("validate", call.number + 1)
  /\ catalog' = EmptyCatalog
  /\ UNCHANGED << config, server, nextId >>

\* The end of discover_existing_schema(), and of its caller.
Ended(c, raised) ==
  [call EXCEPT !.step = "done",
     !.verdict = IF raised THEN (IF call.kind = "validate" THEN "false" ELSE "raised")
                 ELSE IF call.kind = "discover" THEN "none"
                 ELSE IF call.original = normalize(c) THEN "true" ELSE "false"]

\* With the next table, or with the second pass when there is none.
Onward(c) ==
  [c EXCEPT !.step = IF c.todo = << >> THEN "resolve" ELSE "columns",
            !.draft = NewTable(IF c.todo = << >> THEN NoName ELSE Head(c.todo)),
            !.fks = {}]

\* A query is answered.  A table that is gone has no rows, which is no error.
Answer(step) == call.step = step /\ call.up
Found == {t \in server : t.name = call.draft.name}
discoverPartitions == UNION {PartitionNames(t) : t \in Found}
ServerAndCatalogKept == UNCHANGED << config, server, catalog, nextId >>

discoverTables ==
  /\ Answer("list")
  /\ call' = Onward([call EXCEPT !.todo = InOrder(server),
                                 !.listed = {t.name : t \in server}])
  /\ ServerAndCatalogKept

ReadColumns ==
  /\ Answer("columns")
  /\ call' = [call EXCEPT !.step = "indexes",
       !.draft.cols = IF Found = {} THEN EmptyFcn
                      ELSE LET d == discoverColumns(CHOOSE t \in Found : TRUE)
                           IN  [c \in DOMAIN d |-> convertColumn(d[c])]]
  /\ ServerAndCatalogKept

ReadIndexes ==
  /\ Answer("indexes")
  /\ call' = [call EXCEPT !.step = "constraints",
       !.draft.idx = IF Found = {} THEN EmptyFcn
                     ELSE discoverIndexes(CHOOSE t \in Found : TRUE)]
  /\ ServerAndCatalogKept

ReadConstraints ==
  /\ Answer("constraints")
  /\ LET read == UNION {Constraints(t) : t \in Found}
     IN  call' = [call EXCEPT !.step = "keys", !.draft = applyConstraints(@, read),
                              !.fks = ForeignKeys(read)]
  /\ ServerAndCatalogKept

ReadPartitionKeys ==
  /\ Answer("keys")
  /\ call' = [call EXCEPT !.step = "partitions",
       !.draft = applyPartitionKeys(@, UNION {discoverPartitionKeys(t) : t \in Found})]
  /\ ServerAndCatalogKept

\* The last answer completes the table, which gets an id and is inserted; the
\* id is new, so the branch for a duplicate is not taken, whatever the name.
ReadPartitions ==
  /\ Answer("partitions")
  /\ LET t == applyPartitioning(call.draft, discoverPartitions)
     IN  IF Insertable(catalog, nextId)
         THEN /\ catalog' = Inserted(catalog, nextId, t)
              /\ call' = Onward([call EXCEPT !.todo = Tail(@), !.pending = @ \cup
                                   {[id |-> nextId, fk |-> fk] : fk \in call.fks}])
         ELSE /\ call' = Onward([call EXCEPT !.todo = Tail(@)])
              /\ UNCHANGED catalog
  /\ nextId' = NextId
  /\ UNCHANGED << config, server >>

\* A query fails, alone or as the connection is lost, and with it the table;
\* without the list there is nothing to do, and the exception goes on.
Fail ==
  /\ call.step \in {"list", "columns", "indexes", "constraints", "keys", "partitions"}
  /\ ~call.up \/ call.faults > 0
  /\ \E lost \in {l \in BOOLEAN : ~call.up => l} :
       LET c == [call EXCEPT !.up = ~lost, !.faults = IF call.up THEN @ - 1 ELSE @]
       IN  call' = IF call.step = "list"
                   THEN [Ended(catalog, TRUE) EXCEPT !.up = c.up, !.faults = c.faults]
                   ELSE Onward([c EXCEPT !.todo = Tail(@),
                                         !.skipped = @ \cup {call.draft.name}])
  /\ ServerAndCatalogKept

\* The second pass: a reference for each name the catalog knows by now; in any
\* order, as each is for a column of its own.
Resolved(fk) ==
  IF fk.fk.target \notin DOMAIN catalog.names THEN catalog
  ELSE LET t == RecOf(catalog, fk.id)
           target == catalog.names[fk.fk.target]
       IN  IF fk.fk.col \notin DOMAIN t.cols THEN catalog
           ELSE Updated(catalog, fk.id, [t EXCEPT !.cols[fk.fk.col].ref = target])

Resolve ==
  /\ call.step = "resolve"
  /\ \E fk \in call.pending :
       /\ catalog' = Resolved(fk)
       /\ call' = [call EXCEPT !.pending = @ \ {fk}]
  /\ UNCHANGED << config, server, nextId >>

Finish ==
  /\ call.step = "resolve" /\ call.pending = {}
  /\ call' = Ended(catalog, FALSE)
  /\ ServerAndCatalogKept

-----------------------------------------------------------------------------
(* A session that is still at work: DROP TABLE, RENAME and ADD COLUMN.       *)

Fresh == 9

\* The server's tables, with the references to one led to another.
Repointed(from, to) ==
  {[t EXCEPT !.cols = [c \in DOMAIN t.cols |->
                         IF t.cols[c].ref = from THEN [t.cols[c] EXCEPT !.ref = to]
                         ELSE t.cols[c]]] : t \in server}

Foreign(tables, touched) ==
  /\ call.step # "done" /\ call.races > 0
  /\ server' = tables
  /\ call' = [call EXCEPT !.races = @ - 1, !.touched = @ \cup touched]
  /\ UNCHANGED << config, catalog, nextId >>

\* CASCADE drops the foreign keys on PostgreSQL; on MySQL they dangle, as the
\* checks are off.
ForeignDrop ==
  \E t \in server :
    LET left == IF config.mysql THEN server ELSE Repointed(t.name, NoName)
    IN  Foreign({u \in left : u.name # t.name}, {t.name})

ForeignRename ==
  /\ \A t \in server : t.name # Fresh
  /\ \E t \in server :
       Foreign({IF u.name = t.name THEN [u EXCEPT !.name = Fresh] ELSE u
                  : u \in Repointed(t.name, Fresh)}, {t.name, Fresh})

ForeignAlter ==
  \E t \in server :
    Foreign((server \ {t}) \cup
              {[t EXCEPT !.cols = Put(@, "new", [t.cols["id"] EXCEPT
                    !.pk = FALSE, !.part = FALSE, !.auto = FALSE, !.nullable = TRUE])]},
            {t.name})

Ask  == Discover \/ Validate
Read == \/ discoverTables \/ ReadColumns \/ ReadIndexes \/ ReadConstraints
        \/ ReadPartitionKeys \/ ReadPartitions \/ Fail
Others == ForeignDrop \/ ForeignRename \/ ForeignAlter

DiscoveryNext == Ask \/ Read \/ Resolve \/ Finish \/ Others

DiscoverySpec == DiscoveryInit /\ [][DiscoveryNext]_discoveryVars

-----------------------------------------------------------------------------
(* Properties. *)

\* What the server has, in the terms of normalize().  A partitioned table
\* without partitions is taken for one that is not partitioned.
Truth(t) ==
  [t EXCEPT !.parted = t.ranges # {},
     !.cols = [c \in DOMAIN t.cols |->
                 [t.cols[c] EXCEPT !.ref = {@} \cap {u.name : u \in server}]]]

\* Without the references to tables of these names.
Blind(t, names) ==
  [t EXCEPT !.cols = [c \in DOMAIN t.cols |-> [t.cols[c] EXCEPT !.ref = @ \ names]]]

\* The records this call made.
Made == {id \in Live(catalog) : id >= call.first}

\* Faithful: a discovery records every table it could read and nobody changed,
\* once, and exactly as it is: what the DDL of the dialect made of it comes back
\* through the server's own names of types, lengths, keys and partitions, and a
\* reference means the table its constraint names, listed later or earlier.  A
\* table that could not be read, or was changed, spoils no other one's record,
\* but for the references to it; and where the catalog was not reset, for those
\* to a table that only the catalog has.
Faithful ==
  LET lost == call.skipped \cup call.touched
      old  == {RecOf(catalog, id).name : id \in Live(catalog) \ Made} \ call.listed
  IN  call.step = "done" /\ NoName \notin call.listed =>
        /\ \A id \in Made : RecOf(catalog, id).name \in call.listed
        /\ \A t \in {t \in server : t.name \in call.listed \ lost} :
             \E id \in Made :
               /\ Blind(Normal(catalog, id), lost \cup old)
                    = Blind(Truth(t), lost \cup old)
               /\ \A other \in Made \ {id} : RecOf(catalog, other).name # t.name

\* VerdictTruthful: on a server nobody changes, validate_metadata() accepts just
\* when the catalog was what the server holds - or what the server holds without
\* the tables that could not be read, whose errors the populator swallows.
VerdictTruthful ==
  LET read == {t \in server : t.name \notin call.skipped}
  IN  call.step = "done" /\ call.kind = "validate" /\ call.touched = {} =>
        (call.verdict = "true" <=>
           /\ NoName \notin call.listed
           /\ call.original = [t \in {Blind(Truth(t), call.skipped) : t \in read} |-> 1])
=============================================================================

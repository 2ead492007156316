---------------------------- MODULE MCDiscovery -----------------------------
(* Discovery with the tables that servers and catalogs hold. *)
EXTENDS Discovery, TLC

Col(type, length) ==
  [type |-> type, length |-> length, nullable |-> TRUE, pk |-> FALSE,
   part |-> FALSE, auto |-> FALSE, ref |-> NoName]

To(nm) == [Col("INT", 0) EXCEPT !.ref = nm]
Id     == [Col("INT", 0) EXCEPT !.nullable = FALSE, !.pk = TRUE, !.auto = TRUE]
PartId == [Id EXCEPT !.auto = FALSE, !.part = TRUE]

Asc(c)  == [col |-> c, desc |-> FALSE]
Desc(c) == [col |-> c, desc |-> TRUE]
Over(unique, fields) == [unique |-> unique, fields |-> fields]

Tbl(nm, cols, idx) ==
  [name |-> nm, cols |-> cols, idx |-> idx, parted |-> FALSE, ranges |-> {}]
Parted(nm, ranges) ==
  [Tbl(nm, [id |-> PartId, a |-> Col("TEXT", 0)], EmptyFcn)
     EXCEPT !.parted = TRUE, !.ranges = ranges]

\* A table with each type, a plain one, and one with indexes.
Types   == Tbl(1, [id |-> Id, a |-> Col("CHAR", 7), b |-> Col("VARCHAR", 32),
                   c |-> Col("REAL", 0), d |-> Col("BOOL", 0),
                   e |-> Col("BYTEA", 0), f |-> Col("TEXT", 0)], EmptyFcn)
Plain(nm) == Tbl(nm, [id |-> Id, a |-> Col("VARCHAR", 32)], EmptyFcn)
Indexed(first, second) ==
  Tbl(1, [id |-> Id, a |-> Col("INT", 0), b |-> Col("TEXT", 0)],
      [i |-> Over(TRUE, <<first, second>>), j |-> Over(FALSE, <<Desc("id")>>)])

\* A child of the table of a name, with the index MySQL needs.
Child(nm, target) ==
  Tbl(nm, [id |-> Id, r |-> To(target)], [fk_r |-> Over(FALSE, <<Asc("r")>>)])

\* References forward, backward and in a chain; to nothing; to partitions.
Family == {
  {}, {Types}, {Plain(1)},
  {Indexed(Desc("b"), Asc("a"))}, {Indexed(Asc("a"), Desc("b"))},
  {Child(1, 2), Plain(2)}, {Plain(1), Child(2, 1)},
  {Child(1, 2), Child(2, 3), Plain(3)}, {Child(1, NoName), Plain(2)},
  {Parted(1, {0, 1}), Plain(2)}, {Parted(1, {0, 2}), Plain(2)},
  {Parted(1, {}), Plain(2)}}

OnPostgres == {{Parted(2, {0, 1}), Child(1, 2)},
               {[Parted(1, {0}) EXCEPT !.cols = Put(@, "r", To(2))], Plain(2)}}

OnMySql == {{Child(1, 2)}}

Asked(mysql, has, had, calls, faults, races) ==
  [mysql : {mysql}, has : has, had : had, calls : {calls}, faults : {faults},
   races : {races}]

\* Two calls, and a failed query, on servers and catalogs of every pair; and
\* what others change, on a server of one kind or the other.
OnBoth(mysql, tables) ==
  Asked(mysql, tables, tables, 1, 1, 0)
    \cup {c \in Asked(mysql, tables, tables, 2, 1, 0) : c.has = c.had}
    \cup {c \in Asked(mysql, tables, tables, 1, 1, 2) : c.has = c.had}

AllConfigs == OnBoth(FALSE, Family \cup OnPostgres)
                \cup OnBoth(TRUE, (Family \cup OnMySql) \ {{Parted(1, {}), Plain(2)}})
=============================================================================

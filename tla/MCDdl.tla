------------------------------- MODULE MCDdl --------------------------------
(* Ddl with interchangeable workers, and the configurations for TLC. *)
EXTENDS Ddl, TLC

Symmetry == Permutations(Worker)

Limits(workers, kinds, newCols, maxClauses, maxTables, maxParts, draws) ==
  [postgres : BOOLEAN, workers : {workers}, kinds : {kinds},
   newCols : {newCols}, maxClauses : {maxClauses}, minTables : {0},
   maxTables : {maxTables}, minParts : {1}, maxParts : {maxParts},
   maxDraws : {draws}]

Everything == {"create", "drop", "alter", "rename", "index", "unindex", "part",
               "unpart"}

\* One worker: two tables; ALTERs of two clauses; partitions that come and go.
Alone == Limits(1, Everything, 1, 2, 2, 3, 3)
           \cup Limits(1, Everything, 2, 2, 1, 3, 3)
           \cup Limits(1, Everything, 2, 2, 2, 3, 2)

\* Two workers, every pair of actions: with partitions, and with columns to drop.
Pairs == Limits(2, Everything, 1, 1, 2, 3, 2)
           \cup Limits(2, Everything, 2, 1, 2, 1, 2)

\* Longer histories of two workers: names, foreign keys, partitions.
Longer == Limits(2, {"create", "drop", "rename"}, 1, 1, 2, 1, 3)
            \cup Limits(2, {"create", "drop", "alter"}, 1, 1, 2, 1, 3)
            \cup Limits(2, {"create", "drop", "rename", "part", "unpart"},
                        1, 1, 1, 3, 3)

AllConfigs == Alone \cup Pairs \cup Longer
=============================================================================

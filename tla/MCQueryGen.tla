----------------------------- MODULE MCQueryGen -----------------------------
(* Tables and configurations for TLC. *)
EXTENDS QueryGen

Col(type, ref) == [type |-> type, real |-> type, ref |-> ref]

\* The second references the first; the last was not made by CREATE TABLE of the
\* program but discovered, and has no column to join with the first two.
FourTables == <<<<Col("INT", 0), Col("REAL", 0)>>,
                 <<Col("INT", 0), Col("INT", 1)>>,
                 <<Col("INT", 0), Col("VARCHAR", 0)>>,
                 <<Col("VARCHAR", 0)>>>>

Plainly == [maxJoins |-> 0, maxDepth |-> 0, maxSubqueries |-> 0,
            join |-> 0, subquery |-> 0, aggregate |-> 0, cte |-> 0, setop |-> 0,
            window |-> 0, orderBy |-> 0, limit |-> 0, correlation |-> 0,
            intersect |-> FALSE, purposes |-> {"standalone"},
            catalog |-> {1, 2}, later |-> {{1, 2}}, maxPicks |-> 1]

\* One configuration for each part of the generator, the other parts turned off.
Joins == [Plainly EXCEPT !.maxJoins = 2, !.join = 50]
Cross == [Joins EXCEPT !.catalog = {1, 4}, !.later = {{1, 4}}]
Rows  == [Plainly EXCEPT !.maxJoins = 1, !.join = 50, !.aggregate = 50,
                         !.window = 50, !.orderBy = 50]
Groups == [Plainly EXCEPT !.aggregate = 100, !.orderBy = 50, !.maxPicks = 2,
                          !.catalog = {1}, !.later = {{1}}]
Keys  == [Joins EXCEPT !.orderBy = 50, !.purposes = {"pkSelect"},
                       !.later = {{1}, {2, 3}, {}}]
With  == [Plainly EXCEPT !.cte = 50, !.maxDepth = 1, !.catalog = {3}, !.later = {{1}}]
Unite == [Plainly EXCEPT !.setop = 50, !.correlation = 50, !.orderBy = 50, !.limit = 50,
                         !.intersect = TRUE, !.catalog = {1}, !.later = {{1}, {3}}]
Deep  == [Plainly EXCEPT !.maxSubqueries = 2, !.subquery = 50, !.correlation = 50,
                         !.catalog = {1}, !.later = {{1}}]
Trims == [Deep EXCEPT !.maxSubqueries = 1, !.orderBy = 50, !.limit = 50,
                      !.later = {{3}, {}}]
Wide  == [Deep EXCEPT !.maxSubqueries = 1, !.maxDepth = 1, !.purposes = {"predicate"},
                      !.catalog = {3}, !.later = {{1, 3}}]
Dml   == [Deep EXCEPT !.maxSubqueries = 1, !.maxJoins = 1, !.join = 50,
                      !.purposes = {"predicate"}, !.catalog = {1, 2},
                      !.later = {{2, 3}, {1, 2, 3}}]

EachPart == {Joins, Cross, Rows, Groups, Keys, With, Unite, Deep, Trims, Wide, Dml}
=============================================================================

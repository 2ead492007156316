------------------------------ MODULE QueryGen ------------------------------
(***************************************************************************)
(* The query generator (core/src/querygen/generator.cpp) and the actions   *)
(* that draw a query from it (core/src/action/dml.cpp).                    *)
(*                                                                         *)
(* genQuery() calls itself: for the body of a CTE, for a subquery in WHERE *)
(* and for the right side of a set operation.  The stack holds its calls,  *)
(* and each stage of it is an action.  Random draws are choices; a         *)
(* percentage of 0 or of 100 leaves none.                                  *)
(*                                                                         *)
(* An expression is known by one path down its tree: the type it is tagged *)
(* with, the type the server gives it, the column at the end of the path,  *)
(* and what is an operand of % on it.  An operator stands for a tower of   *)
(* them, a predicate for its terms: the leaves of its AND, OR and NOT.     *)
(* The terms of a finished predicate are dropped, and so are the           *)
(* conditions of the joins when they are complete.  Column 1 of a table is  *)
(* its primary key.  CHAR and TEXT are VARCHAR, and BYTEA, which is        *)
(* handled as BOOL is, has no column.                                      *)
(***************************************************************************)
EXTENDS Naturals, FiniteSets, SequencesExt

CONSTANTS Schema,     \* what tables there can be: id -> sequence of columns
          Configs     \* the configurations a generator is run with, see Config

Family == [INT |-> "numeric", REAL |-> "numeric", VARCHAR |-> "string",
           BOOL |-> "boolean"]
Type   == DOMAIN Family
Families == {Family[t] : t \in Type}
representative == [numeric |-> "INT", string |-> "VARCHAR", boolean |-> "BOOL"]

NoTable == 0          \* also the id of a CTE
Table   == DOMAIN Schema

\* QueryGenConfig; whether the server has INTERSECT; the purposes asked for;
\* what the catalog holds at first, and what else it may hold when the
\* generator looks; and a bound, the plain items, groups and aggregates of a
\* select list (4, 2 and 2 in the code).
Percent == {0, 50, 100}
Config == [maxJoins : Nat, maxDepth : Nat, maxSubqueries : Nat,
           join : Percent, subquery : Percent, aggregate : Percent,
           cte : Percent, setop : Percent, window : Percent,
           orderBy : Percent, limit : Percent, correlation : Percent,
           intersect : BOOLEAN,
           purposes : SUBSET {"standalone", "pkSelect", "predicate"},
           catalog : SUBSET Table, later : SUBSET SUBSET Table, maxPicks : Nat]

ASSUME QueryGenAssumption ==
  /\ Table \subseteq Nat \ {NoTable}
  /\ \A t \in Table :
       /\ Schema[t] \in Seq([type : Type, real : Type, ref : Table \cup {NoTable}])
       /\ Schema[t] # << >>
       /\ \A i \in DOMAIN Schema[t] : Schema[t][i].real = Schema[t][i].type
  /\ Configs \subseteq Config

VARIABLES config,     \* one of Configs
          catalog,    \* the tables in the catalog
          call,       \* the action that wants a query
          tables,     \* tables_: the generator's copy of the catalog
          aliases,    \* aliasCounter_
          stack       \* the calls of genQuery, the innermost last

vars == << config, catalog, call, tables, aliases, stack >>

Roll(percent) == {b \in BOOLEAN : IF b THEN percent > 0 ELSE percent < 100}

-----------------------------------------------------------------------------
(* Columns and expressions. *)

Output    == 0        \* the alias of a reference to an output column
Qualifier == 1        \* the table name that qualifies a predicate
FirstAlias == 2       \* u0

Ref    == [alias : Nat, col : Nat]
Column == [alias : Nat, col : Nat, id : Nat, type : Type, real : Type]
Expr   == [node : {"column", "value", "aggregate", "window"}, type : Type,
           real : Type, refs : SUBSET Ref, modOf : SUBSET Column]

Columns(scope) ==
  UNION {{[alias |-> s.alias, col |-> j, id |-> s.id,
           type |-> s.cols[j].type, real |-> s.cols[j].real] :
             j \in DOMAIN s.cols} : s \in Range(scope)}

RefOf(c) == [alias |-> c.alias, col |-> c.col]

FamiliesIn(scope) == {Family[c.type] : c \in Columns(scope)}

pickColumn(scope, family) == {c \in Columns(scope) : Family[c.type] = family}
comparable(scope) == {c \in Columns(scope) : Family[c.type] # "boolean"}
numeric(scope)    == pickColumn(scope, "numeric")

Of(node, type, real, refs) ==
  [node |-> node, type |-> type, real |-> real, refs |-> refs, modOf |-> {}]

colExpr(c)       == Of("column", c.type, c.real, {RefOf(c)})
genLiteral(type) == Of("value", type, type, {})

genLeaf(type, scope) ==
  {colExpr(c) : c \in pickColumn(scope, Family[type])} \cup {genLiteral(type)}

IntColumns(scope) == {c \in Columns(scope) : c.type = "INT"}

\* A % b, on the path of a column; that of a literal is a literal's.
Modulo(scope) == {[Of("value", "INT", c.real, {RefOf(c)}) EXCEPT !.modOf = {c}] :
                    c \in IntColumns(scope)}

Length(scope) == {[e EXCEPT !.node = "value", !.type = "INT", !.real = "INT"] :
                    e \in genLeaf("VARCHAR", scope)}

\* The condition of a CASE reads any column, and has no subquery.
InCase(type, scope) ==
  {Of("value", type, type, {RefOf(c)}) : c \in Columns(scope)}

\* An operator is tagged with what was asked for, whatever its operands are.
genScalar(type, scope, depth) ==
  LET number   == Family[type] = "numeric"
      operands == genLeaf(type, scope) \cup (IF number THEN Modulo(scope) ELSE {})
  IN  IF depth = 0 \/ Family[type] = "boolean" THEN genLeaf(type, scope)
      ELSE operands \cup {[e EXCEPT !.node = "value", !.type = type] : e \in operands}
             \cup InCase(type, scope) \cup (IF number THEN Length(scope) ELSE {})

\* SUM, MIN, MAX and AVG have the result's type in common.
Fold(node, scope) ==
  {Of(node, c.type, c.real, {RefOf(c)}) : c \in comparable(scope)}
    \cup {Of(node, "REAL", "REAL", {RefOf(c)}) : c \in numeric(scope)}
    \cup {Of(node, "INT", "INT", {})}

genAggCall(scope) ==
  Fold("aggregate", scope)
    \cup {Of("aggregate", "INT", "INT", {RefOf(c)}) : c \in comparable(scope)}

\* The columns of PARTITION BY and ORDER BY are any.
genWindowCall(scope) ==
  Fold("window", scope)
    \cup {Of("window", "INT", "INT", {RefOf(c)}) : c \in Columns(scope)}

-----------------------------------------------------------------------------
(* A call of genQuery. *)

\* What is left of a query that became an operand of another.
Shape(f) == [reals |-> [i \in DOMAIN f.items |-> Family[f.items[i].real]],
             ordered |-> f.orderBy # {}, limit |-> f.limit, offset |-> f.offset]

\* use: what the query is for; see: what its WHERE may name; todo: the depth
\* left for each expression its WHERE still lacks; compared: the family of the
\* value its WHERE compares a subquery with.
Query(use, purpose, target, depth, extras, outer) ==
  [use |-> use, purpose |-> purpose, target |-> target, depth |-> depth,
   extras |-> extras, outer |-> outer, step |-> "cte", cte |-> << >>,
   scope |-> << >>, joins |-> << >>, items |-> << >>, grouped |-> FALSE,
   groupBy |-> {}, having |-> {}, distinct |-> FALSE, see |-> << >>,
   todo |-> << >>, compared |-> "numeric", terms |-> {}, orderBy |-> {},
   limit |-> FALSE, offset |-> FALSE, lock |-> FALSE, setOp |-> "none",
   rhs |-> << >>]

\* Mutant of trimToSingleItem: only the select list is trimmed.
OneItem(f, keep) == [f EXCEPT !.items = <<@[keep]>>]

trimToSingleItem(f, keep) ==
  [f EXCEPT !.items = <<@[keep]>>, !.orderBy = {}, !.limit = FALSE,
            !.offset = FALSE]

Top      == Last(stack)
Become(f) == [stack EXCEPT ![Len(stack)] = f]
Caller   == stack[Len(stack) - 1]
Back(f)  == Append(SubSeq(stack, 1, Len(stack) - 2), f)
At(step) == stack # << >> /\ Top.step = step
Draws    == UNCHANGED << config, catalog, call, tables >>

Source(t) == [id |-> t, cols |-> Schema[t]]
Cands(f)  == {Source(t) : t \in tables} \cup Range(f.cte)
Aliased(src) == [alias |-> aliases, id |-> src.id, cols |-> src.cols]

\* Mutant of Unrelated: the query sees the tables of the one it is part of.
Related(use) ==
  Query(use, "standalone", NoTable, Top.depth + 1, FALSE, Top.scope)

\* A CTE's body, a set operation's right side.
Unrelated(use) == Query(use, "standalone", NoTable, Top.depth + 1, FALSE, << >>)

CteBody ==
  /\ At("cte") /\ Top.extras /\ TRUE \in Roll(config.cte)
  /\ stack' = Append(Become([Top EXCEPT !.step = "seed"]), Unrelated("cte"))
  /\ Draws /\ UNCHANGED aliases

NoCte ==
  /\ At("cte")
  /\ Top.extras => FALSE \in Roll(config.cte)
  /\ stack' = Become([Top EXCEPT !.step = "seed"])
  /\ Draws /\ UNCHANGED aliases

Numbered == aliases' = aliases + 1

Seed ==
  /\ At("seed")
  /\ \E src \in IF Top.target # NoTable THEN {Source(Top.target)} ELSE Cands(Top) :
       stack' = Become([Top EXCEPT !.step = "joins", !.scope = <<Aliased(src)>>])
  /\ Numbered /\ Draws

\* Joins: a foreign key between the base and a candidate, either way.
ParentEdges(f, base) ==
  {e \in [src : Cands(f), new : {1}, base : DOMAIN base.cols] :
     /\ base.cols[e.base].ref # NoTable
     /\ e.src.id = base.cols[e.base].ref}

ChildEdges(f, base) ==
  UNION {{[src |-> s, new |-> i, base |-> 1] :
            i \in {i \in DOMAIN s.cols : /\ s.cols[i].ref # NoTable
                                         /\ s.cols[i].ref = base.id}} :
           s \in Cands(f)}

Pairs(base, src) ==
  {p \in [src : {src}, new : DOMAIN src.cols, base : DOMAIN base.cols] :
     /\ Family[src.cols[p.new].type] = Family[base.cols[p.base].type]
     /\ Family[src.cols[p.new].type] # "boolean"}

OnKinds(f) ==
  {"inner", "left", IF f.purpose = "pkSelect" THEN "left" ELSE "right"}

HaveCross(f) == \E j \in Range(f.joins) : j.kind = "cross"

Joining == /\ At("joins") /\ Len(Top.joins) < config.maxJoins
           /\ TRUE \in Roll(config.join)
           /\ Numbered /\ Draws

Joined(src, kind, on) ==
  Become([Top EXCEPT !.scope = Append(@, Aliased(src)),
                     !.joins = Append(@, [kind |-> kind, on |-> on])])

JoinOn ==
  /\ Joining
  /\ \E base \in Range(Top.scope) :
     \E e \in ParentEdges(Top, base) \cup ChildEdges(Top, base)
                \cup UNION {Pairs(base, src) : src \in Cands(Top)},
        kind \in OnKinds(Top) :
       stack' = Joined(e.src, kind, {[alias |-> aliases, col |-> e.new],
                                     [alias |-> base.alias, col |-> e.base]})

\* The conditions have been seen: only the kinds of joins matter from here on.
JoinsDone == Become([Top EXCEPT !.step = "select",
                       !.joins = [j \in DOMAIN @ |-> [@[j] EXCEPT !.on = {}]]])

\* By chance, or because no two columns match.
JoinCross ==
  /\ Joining /\ ~HaveCross(Top)
  /\ \E src \in Cands(Top) : stack' = Joined(src, "cross", {})

NoSecondCross ==
  /\ Joining /\ HaveCross(Top)
  /\ \E base \in Range(Top.scope), src \in Cands(Top) : Pairs(base, src) = {}
  /\ stack' = JoinsDone

NoMoreJoins ==
  /\ At("joins")
  /\ Len(Top.joins) < config.maxJoins => FALSE \in Roll(config.join)
  /\ stack' = JoinsDone
  /\ Draws /\ UNCHANGED aliases

-----------------------------------------------------------------------------
(* The select list. *)

AtMost(n) == IF n < config.maxPicks THEN n ELSE config.maxPicks

Maybe(percent, set) ==
  {<<e>> : e \in IF TRUE \in Roll(percent) THEN set ELSE {}}
    \cup (IF FALSE \in Roll(percent) THEN {<< >>} ELSE {})

Selected(items) == [Top EXCEPT !.step = "where", !.items = items]

SelectKey ==
  /\ At("select") /\ Top.purpose = "pkSelect"
  /\ LET from == Top.scope[1]
         key  == CHOOSE c \in Columns(<<from>>) : c.col = 1
     IN  stack' = Become([Selected(<<colExpr(key)>>) EXCEPT
                            !.distinct = Top.joins # << >>])
  /\ Draws /\ UNCHANGED aliases

SelectAggregates ==
  /\ At("select") /\ Top.purpose # "pkSelect" /\ TRUE \in Roll(config.aggregate)
  /\ \E groups \in BoundedSeq(Columns(Top.scope), AtMost(2)),
        aggs   \in BoundedSeq(genAggCall(Top.scope), AtMost(2)) \ {<< >>},
        having \in Maybe(50, genAggCall(Top.scope)) :
       /\ IsInjective(groups)
       /\ stack' = Become([Selected([i \in DOMAIN groups |-> colExpr(groups[i])] \o aggs)
                             EXCEPT !.grouped = TRUE,
                                    !.groupBy = {RefOf(c) : c \in Range(groups)},
                                    !.having = Range(having)])
  /\ Draws /\ UNCHANGED aliases

SelectColumns ==
  /\ At("select") /\ Top.purpose # "pkSelect" /\ FALSE \in Roll(config.aggregate)
  /\ \E cols \in BoundedSeq(Columns(Top.scope), AtMost(4)) \ {<< >>},
        expr \in Maybe(50, UNION {genScalar(c.type, Top.scope, config.maxDepth) :
                                    c \in Columns(Top.scope)}),
        win  \in Maybe(IF Top.extras THEN config.window ELSE 0,
                       genWindowCall(Top.scope)) :
       stack' = Become(Selected([i \in DOMAIN cols |-> colExpr(cols[i])]
                                  \o expr \o win))
  /\ Draws /\ UNCHANGED aliases

-----------------------------------------------------------------------------
(* WHERE: genBool. *)

NoWhere ==
  /\ At("where")
  /\ stack' = Become([Top EXCEPT !.step = "tail"])
  /\ Draws /\ UNCHANGED aliases

Where ==
  /\ At("where")
  /\ \E correlated \in IF Top.outer = << >> THEN {FALSE} ELSE Roll(config.correlation) :
       stack' = Become([Top EXCEPT
                  !.step = "predicate", !.todo = <<config.maxDepth>>,
                  !.see = Top.scope \o (IF correlated THEN Top.outer ELSE << >>)])
  /\ Draws /\ UNCHANGED aliases

MayCombine == Head(Top.todo) > 0

Combine ==
  /\ At("predicate") /\ Top.todo # << >> /\ MayCombine
  /\ \E n \in {1, 2} :      \* NOT; AND, OR
       stack' = Become([Top EXCEPT !.todo =
                  [i \in 1 .. n |-> Head(@) - 1] \o Tail(@)])
  /\ Draws /\ UNCHANGED aliases

Term(op, families, e, sub) ==
  [op |-> op, families |-> families, refs |-> e.refs, modOf |-> e.modOf, sub |-> sub]

Childs(depth) == IF depth > 0 THEN depth - 1 ELSE 0

Compared(family) ==
  {Term("compare", {family, Family[e.real]}, e, << >>) :
     e \in genScalar(representative[family], Top.see, Childs(Head(Top.todo)))}

\* IS NULL, IN a list and BETWEEN; LIKE; a Boolean leaf.
Simple ==
  {Term("test", {Family[c.real]}, colExpr(c), << >>) : c \in Columns(Top.see)}
    \cup {Term("like", {Family[c.real]}, colExpr(c), << >>) :
            c \in pickColumn(Top.see, "string")}
    \cup {Term("leaf", {Family[e.real]}, e, << >>) : e \in genLeaf("BOOL", Top.see)}

Done(f, term) == [f EXCEPT !.terms = @ \cup {term}, !.todo = Tail(@)]

Test ==
  /\ At("predicate") /\ Top.todo # << >>
  /\ \E term \in Simple \cup UNION {Compared(fam) : fam \in FamiliesIn(Top.see)} :
       stack' = Become(Done(Top, term))
  /\ Draws /\ UNCHANGED aliases

\* Mutant of SubDepth: a subquery starts with its caller's budget.
SameDepth(f) == f.depth

SubDepth(f) == f.depth + 1

MayNest == /\ At("predicate") /\ Top.todo # << >>
           /\ tables # {} /\ Top.depth < config.maxSubqueries
           /\ TRUE \in Roll(config.subquery)
           /\ Draws /\ UNCHANGED aliases

Subquery(use) ==
  Query(use, "standalone", NoTable, SubDepth(Top), FALSE, Top.see)

NestTest == MayNest /\ stack' = Append(stack, Subquery("test"))

NestOperand ==
  /\ MayNest
  /\ \E fam \in FamiliesIn(Top.see) \ {"boolean"} :
       stack' = Append(Become([Top EXCEPT !.compared = fam]), Subquery("operand"))

EndWhere ==
  /\ At("predicate") /\ Top.todo = << >>
  /\ stack' = Become([Top EXCEPT !.terms = {}, !.see = << >>,
                !.step = IF Top.purpose = "predicate" THEN "ready" ELSE "tail"])
  /\ Draws /\ UNCHANGED aliases

-----------------------------------------------------------------------------
(* ORDER BY, LIMIT, DISTINCT and the set operation. *)

Plain(items) == UNION {e.refs : e \in {e \in Range(items) : e.node = "column"}}

\* Mutant of Orderable: any column of the tables will do.
AnyColumn(f) == {RefOf(c) : c \in Columns(f.scope)}

Orderable(f) == Plain(f.items)

Orders(refs) ==
  {o \in SUBSET refs : /\ Cardinality(o) <= 2
                       /\ o = {} => FALSE \in Roll(config.orderBy) \/ refs = {}
                       /\ o # {} => TRUE \in Roll(config.orderBy)}

Ending ==
  /\ At("tail")
  /\ LET key == Top.purpose = "pkSelect"
     IN  \E order    \in Orders(Orderable(Top)),
            limit    \in IF key THEN {FALSE} ELSE Roll(config.limit),
            offset   \in BOOLEAN,
            distinct \in IF key \/ Top.grouped THEN {Top.distinct} ELSE BOOLEAN :
           /\ offset => limit
           /\ stack' = Become([Top EXCEPT !.step = "setop", !.orderBy = order,
                         !.limit = limit, !.offset = offset, !.distinct = distinct])
  /\ Draws /\ UNCHANGED aliases

NoSetOp ==
  /\ At("setop")
  /\ Top.extras => FALSE \in Roll(config.setop)
  /\ stack' = Become([Top EXCEPT !.step = "ready"])
  /\ Draws /\ UNCHANGED aliases

SetOp ==
  /\ At("setop") /\ Top.extras /\ TRUE \in Roll(config.setop)
  /\ stack' = Append(Become([Top EXCEPT !.step = "ready"]), Unrelated("rhs"))
  /\ Draws /\ UNCHANGED aliases

-----------------------------------------------------------------------------
(* The return from a call, to the one that made it. *)

Returns(use) == /\ At("ready") /\ Top.use = use
                /\ Draws

\* The CTE is a table of the body's items, with the types they are tagged with.
ReturnCte ==
  /\ Returns("cte")
  /\ stack' = Back([Caller EXCEPT !.cte =
       <<[id |-> NoTable,
          cols |-> [i \in DOMAIN Top.items |->
                      [type |-> Top.items[i].type, real |-> Top.items[i].real,
                       ref |-> NoTable]]]>>])
  /\ Numbered

ReturnExists ==
  /\ Returns("test")
  /\ stack' = Back(Done(Caller, Term("exists", {}, genLiteral("BOOL"), <<Shape(Top)>>)))
  /\ UNCHANGED aliases

ReturnIn ==
  /\ Returns("test")
  /\ \E keep \in DOMAIN Top.items :
       LET sub == trimToSingleItem(Top, keep)
       IN  \E arg \in genLeaf(sub.items[1].type, Caller.see) :
             stack' = Back(Done(Caller, Term("in", {Family[arg.real]}, arg, <<Shape(sub)>>)))
  /\ UNCHANGED aliases

\* Without an item of the family the subquery is dropped, and the operand is
\* generated as any other is.
ReturnOperand ==
  /\ Returns("operand")
  /\ LET matching == {i \in DOMAIN Top.items : Family[Top.items[i].type] = Caller.compared}
     IN  \E e \in genScalar(representative[Caller.compared], Caller.see,
                            Childs(Head(Caller.todo))) :
         LET families == {Caller.compared, Family[e.real]}
         IN  \/ /\ matching = {}
                /\ stack' = Back(Done(Caller, Term("compare", families, e, << >>)))
             \/ \E keep \in matching :
                  LET sub == [trimToSingleItem(Top, keep) EXCEPT !.limit = TRUE]
                  IN  stack' = Back(Done(Caller, Term("scalar", families, e, <<Shape(sub)>>)))
  /\ UNCHANGED aliases

\* The right side's select list in the shape of the left's.
Aligned(items, rhs) ==
  [i \in DOMAIN items |->
     IF i \in DOMAIN rhs /\ Family[rhs[i].type] = Family[items[i].type] THEN rhs[i]
     ELSE genLiteral(representative[Family[items[i].type]])]

ReturnRhs ==
  /\ Returns("rhs")
  /\ \E kind  \in {"union"} \cup (IF config.intersect THEN {"intersect"} ELSE {}),
        order \in Orders({[alias |-> Output, col |-> i] : i \in DOMAIN Caller.items}) :
       /\ Cardinality(order) <= 1
       /\ stack' = Back([Caller EXCEPT
            !.setOp = kind, !.orderBy = order,
            !.rhs = <<Shape([Top EXCEPT !.items = Aligned(Caller.items, @),
                                        !.orderBy = {}, !.offset = FALSE])>>])
  /\ UNCHANGED aliases

-----------------------------------------------------------------------------
(* The actions: DeleteData and UpdateOneRow want a predicate, SelectThenDelete  *)
(* and SelectThenUpdate a query for keys, SelectQuery any query.                *)

Nothing == [step |-> "idle", purpose |-> "standalone", target |-> NoTable,
            lock |-> FALSE, limit |-> FALSE]

Init ==
  /\ config \in Configs
  /\ catalog = config.catalog
  /\ call = Nothing
  /\ tables = {} /\ aliases = FirstAlias /\ stack = << >>

\* find_random_table; the rows and the lock of a query for keys.
Ask ==
  /\ call.step = "idle"
  /\ \E purpose \in config.purposes :
     \E target \in IF purpose = "standalone" THEN {NoTable} ELSE catalog,
        lock, limit \in IF purpose = "pkSelect" THEN BOOLEAN ELSE {FALSE} :
       call' = [step |-> "asked", purpose |-> purpose, target |-> target,
                lock |-> lock, limit |-> limit]
  /\ UNCHANGED << config, catalog, tables, aliases, stack >>

\* The other workers' DDL.
Others ==
  /\ call.step = "asked"
  /\ catalog' \in config.later
  /\ UNCHANGED << config, call, tables, aliases, stack >>

\* The constructor, and what generate() and its like test first.
NoUsableTable == call.purpose # "predicate" /\ catalog = {}

Predicate(target) ==
  LET scope == <<[Aliased(Source(target)) EXCEPT !.alias = Qualifier]>>
  IN  [Query("top", "predicate", target, 0, FALSE, << >>) EXCEPT
         !.step = "predicate", !.scope = scope, !.see = scope,
         !.todo = <<config.maxDepth>>]

\* Mutant of Readable: the target stays in.
Everything == catalog

Readable == catalog \ (IF call.purpose = "predicate" THEN {call.target} ELSE {})

Generate ==
  /\ call.step = "asked" /\ ~NoUsableTable
  /\ tables' = Readable
  /\ stack' = IF call.purpose = "predicate" THEN <<Predicate(call.target)>>
              ELSE <<Query("top", call.purpose, call.target, 0,
                           call.purpose = "standalone", << >>)>>
  /\ call' = [call EXCEPT !.step = "generating"]
  /\ UNCHANGED << config, catalog, aliases >>

\* generatePkSelect's last lines, and the statement with the rendered query.
Send ==
  /\ call.step = "generating" /\ At("ready") /\ Top.use = "top"
  /\ stack' = Become([Top EXCEPT
                        !.step = "done", !.lock = call.lock,
                        !.limit = @ \/ call.limit,
                        !.distinct = @ /\ ~call.lock])
  /\ call' = [call EXCEPT !.step = "sent"]
  /\ UNCHANGED << config, catalog, tables, aliases >>

\* generate() and generatePkSelect() return no query.  SelectQuery throws for
\* it; the others render what is not there.
NoQuery ==
  /\ call.step = "asked" /\ NoUsableTable
  /\ call' = [call EXCEPT !.step = IF call.purpose = "standalone" THEN "failed"
                                   ELSE "undefined"]
  /\ UNCHANGED << config, catalog, tables, aliases, stack >>

Select  == SelectKey \/ SelectAggregates \/ SelectColumns
Join    == JoinOn \/ JoinCross \/ NoSecondCross \/ NoMoreJoins
GenBool == Combine \/ Test \/ NestTest \/ NestOperand \/ EndWhere
Return  == ReturnCte \/ ReturnExists \/ ReturnIn \/ ReturnOperand \/ ReturnRhs

Next == \/ Ask \/ Others \/ Generate \/ NoQuery
        \/ CteBody \/ NoCte \/ Seed \/ Join \/ Select
        \/ NoWhere \/ Where \/ GenBool \/ Ending \/ NoSetOp \/ SetOp
        \/ Return \/ Send

Spec == Init /\ [][Next]_vars

-----------------------------------------------------------------------------
(* Properties. *)

OwnRefs(f) == {RefOf(c) : c \in Columns(f.scope)}

\* The calls whose tables the i-th may name in its WHERE: itself and, while they
\* are operands, those it is inside of.  A CTE and the right side of a set
\* operation see nobody else's.
Enclosing(i) ==
  {k \in 1 .. i : \A m \in k + 1 .. i : stack[m].use \in {"test", "operand"}}

\* RefsResolve: every column reference of a query names a column of a table it
\* can see where it stands: its own FROM for the select list, GROUP BY, HAVING
\* and ORDER BY, the tables joined so far for a join, and for WHERE also those of
\* the queries it is nested in (genQuery's scope, whereScope and outer).  And it
\* means that table: no two of the queries under construction share an alias
\* (freshAlias), so an inner table never hides an outer one.
RefsResolve ==
  \A i \in DOMAIN stack :
    LET f == stack[i] IN
    /\ \A e \in Range(f.items) \cup f.having : e.refs \subseteq OwnRefs(f)
    /\ f.groupBy \subseteq OwnRefs(f)
    /\ f.rhs = << >> => f.orderBy \subseteq OwnRefs(f)
    /\ \A j \in DOMAIN f.joins :
         f.joins[j].on \subseteq OwnRefs([f EXCEPT !.scope = SubSeq(@, 1, j + 1)])
    /\ \A t \in f.terms :
         t.refs \subseteq UNION {OwnRefs(stack[k]) : k \in Enclosing(i)}
    /\ \A k \in DOMAIN stack : \A a \in DOMAIN f.scope, b \in DOMAIN stack[k].scope :
         f.scope[a].alias = stack[k].scope[b].alias => i = k /\ a = b

\* NestingBounded: queries nest no deeper than max_subquery_depth, but for the
\* body of a CTE and the right side of a set operation, which are at depth one
\* whatever the limit is.
NestingBounded ==
  Len(stack) <= 1 + (IF config.maxSubqueries = 0 THEN 1 ELSE config.maxSubqueries)

\* A term's operands are of one family.  A subquery that is one has a single
\* item of that family, no ORDER BY or OFFSET, and a LIMIT only to cap a scalar
\* subquery: MySQL rejects a LIMIT inside IN, and both a second row or column.
TermFits(t) ==
  /\ Cardinality(t.families) <= 1
  /\ t.op = "like" => t.families = {"string"}
  /\ t.op \in {"in", "scalar"} =>
       t.sub[1] = [reals |-> <<CHOOSE fam \in t.families : TRUE>>, ordered |-> FALSE,
                   limit |-> t.op = "scalar", offset |-> FALSE]

\* Both sides of a set operation have as many items, of the same families; the
\* right one has no ORDER BY or OFFSET; only a server with INTERSECT is asked.
SidesFit(f) ==
  f.rhs # << >> =>
    /\ f.rhs[1].reals = [c \in DOMAIN f.items |-> Family[f.items[c].real]]
    /\ ~f.rhs[1].ordered /\ ~f.rhs[1].offset
    /\ f.setOp = "intersect" => config.intersect

\* The operands of % are integers, which is all PostgreSQL has % for, as
\* genScalar's comment says; but a column of a CTE is tagged INT although it is
\* REAL when an operator was applied to a REAL one.
ModuloFits(e) == \A c \in e.modOf : c.real = "INT" \/ c.id = NoTable

\* OperandsFit: what a comparison, a set operation or % is applied to fits it by
\* the server's types, not only by the generator's tags.
OperandsFit ==
  \A i \in DOMAIN stack :
    LET f == stack[i] IN
    /\ SidesFit(f)
    /\ \A t \in f.terms : TermFits(t)
    /\ \A e \in Range(f.items) \cup f.having \cup f.terms : ModuloFits(e)

\* A query that locks the rows of its target does so as PostgreSQL allows: no
\* DISTINCT, GROUP BY, CTE or set operation, and no join that could null the
\* target's row; what it returns is the target's key.
Lockable(f) ==
  /\ ~f.distinct /\ ~f.grouped /\ f.setOp = "none" /\ f.cte = << >>
  /\ \A j \in Range(f.joins) : j.kind # "right"
  /\ f.scope[1].id = call.target
  /\ f.items = <<colExpr([alias |-> f.scope[1].alias, col |-> 1,
                          type |-> f.scope[1].cols[1].type,
                          real |-> f.scope[1].cols[1].real])>>

\* ClausesAgree: the clauses of a query, drawn one after the other, allow each
\* other.  A query with aggregates selects beside them only what it groups by,
\* and no window; ORDER BY names what is selected, by its column, or by its
\* output name over a set operation, so that neither DISTINCT nor a set
\* operation rejects it; and what locks may.
ClausesAgree ==
  \A i \in DOMAIN stack :
    LET f == stack[i] IN
    /\ f.grouped => /\ \A e \in Range(f.items) : e.node # "window"
                    /\ Plain(f.items) \subseteq f.groupBy
    /\ f.orderBy \subseteq
         IF f.setOp = "none" THEN Plain(f.items)
         ELSE {[alias |-> Output, col |-> c] : c \in DOMAIN f.items}
    /\ f.lock => Lockable(f)

\* TargetNotRead: the subqueries of an UPDATE's or a DELETE's predicate read no
\* row of its target, which MySQL refuses (ER_UPDATE_TABLE_USED), whichever way
\* they reach their tables: as the first, by a foreign key or by a join.
TargetNotRead ==
  call.purpose = "predicate" =>
    \A i \in 2 .. Len(stack) :
      \A a \in DOMAIN stack[i].scope : stack[i].scope[a].id # call.target
=============================================================================

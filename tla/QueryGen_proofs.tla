-------------------------- MODULE QueryGen_proofs ---------------------------
(***************************************************************************)
(* Proofs about QueryGen: for any schema, catalog and configuration.       *)
(***************************************************************************)
EXTENDS QueryGen, FiniteSetTheorems, TLAPS

-----------------------------------------------------------------------------
(* How a call of genQuery goes on.                                           *)

Fields == {"use", "purpose", "target", "depth", "extras", "outer", "step", "cte",
           "scope", "joins", "items", "grouped", "groupBy", "having", "distinct",
           "see", "todo", "compared", "terms", "orderBy", "limit", "offset",
           "lock", "setOp", "rhs"}

IsFrame(f) == DOMAIN f = Fields

\* g is the same call of genQuery as f.
SameCall(f, g) ==
  /\ IsFrame(g)
  /\ g.use = f.use /\ g.purpose = f.purpose /\ g.target = f.target
  /\ g.depth = f.depth /\ g.extras = f.extras /\ g.outer = f.outer

\* And it reads the same tables.
SameFrom(f, g) == SameCall(f, g) /\ g.scope = f.scope /\ g.cte = f.cte

LEMMA StageSame ==
  ASSUME NEW f, IsFrame(f), NEW s
  PROVE  SameFrom(f, [f EXCEPT !.step = s])
BY DEF IsFrame, Fields, SameFrom, SameCall

LEMMA JoinsDoneSame ==
  ASSUME NEW f, IsFrame(f)
  PROVE  SameFrom(f, [f EXCEPT !.step = "select",
                       !.joins = [j \in DOMAIN @ |-> [@[j] EXCEPT !.on = {}]]])
BY DEF IsFrame, Fields, SameFrom, SameCall

LEMMA WhereSame ==
  ASSUME NEW f, IsFrame(f), NEW a, NEW b, NEW c
  PROVE  /\ SameFrom(f, [f EXCEPT !.step = a, !.todo = b, !.see = c])
         /\ SameFrom(f, [f EXCEPT !.todo = b])
         /\ SameFrom(f, [f EXCEPT !.compared = a])
         /\ SameFrom(f, [f EXCEPT !.terms = a, !.see = b, !.step = c])
BY DEF IsFrame, Fields, SameFrom, SameCall

LEMMA DoneSame ==
  ASSUME NEW f, IsFrame(f), NEW term
  PROVE  SameFrom(f, Done(f, term))
BY DEF IsFrame, Fields, SameFrom, SameCall, Done

LEMMA EndingSame ==
  ASSUME NEW f, IsFrame(f), NEW a, NEW b, NEW c, NEW d, NEW e
  PROVE  /\ SameFrom(f, [f EXCEPT !.step = a, !.orderBy = b, !.limit = c,
                                  !.offset = d, !.distinct = e])
         /\ SameFrom(f, [f EXCEPT !.setOp = a, !.orderBy = b, !.rhs = c])
BY DEF IsFrame, Fields, SameFrom, SameCall

LEMMA SendSame ==
  ASSUME NEW f, IsFrame(f), NEW a, NEW b, NEW c, NEW d
  PROVE  SameFrom(f, [f EXCEPT !.step = a, !.lock = b, !.limit = c, !.distinct = d])
BY DEF IsFrame, Fields, SameFrom, SameCall

-----------------------------------------------------------------------------
(* What an expression refers to.                                             *)

Own(scope) == {RefOf(c) : c \in Columns(scope)}

\* Refers to nothing but V.
Within(e, V) == "refs" \in DOMAIN e /\ e.refs \subseteq V

LEMMA ChangedWithin ==
  ASSUME NEW e, NEW V, Within(e, V), NEW a, NEW b, NEW c
  PROVE  /\ Within([e EXCEPT !.node = a, !.type = b], V)
         /\ Within([e EXCEPT !.node = a, !.type = b, !.real = c], V)
         /\ Within([e EXCEPT !.modOf = a], V)
BY DEF Within

LEMMA OfWithin ==
  ASSUME NEW node, NEW type, NEW real, NEW refs, NEW V, refs \subseteq V
  PROVE  Within(Of(node, type, real, refs), V)
BY DEF Within, Of

LEMMA ColumnWithin ==
  ASSUME NEW scope, NEW c \in Columns(scope)
  PROVE  /\ {RefOf(c)} \subseteq Own(scope)
         /\ Within(colExpr(c), Own(scope)) /\ colExpr(c).refs = {RefOf(c)}
<1>1. {RefOf(c)} \subseteq Own(scope)
  BY Zenon DEF Own
<1>2. Within(colExpr(c), Own(scope))
  BY <1>1, OfWithin DEF colExpr
<1>3. colExpr(c).refs = {RefOf(c)}
  BY DEF colExpr, Of
<1>4. QED
  BY <1>1, <1>2, <1>3

LEMMA LiteralWithin ==
  ASSUME NEW type, NEW V
  PROVE  Within(genLiteral(type), V)
BY OfWithin DEF genLiteral

LEMMA LeafWithin ==
  ASSUME NEW type, NEW scope
  PROVE  \A e \in genLeaf(type, scope) : Within(e, Own(scope))
<1>1. pickColumn(scope, Family[type]) \subseteq Columns(scope)
  BY DEF pickColumn
<1>2. QED
  BY <1>1, ColumnWithin, LiteralWithin DEF genLeaf

LEMMA ScalarWithin ==
  ASSUME NEW type, NEW scope, NEW depth
  PROVE  \A e \in genScalar(type, scope, depth) : Within(e, Own(scope))
<1> DEFINE number   == Family[type] = "numeric"
           operands == genLeaf(type, scope) \cup (IF number THEN Modulo(scope) ELSE {})
           towers   == {[e EXCEPT !.node = "value", !.type = type] : e \in operands}
           V        == Own(scope)
<1>1. \A e \in Modulo(scope) : Within(e, V)
  <2>1. ASSUME NEW c \in Columns(scope)
        PROVE  Within([Of("value", "INT", c.real, {RefOf(c)}) EXCEPT !.modOf = {c}], V)
    <3>1. {RefOf(c)} \subseteq V
      BY ColumnWithin
    <3>2. Within(Of("value", "INT", c.real, {RefOf(c)}), V)
      BY <3>1, OfWithin
    <3> HIDE DEF V
    <3>3. QED
      BY <3>2, ChangedWithin
  <2> HIDE DEF V
  <2>2. QED
    BY <2>1, Zenon DEF Modulo, IntColumns
<1>2. \A e \in operands : Within(e, V)
  BY <1>1, LeafWithin
<1>3. \A e \in towers : Within(e, V)
  <2> HIDE DEF operands, V
  <2>1. \A e \in operands : Within([e EXCEPT !.node = "value", !.type = type], V)
    BY <1>2, ChangedWithin
  <2>2. QED
    BY <2>1, Zenon
<1>4. \A e \in InCase(type, scope) : Within(e, V)
  <2>1. \A c \in Columns(scope) : Within(Of("value", type, type, {RefOf(c)}), V)
    BY ColumnWithin, OfWithin
  <2>2. QED
    BY <2>1, Zenon DEF InCase
<1>5. \A e \in Length(scope) : Within(e, V)
  <2>1. \A e \in genLeaf("VARCHAR", scope) : Within(e, V)
    BY LeafWithin
  <2> HIDE DEF V
  <2>2. \A e \in genLeaf("VARCHAR", scope) :
          Within([e EXCEPT !.node = "value", !.type = "INT", !.real = "INT"], V)
    BY <2>1, ChangedWithin
  <2>3. QED
    BY <2>2, Zenon DEF Length
<1>6. genScalar(type, scope, depth) \subseteq
        genLeaf(type, scope) \cup operands \cup towers \cup InCase(type, scope)
          \cup Length(scope)
  <2> HIDE DEF V
  <2>1. QED
    BY Zenon DEF genScalar
<1> HIDE DEF towers, operands
<1>7. QED
  BY <1>2, <1>3, <1>4, <1>5, <1>6, LeafWithin

LEMMA CallsWithin ==
  ASSUME NEW scope
  PROVE  /\ \A e \in genAggCall(scope) : Within(e, Own(scope))
         /\ \A e \in genWindowCall(scope) : Within(e, Own(scope))
<1>1. comparable(scope) \subseteq Columns(scope) /\ numeric(scope) \subseteq Columns(scope)
  BY DEF comparable, numeric, pickColumn
<1>2. ASSUME NEW node, NEW type, NEW real
      PROVE  /\ Within(Of(node, type, real, {}), Own(scope))
             /\ \A c \in Columns(scope) : Within(Of(node, type, real, {RefOf(c)}), Own(scope))
  BY ColumnWithin, OfWithin
<1>3. ASSUME NEW node PROVE \A e \in Fold(node, scope) : Within(e, Own(scope))
  <2>1. Within(Of(node, "INT", "INT", {}), Own(scope))
    BY <1>2
  <2>2. \A c \in comparable(scope) :
          Within(Of(node, c.type, c.real, {RefOf(c)}), Own(scope))
    BY <1>1, <1>2
  <2>3. \A c \in numeric(scope) :
          Within(Of(node, "REAL", "REAL", {RefOf(c)}), Own(scope))
    BY <1>1, <1>2
  <2>4. QED
    BY <2>1, <2>2, <2>3, Zenon DEF Fold
<1>4. \A e \in genAggCall(scope) : Within(e, Own(scope))
  <2>1. \A c \in comparable(scope) :
          Within(Of("aggregate", "INT", "INT", {RefOf(c)}), Own(scope))
    BY <1>1, <1>2
  <2>2. \A e \in Fold("aggregate", scope) : Within(e, Own(scope))
    BY <1>3
  <2>3. QED
    BY <2>1, <2>2, Zenon DEF genAggCall
<1>5. \A e \in genWindowCall(scope) : Within(e, Own(scope))
  <2>1. \A c \in Columns(scope) :
          Within(Of("window", "INT", "INT", {RefOf(c)}), Own(scope))
    BY <1>2
  <2>2. \A e \in Fold("window", scope) : Within(e, Own(scope))
    BY <1>3
  <2>3. QED
    BY <2>1, <2>2, Zenon DEF genWindowCall
<1>6. QED
  BY <1>4, <1>5

-----------------------------------------------------------------------------
(* Sequences.                                                                *)

IsSeq(s) == s \in Seq(Range(s))

LEMMA SeqIsSeq ==
  ASSUME NEW S, NEW s \in Seq(S)
  PROVE  IsSeq(s) /\ Len(s) \in Nat /\ DOMAIN s = 1 .. Len(s)
BY DEF IsSeq, Range

LEMMA FunctionIsSeq ==
  ASSUME NEW n \in Nat, NEW t, t = [j \in 1 .. n |-> t[j]]
  PROVE  IsSeq(t) /\ Len(t) = n /\ DOMAIN t = 1 .. n
<1>1. DOMAIN t = 1 .. n
  OBVIOUS
<1>2. \A j \in 1 .. n : t[j] \in Range(t)
  BY <1>1 DEF Range
<1> DEFINE R == Range(t)
<1> HIDE DEF R
<1>3. t \in Seq(R)
  BY <1>2 DEF R
<1>4. QED
  BY <1>1, <1>3 DEF IsSeq, R

LEMMA AppendIsSeq ==
  ASSUME NEW s, IsSeq(s), NEW e
  PROVE  /\ IsSeq(Append(s, e)) /\ Len(s) \in Nat
         /\ DOMAIN s = 1 .. Len(s)
         /\ Len(Append(s, e)) = Len(s) + 1
         /\ DOMAIN Append(s, e) = 1 .. Len(s) + 1
         /\ Append(s, e)[Len(s) + 1] = e
         /\ \A i \in 1 .. Len(s) : Append(s, e)[i] = s[i]
         /\ Range(Append(s, e)) = Range(s) \cup {e}
<1>1. s \in Seq(Range(s) \cup {e})
  BY DEF IsSeq, Range
<1>2. Append(s, e) \in Seq(Range(s) \cup {e})
  BY <1>1
<1>3. IsSeq(Append(s, e))
  BY <1>2, SeqIsSeq
<1>4. /\ Len(s) \in Nat /\ DOMAIN s = 1 .. Len(s)
      /\ Len(Append(s, e)) = Len(s) + 1
      /\ DOMAIN Append(s, e) = 1 .. Len(s) + 1
      /\ Append(s, e)[Len(s) + 1] = e
      /\ \A i \in 1 .. Len(s) : Append(s, e)[i] = s[i]
  BY <1>1
<1>5. Range(Append(s, e)) = Range(s) \cup {e}
  BY <1>4 DEF Range
<1>6. QED
  BY <1>3, <1>4, <1>5

\* Prefix of a sequence.
LEMMA PrefixIsSeq ==
  ASSUME NEW s, IsSeq(s), NEW n \in 0 .. Len(s)
  PROVE  /\ IsSeq(SubSeq(s, 1, n)) /\ Len(SubSeq(s, 1, n)) = n
         /\ DOMAIN SubSeq(s, 1, n) = 1 .. n
         /\ \A i \in 1 .. n : SubSeq(s, 1, n)[i] = s[i]
<1>1. s \in Seq(Range(s)) /\ Len(s) \in Nat /\ DOMAIN s = 1 .. Len(s)
  BY DEF IsSeq
<1>2. /\ Len(SubSeq(s, 1, n)) = n /\ DOMAIN SubSeq(s, 1, n) = 1 .. n
      /\ \A i \in 1 .. n : SubSeq(s, 1, n)[i] = s[i]
      /\ SubSeq(s, 1, n) \in Seq(Range(s))
  BY <1>1
<1>3. QED
  BY <1>2, SeqIsSeq

\* Become: the last element of a sequence replaced.
LEMMA LastReplaced ==
  ASSUME NEW s, IsSeq(s), s # << >>, NEW g, NEW t, t = [s EXCEPT ![Len(s)] = g]
  PROVE  /\ IsSeq(t) /\ Len(t) = Len(s) /\ Len(s) \in Nat \ {0}
         /\ DOMAIN t = 1 .. Len(s) /\ DOMAIN s = 1 .. Len(s)
         /\ t[Len(s)] = g /\ t # << >>
         /\ \A i \in 1 .. Len(s) - 1 : t[i] = s[i]
<1>1. s \in Seq(Range(s) \cup {g}) /\ Len(s) \in Nat \ {0} /\ DOMAIN s = 1 .. Len(s)
  BY DEF IsSeq, Range
<1>2. t \in Seq(Range(s) \cup {g})
  BY <1>1
<1>3. Len(t) = Len(s) /\ DOMAIN t = 1 .. Len(s) /\ t[Len(s)] = g
      /\ \A i \in 1 .. Len(s) - 1 : t[i] = s[i]
  BY <1>1, <1>2
<1>4. QED
  BY <1>1, <1>2, <1>3, SeqIsSeq

-----------------------------------------------------------------------------
(* What holds of a call by itself.                                           *)

Known(src) == src.id # NoTable => src.id \in Table /\ src.cols = Schema[src.id]

BeforeSeed(f) == f.step \in {"cte", "seed"}

\* The FROM clause as far as it is built.
FromOk(f) ==
  /\ IsSeq(f.scope) /\ IsSeq(f.joins)
  /\ BeforeSeed(f) => f.scope = << >> /\ f.joins = << >>
  /\ ~BeforeSeed(f) => Len(f.scope) = Len(f.joins) + 1
  /\ \A s \in Range(f.scope) : Known(s)
  /\ \A s \in Range(f.cte) : s.id = NoTable
  /\ \A j \in DOMAIN f.joins : f.joins[j].on \subseteq Own(SubSeq(f.scope, 1, j + 1))
  /\ f.target # NoTable => /\ f.target \in Table
                           /\ f.scope # << >> => f.scope[1].id = f.target
  /\ f.purpose = "pkSelect" => f.target # NoTable

\* What it selects and orders by refers to its own tables.
ListOk(f) ==
  /\ \A e \in Range(f.items) : Within(e, Own(f.scope))
  /\ \A e \in f.having : Within(e, Own(f.scope))
  /\ f.groupBy \subseteq Own(f.scope)
  /\ f.rhs = << >> => f.orderBy \subseteq Own(f.scope)

\* Before the select list is drawn.
Early(f) == f.step \in {"cte", "seed", "joins", "select"}

OutputsOf(items) == {[alias |-> Output, col |-> c] : c \in DOMAIN items}

\* The select list of a query for keys.
KeyOf(src) == <<colExpr([alias |-> src.alias, col |-> 1, type |-> src.cols[1].type,
                         real |-> src.cols[1].real])>>

\* A query for keys has nothing that a row lock does not allow.
KeyOnly(f) ==
  /\ f.grouped = FALSE /\ f.setOp = "none" /\ f.cte = << >>
  /\ \A j \in Range(f.joins) : "kind" \in DOMAIN j /\ j.kind # "right"
  /\ ~Early(f) => f.items = KeyOf(f.scope[1])

\* The clauses drawn so far agree, and the others are as they were.
Drawn(f) ==
  /\ f.grouped => /\ \A e \in Range(f.items) : e.node # "window"
                  /\ Plain(f.items) \subseteq f.groupBy
  /\ f.setOp = "none" => f.orderBy \subseteq Plain(f.items)
  /\ f.setOp # "none" => f.orderBy \subseteq OutputsOf(f.items)
  /\ Early(f) => f.grouped = FALSE /\ f.orderBy = {}
  /\ f.step \notin {"ready", "done"} => f.setOp = "none"
  /\ f.step # "done" => f.lock = FALSE
  /\ f.extras => f.purpose = "standalone"
  /\ f.purpose = "pkSelect" => KeyOnly(f)
  /\ f.lock => f.purpose = "pkSelect" /\ ~f.distinct

\* g comes after f: the WHERE of g refers to what f could see.
Goes(f, g) ==
  /\ SameCall(f, g) /\ FromOk(g) /\ ListOk(g) /\ Drawn(g) /\ g.scope = f.scope
  /\ \A t \in g.terms : t \in f.terms \/ t.refs \subseteq Own(f.see)
  /\ g.see \in {f.see, << >>, f.scope, f.scope \o f.outer, f.scope \o << >>}

LEMMA FromKept ==
  ASSUME NEW f, FromOk(f), NEW g, SameFrom(f, g), g.joins = f.joins,
         BeforeSeed(f) <=> BeforeSeed(g)
  PROVE  FromOk(g)
BY DEF FromOk, SameFrom, SameCall

LEMMA ListKept ==
  ASSUME NEW f, ListOk(f), NEW g, SameFrom(f, g), g.items = f.items,
         g.having = f.having, g.groupBy = f.groupBy, g.orderBy = f.orderBy,
         g.rhs = f.rhs
  PROVE  ListOk(g)
BY DEF ListOk, SameFrom, SameCall

LEMMA DrawnKept ==
  ASSUME NEW f, Drawn(f), NEW g, SameFrom(f, g), g.joins = f.joins, g.items = f.items,
         g.groupBy = f.groupBy, g.orderBy = f.orderBy, g.grouped = f.grouped,
         g.setOp = f.setOp, g.lock = f.lock, g.distinct = f.distinct,
         Early(f) <=> Early(g), g.step # "done" => f.step # "done",
         g.step \notin {"ready", "done"} => f.step \notin {"ready", "done"}
  PROVE  Drawn(g)
<1>1. KeyOnly(f) => KeyOnly(g)
  BY DEF KeyOnly, SameFrom
<1>2. QED
  BY <1>1 DEF Drawn, SameFrom, SameCall

LEMMA OwnOfNone == Own(<< >>) = {}
BY DEF Own, Columns, Range

LEMMA StageGoes ==
  ASSUME NEW f, IsFrame(f), FromOk(f), ListOk(f), Drawn(f), NEW s,
         BeforeSeed(f) <=> s \in {"cte", "seed"},
         Early(f) <=> s \in {"cte", "seed", "joins", "select"},
         f.step \notin {"ready", "done"}
  PROVE  Goes(f, [f EXCEPT !.step = s])
<1> DEFINE g == [f EXCEPT !.step = s]
<1>1. /\ g.step = s /\ g.joins = f.joins /\ g.items = f.items
      /\ g.groupBy = f.groupBy /\ g.having = f.having /\ g.see = f.see
      /\ g.terms = f.terms /\ g.orderBy = f.orderBy /\ g.rhs = f.rhs
      /\ g.grouped = f.grouped /\ g.setOp = f.setOp /\ g.lock = f.lock
      /\ g.distinct = f.distinct
  BY DEF IsFrame, Fields
<1>2. SameFrom(f, g)
  BY StageSame
<1> HIDE DEF g
<1>3. FromOk(g) /\ ListOk(g) /\ Drawn(g)
  BY <1>1, <1>2, FromKept, ListKept, DrawnKept DEF BeforeSeed, Early
<1>4. QED
  BY <1>1, <1>2, <1>3 DEF Goes, SameFrom, g

LEMMA JoinsDoneGoes ==
  ASSUME NEW f, IsFrame(f), FromOk(f), ListOk(f), Drawn(f), f.step = "joins", NEW g,
         g = [f EXCEPT !.step = "select",
                !.joins = [j \in DOMAIN @ |-> [@[j] EXCEPT !.on = {}]]]
  PROVE  Goes(f, g)
<1> DEFINE js == [j \in DOMAIN f.joins |-> [f.joins[j] EXCEPT !.on = {}]]
<1>1. /\ g.step = "select" /\ g.joins = js /\ g.items = f.items
      /\ g.groupBy = f.groupBy /\ g.having = f.having /\ g.see = f.see
      /\ g.terms = f.terms /\ g.orderBy = f.orderBy /\ g.rhs = f.rhs
      /\ g.grouped = f.grouped /\ g.setOp = f.setOp /\ g.lock = f.lock
      /\ g.distinct = f.distinct
  BY DEF IsFrame, Fields
<1>2. SameFrom(f, g)
  BY JoinsDoneSame
<1>3. IsSeq(js) /\ Len(js) = Len(f.joins) /\ DOMAIN js = DOMAIN f.joins
  <2>1. f.joins \in Seq(Range(f.joins)) /\ DOMAIN f.joins = 1 .. Len(f.joins)
        /\ Len(f.joins) \in Nat
    BY DEF FromOk, IsSeq
  <2>2. js = [j \in 1 .. Len(f.joins) |-> js[j]]
    BY <2>1
  <2> HIDE DEF js
  <2>3. QED
    BY <2>1, <2>2, FunctionIsSeq
<1>4. \A j \in DOMAIN js :
        /\ js[j].on \subseteq {}
        /\ DOMAIN js[j] = DOMAIN f.joins[j]
        /\ "kind" \in DOMAIN js[j] => js[j].kind = f.joins[j].kind
  <2>1. \A j \in DOMAIN f.joins :
          LET k == [f.joins[j] EXCEPT !.on = {}]
          IN  /\ k.on \subseteq {} /\ DOMAIN k = DOMAIN f.joins[j]
              /\ "kind" \in DOMAIN k => k.kind = f.joins[j].kind
    OBVIOUS
  <2>2. QED
    BY <2>1
<1> HIDE DEF js
<1>5. FromOk(g)
  <2>1. \A j \in DOMAIN js : js[j].on \subseteq {}
    BY <1>4
  <2>2. QED
    BY <1>1, <1>2, <1>3, <2>1 DEF FromOk, SameFrom, SameCall, BeforeSeed
<1>6. ListOk(g)
  BY <1>1, <1>2, ListKept
<1>7. KeyOnly(f) => KeyOnly(g)
  BY <1>1, <1>2, <1>3, <1>4 DEF KeyOnly, SameFrom, Early, Range
<1>8. Drawn(g)
  BY <1>1, <1>2, <1>7 DEF Drawn, SameFrom, SameCall, Early
<1>9. QED
  BY <1>1, <1>2, <1>5, <1>6, <1>8 DEF Goes, SameFrom

\* The select list, whatever else is said with it.
LEMMA SelectGoes ==
  ASSUME NEW f, IsFrame(f), FromOk(f), ListOk(f), Drawn(f), f.step = "select", NEW g,
         SameFrom(f, g), g.step = "where", g.joins = f.joins, g.see = f.see,
         g.terms = f.terms, g.orderBy = f.orderBy, g.rhs = f.rhs,
         \A e \in Range(g.items) : Within(e, Own(f.scope)),
         \A e \in g.having : Within(e, Own(f.scope)),
         g.groupBy \subseteq Own(f.scope), g.setOp = f.setOp, g.lock = f.lock,
         g.grouped => /\ \A e \in Range(g.items) : e.node # "window"
                      /\ Plain(g.items) \subseteq g.groupBy,
         f.purpose = "pkSelect" => g.grouped = FALSE /\ g.items = KeyOf(f.scope[1])
  PROVE  Goes(f, g)
<1>1. FromOk(g)
  BY FromKept DEF BeforeSeed
<1>2. ListOk(g)
  BY DEF ListOk, SameFrom
<1>3. f.purpose = "pkSelect" => KeyOnly(g)
  BY DEF Drawn, KeyOnly, SameFrom
<1>4. Drawn(g)
  BY <1>3 DEF Drawn, SameFrom, SameCall, Early
<1>5. QED
  BY <1>1, <1>2, <1>4 DEF Goes, SameFrom

LEMMA WhereGoes ==
  ASSUME NEW f, IsFrame(f), FromOk(f), ListOk(f), Drawn(f), f.step = "where", NEW d,
         NEW see \in {f.scope, f.scope \o f.outer, f.scope \o << >>}, NEW g,
         g = [f EXCEPT !.step = "predicate", !.todo = d, !.see = see]
  PROVE  Goes(f, g)
<1>1. /\ g.step = "predicate" /\ g.joins = f.joins /\ g.items = f.items
      /\ g.groupBy = f.groupBy /\ g.having = f.having /\ g.see = see
      /\ g.terms = f.terms /\ g.orderBy = f.orderBy /\ g.rhs = f.rhs
      /\ g.grouped = f.grouped /\ g.setOp = f.setOp /\ g.lock = f.lock
      /\ g.distinct = f.distinct
  BY DEF IsFrame, Fields
<1>2. SameFrom(f, g)
  BY WhereSame
<1>3. FromOk(g) /\ ListOk(g) /\ Drawn(g)
  BY <1>1, <1>2, FromKept, ListKept, DrawnKept DEF BeforeSeed, Early
<1>4. QED
  BY <1>1, <1>2, <1>3 DEF Goes, SameFrom

\* The rest of WHERE: one more term, or none.
LEMMA BoolGoes ==
  ASSUME NEW f, IsFrame(f), FromOk(f), ListOk(f), Drawn(f), NEW g, SameFrom(f, g),
         Drawn(g), g.joins = f.joins, BeforeSeed(f) <=> BeforeSeed(g), g.items = f.items,
         g.groupBy = f.groupBy, g.having = f.having,
         g.see \in {f.see, << >>}, g.orderBy = f.orderBy, g.rhs = f.rhs,
         \A t \in g.terms : t \in f.terms \/ t.refs \subseteq Own(f.see)
  PROVE  Goes(f, g)
<1>1. FromOk(g) /\ ListOk(g) /\ Drawn(g)
  BY FromKept, ListKept
<1>2. QED
  BY <1>1 DEF Goes, SameFrom

LEMMA DoneGoes ==
  ASSUME NEW f, IsFrame(f), FromOk(f), ListOk(f), Drawn(f), NEW term,
         Within(term, Own(f.see))
  PROVE  Goes(f, Done(f, term))
<1> DEFINE g == Done(f, term)
<1>1. /\ g.step = f.step /\ g.joins = f.joins /\ g.items = f.items
      /\ g.groupBy = f.groupBy /\ g.having = f.having /\ g.see = f.see
      /\ g.terms = f.terms \cup {term} /\ g.orderBy = f.orderBy /\ g.rhs = f.rhs
      /\ g.grouped = f.grouped /\ g.setOp = f.setOp /\ g.lock = f.lock
      /\ g.distinct = f.distinct
  BY DEF IsFrame, Fields, Done
<1>2. SameFrom(f, g)
  BY DoneSame
<1> HIDE DEF g
<1>3. \A t \in g.terms : t \in f.terms \/ t.refs \subseteq Own(f.see)
  BY <1>1 DEF Within
<1>4. Drawn(g)
  BY <1>1, <1>2, DrawnKept DEF Early
<1>5. Goes(f, g)
  BY <1>1, <1>2, <1>3, <1>4, BoolGoes DEF BeforeSeed
<1>6. QED
  BY <1>5 DEF g

LEMMA EndingGoes ==
  ASSUME NEW f, IsFrame(f), FromOk(f), ListOk(f), Drawn(f), f.step = "tail",
         NEW order \in SUBSET Plain(f.items), NEW limit, NEW offset, NEW distinct,
         NEW g,
         g = [f EXCEPT !.step = "setop", !.orderBy = order, !.limit = limit,
                       !.offset = offset, !.distinct = distinct]
  PROVE  Goes(f, g)
<1>1. /\ g.step = "setop" /\ g.joins = f.joins /\ g.items = f.items
      /\ g.groupBy = f.groupBy /\ g.having = f.having /\ g.see = f.see
      /\ g.terms = f.terms /\ g.orderBy = order /\ g.rhs = f.rhs
      /\ g.grouped = f.grouped /\ g.setOp = f.setOp /\ g.lock = f.lock
  BY DEF IsFrame, Fields
<1>2. SameFrom(f, g)
  BY EndingSame
<1>3. order \subseteq Own(f.scope)
  BY DEF ListOk, Plain, Within
<1>4. FromOk(g)
  BY <1>1, <1>2, FromKept DEF BeforeSeed
<1>5. ListOk(g)
  BY <1>1, <1>2, <1>3 DEF ListOk, SameFrom
<1>6. KeyOnly(f) => KeyOnly(g)
  BY <1>1, <1>2 DEF KeyOnly, SameFrom, Early
<1>7. Drawn(g)
  BY <1>1, <1>2, <1>6 DEF Drawn, SameFrom, SameCall, Early
<1>8. QED
  BY <1>1, <1>2, <1>4, <1>5, <1>7 DEF Goes, SameFrom

LEMMA SetOpGoes ==
  ASSUME NEW f, IsFrame(f), FromOk(f), ListOk(f), Drawn(f), NEW kind, NEW order, NEW rhs,
         rhs # << >>, f.step = "ready", f.extras, kind # "none",
         order \subseteq OutputsOf(f.items), NEW g,
         g = [f EXCEPT !.setOp = kind, !.orderBy = order, !.rhs = rhs]
  PROVE  Goes(f, g)
<1>1. /\ g.step = f.step /\ g.joins = f.joins /\ g.items = f.items
      /\ g.groupBy = f.groupBy /\ g.having = f.having /\ g.see = f.see
      /\ g.terms = f.terms /\ g.rhs = rhs
      /\ g.grouped = f.grouped /\ g.setOp = kind /\ g.lock = f.lock
      /\ g.distinct = f.distinct /\ g.orderBy = order
  BY DEF IsFrame, Fields
<1>2. SameFrom(f, g)
  BY EndingSame
<1>3. FromOk(g)
  BY <1>1, <1>2, FromKept DEF BeforeSeed
<1>4. ListOk(g)
  BY <1>1, <1>2 DEF ListOk, SameFrom
<1>5. Drawn(g)
  BY <1>1, <1>2 DEF Drawn, SameFrom, SameCall, Early
<1>6. QED
  BY <1>1, <1>2, <1>3, <1>4, <1>5 DEF Goes, SameFrom

\* The body of a CTE becomes a table without an identity.
LEMMA CteGoes ==
  ASSUME NEW f, IsFrame(f), FromOk(f), ListOk(f), Drawn(f), NEW cte,
         \A s \in Range(cte) : s.id = NoTable, f.extras, NEW g, g = [f EXCEPT !.cte = cte]
  PROVE  Goes(f, g)
<1>1. /\ g.step = f.step /\ g.joins = f.joins /\ g.items = f.items
      /\ g.groupBy = f.groupBy /\ g.having = f.having /\ g.see = f.see
      /\ g.terms = f.terms /\ g.rhs = f.rhs /\ g.orderBy = f.orderBy
      /\ g.cte = cte /\ g.scope = f.scope /\ SameCall(f, g)
      /\ g.grouped = f.grouped /\ g.setOp = f.setOp /\ g.lock = f.lock
      /\ g.distinct = f.distinct
  BY DEF IsFrame, Fields, SameCall
<1>2. FromOk(g)
  BY <1>1 DEF FromOk, SameCall, BeforeSeed
<1>3. ListOk(g)
  BY <1>1 DEF ListOk
<1>4. Drawn(g)
  BY <1>1 DEF Drawn, SameCall, Early
<1>5. QED
  BY <1>1, <1>2, <1>3, <1>4 DEF Goes

-----------------------------------------------------------------------------
(* A call whose FROM clause grows.                                           *)

\* g is f with one more table.
Grows(f, g, new) ==
  /\ SameCall(f, g) /\ FromOk(g) /\ ListOk(g) /\ Drawn(g)
  /\ g.scope = Append(f.scope, new) /\ g.terms = f.terms /\ g.see = f.see

LEMMA OwnHas ==
  ASSUME NEW scope, NEW src \in Range(scope), NEW j \in DOMAIN src.cols
  PROVE  [alias |-> src.alias, col |-> j] \in Own(scope)
<1> DEFINE c == [alias |-> src.alias, col |-> j, id |-> src.id,
                 type |-> src.cols[j].type, real |-> src.cols[j].real]
<1>1. c \in Columns(scope)
  <2> DEFINE C(x) == {[alias |-> x.alias, col |-> k, id |-> x.id,
                       type |-> x.cols[k].type, real |-> x.cols[k].real] :
                        k \in DOMAIN x.cols}
  <2>1. c \in C(src)
    OBVIOUS
  <2>2. Columns(scope) = UNION {C(x) : x \in Range(scope)}
    BY Zenon DEF Columns
  <2> HIDE DEF C, c
  <2>3. QED
    BY <2>1, <2>2
<1>2. RefOf(c) = [alias |-> src.alias, col |-> j]
  BY DEF RefOf
<1> HIDE DEF c
<1>3. QED
  BY <1>1, <1>2, Zenon DEF Own

LEMMA OwnGrows ==
  ASSUME NEW s, NEW t, Range(s) \subseteq Range(t)
  PROVE  Own(s) \subseteq Own(t) /\ Columns(s) \subseteq Columns(t)
<1>1. Columns(s) \subseteq Columns(t)
  BY DEF Columns
<1>2. QED
  BY <1>1 DEF Own

LEMMA TablesHaveColumns ==
  /\ NoTable \notin Table
  /\ \A t \in Table : 1 \in DOMAIN Schema[t] /\ IsSeq(Schema[t])
<1>1. ASSUME NEW t \in Table
      PROVE  1 \in DOMAIN Schema[t] /\ IsSeq(Schema[t])
  <2> DEFINE S == [type : Type, real : Type, ref : Table \cup {NoTable}]
  <2>1. Schema[t] \in Seq(S) /\ Schema[t] # << >>
    BY QueryGenAssumption
  <2> HIDE DEF S
  <2>2. QED
    BY <2>1, SeqIsSeq
<1>2. QED
  BY <1>1, QueryGenAssumption

LEMMA CandsKnown ==
  ASSUME NEW f, FromOk(f), tables \subseteq Table, NEW src \in Cands(f)
  PROVE  Known(src) /\ src.id \in tables \cup {NoTable}
<1>1. \A t \in Table : Known(Source(t)) /\ Source(t).id = t
  BY DEF Known, Source
<1>2. CASE src \in Range(f.cte)
  BY <1>2 DEF FromOk, Known
<1>3. CASE src \in {Source(t) : t \in tables}
  BY <1>1, <1>3, Zenon
<1>4. QED
  BY <1>2, <1>3 DEF Cands

\* Both ends of a join's condition are columns.
LEMMA EdgesFit ==
  ASSUME NEW f, FromOk(f), tables \subseteq Table, NEW base, Known(base),
         NEW e, e \in ParentEdges(f, base) \cup ChildEdges(f, base)
                        \cup UNION {Pairs(base, src) : src \in Cands(f)}
  PROVE  /\ e.src \in Cands(f) /\ e.new \in DOMAIN e.src.cols
         /\ e.base \in DOMAIN base.cols
<1>1. CASE e \in ParentEdges(f, base)
  <2>1. /\ e.src \in Cands(f) /\ e.new = 1 /\ e.base \in DOMAIN base.cols
        /\ e.src.id # NoTable
    BY <1>1 DEF ParentEdges
  <2>2. e.src.cols = Schema[e.src.id] /\ e.src.id \in Table
    BY <2>1, CandsKnown DEF Known
  <2>3. QED
    BY <2>1, <2>2, TablesHaveColumns
<1>2. CASE e \in ChildEdges(f, base)
  <2>1. PICK s \in Cands(f) : \E i \in DOMAIN s.cols :
          /\ s.cols[i].ref # NoTable /\ s.cols[i].ref = base.id
          /\ e = [src |-> s, new |-> i, base |-> 1]
    BY <1>2, Zenon DEF ChildEdges
  <2>2. PICK i \in DOMAIN s.cols :
          /\ s.cols[i].ref # NoTable /\ s.cols[i].ref = base.id
          /\ e = [src |-> s, new |-> i, base |-> 1]
    BY <2>1
  <2>3. base.cols = Schema[base.id] /\ base.id \in Table
    BY <2>2 DEF Known
  <2>4. e.src = s /\ e.new = i /\ e.base = 1
    BY <2>2
  <2>5. QED
    BY <2>1, <2>2, <2>3, <2>4, TablesHaveColumns
<1>3. CASE e \in UNION {Pairs(base, src) : src \in Cands(f)}
  <2>1. PICK s \in Cands(f) : e \in Pairs(base, s)
    BY <1>3, Zenon
  <2>2. e \in [src : {s}, new : DOMAIN s.cols, base : DOMAIN base.cols]
    BY <2>1, Zenon DEF Pairs
  <2>3. QED
    BY <2>2
<1>4. QED
  BY <1>1, <1>2, <1>3

LEMMA AliasedKnown ==
  ASSUME NEW src, Known(src)
  PROVE  /\ Known(Aliased(src)) /\ Aliased(src).id = src.id
         /\ Aliased(src).cols = src.cols /\ Aliased(src).alias = aliases
BY DEF Known, Aliased

LEMMA ListGrows ==
  ASSUME NEW f, ListOk(f), NEW g, Own(f.scope) \subseteq Own(g.scope),
         g.items = f.items, g.having = f.having, g.groupBy = f.groupBy,
         g.orderBy = f.orderBy, g.rhs = f.rhs
  PROVE  ListOk(g)
BY DEF ListOk, Within

LEMMA SeedGrows ==
  ASSUME NEW f, IsFrame(f), FromOk(f), ListOk(f), Drawn(f), f.step = "seed",
         NEW src, Known(src), f.target # NoTable => src.id = f.target,
         NEW g, g = [f EXCEPT !.step = "joins", !.scope = <<Aliased(src)>>]
  PROVE  Grows(f, g, Aliased(src))
<1> DEFINE new == Aliased(src)
<1>1. /\ g.step = "joins" /\ g.joins = f.joins /\ g.items = f.items
      /\ g.groupBy = f.groupBy /\ g.having = f.having /\ g.see = f.see
      /\ g.terms = f.terms /\ g.rhs = f.rhs /\ g.orderBy = f.orderBy
      /\ g.cte = f.cte /\ g.scope = <<new>> /\ SameCall(f, g)
      /\ g.grouped = f.grouped /\ g.setOp = f.setOp /\ g.lock = f.lock
      /\ g.distinct = f.distinct
  BY DEF IsFrame, Fields, SameCall
<1>2. Known(new) /\ new.id = src.id
  BY AliasedKnown
<1> HIDE DEF new
<1>3. f.scope = << >> /\ f.joins = << >>
  BY DEF FromOk, BeforeSeed
<1>4. /\ <<new>> = Append(<< >>, new) /\ IsSeq(<<new>>) /\ Len(<<new>>) = 1
      /\ Range(<<new>>) = {new} /\ <<new>>[1] = new
  BY DEF IsSeq, Range
<1>5. FromOk(g)
  BY <1>1, <1>2, <1>3, <1>4 DEF FromOk, SameCall, BeforeSeed
<1>6. ListOk(g)
  BY <1>1, <1>3, OwnOfNone, ListGrows
<1>7. KeyOnly(f) => KeyOnly(g)
  BY <1>1 DEF KeyOnly, Early
<1>8. Drawn(g)
  BY <1>1, <1>7 DEF Drawn, SameCall, Early
<1>9. QED
  BY <1>1, <1>3, <1>4, <1>5, <1>6, <1>8 DEF Grows, new

LEMMA JoinGrows ==
  ASSUME NEW f, IsFrame(f), FromOk(f), ListOk(f), Drawn(f), f.step = "joins",
         NEW src, Known(src), NEW kind, NEW on,
         f.purpose = "pkSelect" => kind # "right",
         on \subseteq Own(Append(f.scope, Aliased(src))),
         NEW g, g = [f EXCEPT !.scope = Append(@, Aliased(src)),
                              !.joins = Append(@, [kind |-> kind, on |-> on])]
  PROVE  Grows(f, g, Aliased(src))
<1> DEFINE new == Aliased(src)
           j1  == [kind |-> kind, on |-> on]
<1>1. /\ g.step = f.step /\ g.items = f.items
      /\ g.groupBy = f.groupBy /\ g.having = f.having /\ g.see = f.see
      /\ g.terms = f.terms /\ g.rhs = f.rhs /\ g.orderBy = f.orderBy
      /\ g.cte = f.cte /\ g.scope = Append(f.scope, new)
      /\ g.joins = Append(f.joins, j1) /\ SameCall(f, g)
      /\ g.grouped = f.grouped /\ g.setOp = f.setOp /\ g.lock = f.lock
      /\ g.distinct = f.distinct
  BY DEF IsFrame, Fields, SameCall
<1>2. Known(new) /\ j1.on = on /\ j1.kind = kind /\ "kind" \in DOMAIN j1
      /\ on \subseteq Own(Append(f.scope, new))
  BY AliasedKnown
<1> HIDE DEF new, j1
<1>3. /\ IsSeq(f.scope) /\ IsSeq(f.joins) /\ Len(f.scope) = Len(f.joins) + 1
      /\ ~BeforeSeed(f)
  BY DEF FromOk, BeforeSeed
<1>4. /\ IsSeq(g.scope) /\ Len(g.scope) = Len(f.scope) + 1 /\ Len(f.scope) \in Nat
      /\ Range(g.scope) = Range(f.scope) \cup {new}
      /\ \A i \in 1 .. Len(f.scope) : g.scope[i] = f.scope[i]
  BY <1>1, <1>3, AppendIsSeq
<1>5. /\ IsSeq(g.joins) /\ Len(g.joins) = Len(f.joins) + 1 /\ Len(f.joins) \in Nat
      /\ DOMAIN g.joins = 1 .. Len(f.joins) + 1 /\ DOMAIN f.joins = 1 .. Len(f.joins)
      /\ g.joins[Len(f.joins) + 1] = j1
      /\ \A i \in 1 .. Len(f.joins) : g.joins[i] = f.joins[i]
  BY <1>1, <1>3, AppendIsSeq
<1>6. Own(f.scope) \subseteq Own(g.scope)
  BY <1>4, OwnGrows
<1>7. ASSUME NEW j \in DOMAIN g.joins
      PROVE  g.joins[j].on \subseteq Own(SubSeq(g.scope, 1, j + 1))
  <2> DEFINE here == SubSeq(g.scope, 1, j + 1)
  <2>1. j \in 1 .. Len(f.joins) + 1 /\ j + 1 \in 0 .. Len(g.scope)
    BY <1>3, <1>4, <1>5
  <2>2. DOMAIN here = 1 .. j + 1 /\ \A i \in 1 .. j + 1 : here[i] = g.scope[i]
    BY <1>4, <2>1, PrefixIsSeq
  <2>3. CASE j = Len(f.joins) + 1
    <3>1. DOMAIN g.scope = 1 .. j + 1
      BY <1>3, <1>4, <2>3, SeqIsSeq DEF IsSeq
    <3>2. Range(g.scope) \subseteq Range(here)
      BY <2>2, <3>1 DEF Range
    <3>3. Own(g.scope) \subseteq Own(here)
      BY <3>2, OwnGrows
    <3>4. QED
      BY <1>1, <1>2, <1>5, <2>3, <3>3
  <2>4. CASE j \in 1 .. Len(f.joins)
    <3> DEFINE before == SubSeq(f.scope, 1, j + 1)
    <3>1. j + 1 \in 0 .. Len(f.scope)
      BY <1>3, <1>5, <2>4
    <3>2. DOMAIN before = 1 .. j + 1 /\ \A i \in 1 .. j + 1 : before[i] = f.scope[i]
      BY <1>3, <3>1, PrefixIsSeq
    <3>3. \A i \in 1 .. j + 1 : here[i] = before[i]
      <4> HIDE DEF here, before
      <4> QED
        BY <1>4, <2>2, <3>1, <3>2
    <3>4. Range(before) \subseteq Range(here)
      <4> HIDE DEF here, before
      <4>1. DOMAIN before = DOMAIN here
        BY <2>2, <3>2
      <4>2. QED
        BY <2>2, <3>3, <4>1 DEF Range
    <3>5. Own(before) \subseteq Own(here)
      BY <3>4, OwnGrows
    <3>6. f.joins[j].on \subseteq Own(before)
      BY <1>5, <2>4 DEF FromOk
    <3>7. QED
      BY <1>5, <2>4, <3>5, <3>6
  <2>5. QED
    BY <1>5, <2>1, <2>3, <2>4
<1>8. f.scope # << >> /\ g.scope # << >> /\ g.scope[1] = f.scope[1]
  BY <1>3, <1>4, <1>5, SeqIsSeq DEF IsSeq
<1>9. FromOk(g)
  BY <1>1, <1>2, <1>3, <1>4, <1>5, <1>7, <1>8 DEF FromOk, SameCall, BeforeSeed
<1>10. ListOk(g)
  BY <1>1, <1>6, ListGrows
<1>11. f.purpose = "pkSelect" => KeyOnly(g)
  <2>1. Range(g.joins) = Range(f.joins) \cup {j1}
    BY <1>1, <1>3, AppendIsSeq
  <2>2. QED
    BY <1>1, <1>2, <2>1 DEF Drawn, KeyOnly, Early
<1>12. Drawn(g)
  BY <1>1, <1>11 DEF Drawn, SameCall, Early
<1>13. QED
  BY <1>1, <1>9, <1>10, <1>12 DEF Grows, new

-----------------------------------------------------------------------------
(* The calls on the stack.                                                   *)

\* One inside of the other, each at its depth.
Nested(s) ==
  /\ IsSeq(s)
  /\ \A i \in DOMAIN s :
       /\ IsFrame(s[i]) /\ s[i].depth = i - 1
       /\ s[i].use = "top" <=> i = 1
       /\ s[i].extras => i = 1
       /\ s[i].use \in {"cte", "rhs"} => s[i - 1].extras
       /\ s[i].use = "rhs" => s[i - 1].step = "ready"

Sound(s) == \A i \in DOMAIN s : FromOk(s[i]) /\ ListOk(s[i]) /\ Drawn(s[i])

Around(s, i) ==
  {k \in 1 .. i : \A m \in k + 1 .. i : s[m].use \in {"test", "operand"}}

Seen(s, i) == UNION {Own(s[k].scope) : k \in Around(s, i)}

\* A WHERE names what its query sees.
Visible(s) ==
  \A i \in DOMAIN s :
    /\ IsSeq(s[i].outer) /\ Own(s[i].outer) \subseteq Seen(s, i)
    /\ IsSeq(s[i].see) /\ Own(s[i].see) \subseteq Seen(s, i)
    /\ \A t \in s[i].terms : t.refs \subseteq Seen(s, i)

\* Every table has an alias of its own, given out before the next one.
Distinct(s, next) ==
  /\ \A i \in DOMAIN s : \A a \in DOMAIN s[i].scope :
       s[i].scope[a].alias \in Nat /\ s[i].scope[a].alias < next
  /\ \A i, k \in DOMAIN s : \A a \in DOMAIN s[i].scope, b \in DOMAIN s[k].scope :
       s[i].scope[a].alias = s[k].scope[b].alias => i = k /\ a = b

\* What a query other than the outermost reads is in the generator's catalog.
Reads(s, catl) ==
  \A i \in DOMAIN s :
    i # 1 => /\ s[i].target = NoTable
             /\ \A x \in Range(s[i].scope) : x.id \in catl \cup {NoTable}

\* The outermost query is the one that was asked for.
Answers(s, c) ==
  1 \in DOMAIN s => s[1].purpose = c.purpose /\ s[1].target = c.target

LEMMA OwnOfConcat ==
  ASSUME NEW s, IsSeq(s), NEW t, IsSeq(t)
  PROVE  /\ IsSeq(s \o t) /\ Range(s \o t) = Range(s) \cup Range(t)
         /\ Own(s \o t) = Own(s) \cup Own(t)
<1>1. s \in Seq(Range(s) \cup Range(t)) /\ t \in Seq(Range(s) \cup Range(t))
  BY DEF IsSeq, Range
<1>2. IsSeq(s \o t)
  <2> DEFINE R == Range(s) \cup Range(t)
  <2>1. s \in Seq(R) /\ t \in Seq(R)
    BY <1>1
  <2> HIDE DEF R
  <2>2. s \o t \in Seq(R)
    BY <2>1
  <2>3. QED
    BY <2>2, SeqIsSeq
<1>3. Range(s \o t) = Range(s) \cup Range(t)
  <2>1. \A i \in DOMAIN (s \o t) : (s \o t)[i] \in Range(s) \cup Range(t)
    BY <1>1 DEF Range
  <2>2. ASSUME NEW i \in DOMAIN s PROVE s[i] \in Range(s \o t)
    <3>1. i \in DOMAIN (s \o t) /\ (s \o t)[i] = s[i]
      BY <1>1
    <3>2. QED
      BY <3>1 DEF Range
  <2>3. ASSUME NEW i \in DOMAIN t PROVE t[i] \in Range(s \o t)
    <3>1. Len(s) + i \in DOMAIN (s \o t) /\ (s \o t)[Len(s) + i] = t[i]
      BY <1>1
    <3>2. QED
      BY <3>1 DEF Range
  <2>4. QED
    BY <2>1, <2>2, <2>3 DEF Range
<1>4. QED
  <2> DEFINE C(src) == {[alias |-> src.alias, col |-> j, id |-> src.id,
                         type |-> src.cols[j].type, real |-> src.cols[j].real] :
                          j \in DOMAIN src.cols}
  <2>1. \A x : Columns(x) = UNION {C(src) : src \in Range(x)}
    BY Zenon DEF Columns
  <2> HIDE DEF C
  <2>2. Columns(s \o t) = Columns(s) \cup Columns(t)
    BY <1>3, <2>1
  <2>3. QED
    BY <1>2, <1>3, <2>2 DEF Own

\* t is s with the calls after the n-th gone, and g in place of the n-th.
Turns(s, n, g, t) ==
  /\ IsSeq(s) /\ IsSeq(t) /\ n \in DOMAIN s /\ n \in Nat
  /\ DOMAIN t = 1 .. n /\ t[n] = g
  /\ \A i \in 1 .. n - 1 : i \in DOMAIN s /\ t[i] = s[i]

LEMMA TurnsNested ==
  ASSUME NEW s, NEW n, NEW g, NEW t, Turns(s, n, g, t), Nested(s), SameCall(s[n], g)
  PROVE  Nested(t)
<1>1. ASSUME NEW i \in DOMAIN t
      PROVE  /\ IsFrame(t[i]) /\ t[i].depth = i - 1
             /\ t[i].use = "top" <=> i = 1
             /\ t[i].extras => i = 1
             /\ t[i].use \in {"cte", "rhs"} => t[i - 1].extras
             /\ t[i].use = "rhs" => t[i - 1].step = "ready"
  <2>1. /\ n \in Nat /\ i \in 1 .. n /\ i \in DOMAIN s /\ t[i].use = s[i].use
        /\ i # 1 => i - 1 \in 1 .. n - 1 /\ t[i - 1] = s[i - 1]
    BY DEF Turns, SameCall
  <2>2. /\ t[i].use \in {"cte", "rhs"} => t[i - 1].extras
        /\ t[i].use = "rhs" => t[i - 1].step = "ready"
    BY <2>1 DEF Nested
  <2>3. CASE i = n
    BY <2>2, <2>3 DEF Turns, Nested, SameCall
  <2>4. CASE i \in 1 .. n - 1
    BY <2>2, <2>4 DEF Turns, Nested
  <2>5. QED
    BY <2>1, <2>3, <2>4
<1>2. QED
  BY <1>1 DEF Nested, Turns

LEMMA TurnsSound ==
  ASSUME NEW s, NEW n, NEW g, NEW t, Turns(s, n, g, t), Sound(s), FromOk(g), ListOk(g),
         Drawn(g)
  PROVE  Sound(t)
BY DEF Turns, Sound

\* What is seen through calls of which the last may have got more tables.
LEMMA TurnsSeen ==
  ASSUME NEW s, NEW n, NEW g, NEW t, Turns(s, n, g, t), g.use = s[n].use,
         Own(s[n].scope) \subseteq Own(g.scope), NEW i \in DOMAIN t
  PROVE  Seen(s, i) \subseteq Seen(t, i)
<1>1. \A k \in 1 .. i : /\ t[k].use = s[k].use
                       /\ Own(s[k].scope) \subseteq Own(t[k].scope)
  BY DEF Turns
<1>2. Around(t, i) = Around(s, i)
  BY <1>1 DEF Around, Turns
<1>3. \A k \in Around(s, i) : Own(s[k].scope) \subseteq Own(t[k].scope)
  BY <1>1 DEF Around
<1>4. QED
  BY <1>2, <1>3 DEF Seen

LEMMA OwnSeen ==
  ASSUME NEW s, NEW i \in Nat \ {0}
  PROVE  Own(s[i].scope) \subseteq Seen(s, i)
<1>1. i \in Around(s, i)
  BY DEF Around
<1>2. QED
  BY <1>1 DEF Seen

LEMMA TurnsVisible ==
  ASSUME NEW s, NEW n, NEW g, NEW t, Turns(s, n, g, t), Visible(s), IsSeq(g.scope),
         Own(s[n].scope) \subseteq Own(g.scope),
         g.use = s[n].use, g.outer = s[n].outer,
         \A x \in g.terms : x \in s[n].terms \/ x.refs \subseteq Own(s[n].see),
         g.see \in {s[n].see, << >>, g.scope, g.scope \o g.outer, g.scope \o << >>}
  PROVE  Visible(t)
<1>1. ASSUME NEW i \in DOMAIN t
      PROVE  /\ IsSeq(t[i].outer) /\ Own(t[i].outer) \subseteq Seen(t, i)
             /\ IsSeq(t[i].see) /\ Own(t[i].see) \subseteq Seen(t, i)
             /\ \A x \in t[i].terms : x.refs \subseteq Seen(t, i)
  <2>1. Seen(s, i) \subseteq Seen(t, i)
    BY TurnsSeen
  <2>2. CASE i \in 1 .. n - 1
    BY <2>1, <2>2 DEF Turns, Visible
  <2>3. CASE i = n
    <3>1. t[i] = g /\ i \in DOMAIN s /\ i \in Nat \ {0}
      BY <2>3 DEF Turns
    <3>2. /\ IsSeq(g.outer) /\ Own(g.outer) \subseteq Seen(t, i)
          /\ IsSeq(s[n].see) /\ Own(s[n].see) \subseteq Seen(t, i)
          /\ \A x \in s[n].terms : x.refs \subseteq Seen(t, i)
      BY <2>1, <2>3, <3>1 DEF Visible
    <3>3. Own(g.scope) \subseteq Seen(t, i)
      BY <3>1, OwnSeen
    <3>4. IsSeq(<< >>) /\ Own(<< >>) = {}
      BY OwnOfNone DEF IsSeq
    <3>5. /\ IsSeq(g.scope \o g.outer)
          /\ Own(g.scope \o g.outer) = Own(g.scope) \cup Own(g.outer)
      BY <3>2, OwnOfConcat
    <3>6. /\ IsSeq(g.scope \o << >>)
          /\ Own(g.scope \o << >>) = Own(g.scope) \cup Own(<< >>)
      BY <3>4, OwnOfConcat
    <3>7. IsSeq(g.see) /\ Own(g.see) \subseteq Seen(t, i)
      BY <3>2, <3>3, <3>4, <3>5, <3>6
    <3>8. QED
      BY <3>1, <3>2, <3>7
  <2>4. QED
    BY <2>2, <2>3 DEF Turns
<1>2. QED
  BY <1>1 DEF Visible

LEMMA TurnsDistinct ==
  ASSUME NEW s, NEW n, NEW g, NEW t, Turns(s, n, g, t),
         NEW next \in Nat, NEW later \in Nat, next <= later, Distinct(s, next),
         g.scope = s[n].scope
  PROVE  Distinct(t, later)
<1>1. \A i \in DOMAIN t : t[i].scope = s[i].scope /\ i \in DOMAIN s
  BY DEF Turns
<1>2. QED
  BY <1>1 DEF Distinct

LEMMA TurnsReads ==
  ASSUME NEW s, NEW n, NEW g, NEW t, Turns(s, n, g, t), NEW catl, Reads(s, catl),
         g.target = s[n].target,
         \A x \in Range(g.scope) \ Range(s[n].scope) :
            n = 1 \/ x.id \in catl \cup {NoTable}
  PROVE  Reads(t, catl)
BY DEF Turns, Reads

LEMMA TurnsAnswers ==
  ASSUME NEW s, NEW n, NEW g, NEW t, Turns(s, n, g, t), SameCall(s[n], g),
         NEW c, Answers(s, c), NEW d, d.purpose = c.purpose, d.target = c.target
  PROVE  Answers(t, d)
<1>1. CASE n = 1
  BY <1>1 DEF Turns, Answers, SameCall
<1>2. CASE n # 1
  <2>1. 1 \in 1 .. n - 1
    BY <1>2 DEF Turns, IsSeq
  <2>2. QED
    BY <2>1 DEF Turns, Answers
<1>3. QED
  BY <1>1, <1>2

LEMMA GrowsDistinct ==
  ASSUME NEW s, NEW n, NEW g, NEW t, Turns(s, n, g, t), n = Len(s),
         NEW next \in Nat, Distinct(s, next), IsSeq(s[n].scope),
         NEW new, new.alias = next, g.scope = Append(s[n].scope, new)
  PROVE  Distinct(t, next + 1)
<1>1. /\ DOMAIN s[n].scope = 1 .. Len(s[n].scope) /\ Len(s[n].scope) \in Nat
      /\ DOMAIN g.scope = 1 .. Len(s[n].scope) + 1
      /\ g.scope[Len(s[n].scope) + 1] = new
      /\ \A a \in 1 .. Len(s[n].scope) : g.scope[a] = s[n].scope[a]
  BY AppendIsSeq
<1>2. ASSUME NEW i \in DOMAIN t, NEW a \in DOMAIN t[i].scope
      PROVE  \/ i = n /\ a = Len(s[n].scope) + 1 /\ t[i].scope[a] = new
             \/ /\ i \in DOMAIN s /\ a \in DOMAIN s[i].scope
                /\ t[i].scope[a] = s[i].scope[a]
  <2>1. CASE i = n
    <3>1. t[i] = g /\ i \in DOMAIN s /\ a \in 1 .. Len(s[n].scope) + 1
      BY <1>1, <2>1 DEF Turns
    <3>2. QED
      BY <1>1, <2>1, <3>1
  <2>2. CASE i \in 1 .. n - 1
    BY <2>2 DEF Turns
  <2>3. QED
    BY <2>1, <2>2 DEF Turns
<1>3. \A i \in DOMAIN t : \A a \in DOMAIN t[i].scope :
        t[i].scope[a].alias \in Nat /\ t[i].scope[a].alias < next + 1
  BY <1>2 DEF Distinct
<1>4. ASSUME NEW i \in DOMAIN t, NEW k \in DOMAIN t, NEW a \in DOMAIN t[i].scope,
             NEW b \in DOMAIN t[k].scope, t[i].scope[a].alias = t[k].scope[b].alias
      PROVE  i = k /\ a = b
  BY <1>2, <1>4 DEF Distinct
<1>5. QED
  BY <1>3, <1>4 DEF Distinct

\* A query as it is called: without a table yet.
Fresh(h) ==
  /\ IsFrame(h) /\ h.step = "cte" /\ h.scope = << >> /\ h.joins = << >>
  /\ h.cte = << >> /\ h.items = << >> /\ h.having = {} /\ h.groupBy = {}
  /\ h.orderBy = {} /\ h.see = << >> /\ h.terms = {} /\ h.grouped = FALSE
  /\ h.setOp = "none" /\ h.lock = FALSE

LEMMA QueryFresh ==
  ASSUME NEW use, NEW purpose, NEW target, NEW depth, NEW extras, NEW outer
  PROVE  Fresh(Query(use, purpose, target, depth, extras, outer))
BY DEF Query, IsFrame, Fields, Fresh

LEMMA FreshOk ==
  ASSUME NEW h, Fresh(h), h.target # NoTable => h.target \in Table,
         h.purpose = "pkSelect" => h.target # NoTable,
         h.extras => h.purpose = "standalone"
  PROVE  FromOk(h) /\ ListOk(h) /\ Drawn(h)
<1>1. IsSeq(<< >>) /\ DOMAIN << >> = {} /\ Range(<< >>) = {}
  BY DEF IsSeq, Range
<1>2. FromOk(h)
  BY <1>1 DEF Fresh, FromOk, BeforeSeed
<1>3. ListOk(h)
  BY <1>1 DEF Fresh, ListOk
<1>4. KeyOnly(h)
  BY <1>1 DEF Fresh, KeyOnly, Early
<1>5. Drawn(h)
  BY <1>4 DEF Fresh, Drawn, Early
<1>6. QED
  BY <1>2, <1>3, <1>5

\* The call of a query inside of the innermost.
Nests(s, h) ==
  /\ Fresh(h) /\ h.use \in {"cte", "rhs", "test", "operand"}
  /\ h.purpose = "standalone" /\ h.target = NoTable /\ h.extras = FALSE
  /\ h.depth = s[Len(s)].depth + 1
  /\ \/ h.outer = << >>
     \/ h.use \in {"test", "operand"} /\ h.outer = s[Len(s)].see
  /\ h.use \in {"cte", "rhs"} => s[Len(s)].extras
  /\ h.use = "rhs" => s[Len(s)].step = "ready"

LEMMA CallKeeps ==
  ASSUME NEW s, s # << >>, NEW h, Nests(s, h), Nested(s), Sound(s), Visible(s),
         NEW next \in Nat, Distinct(s, next), NEW catl, Reads(s, catl),
         NEW c, Answers(s, c)
  PROVE  LET t == Append(s, h)
         IN  /\ Nested(t) /\ Sound(t) /\ Visible(t) /\ Distinct(t, next)
             /\ Reads(t, catl) /\ Answers(t, c)
<1> DEFINE t == Append(s, h)
           n == Len(s)
<1>1. /\ IsSeq(t) /\ n \in Nat \ {0} /\ DOMAIN s = 1 .. n /\ DOMAIN t = 1 .. n + 1
      /\ t[n + 1] = h /\ \A i \in 1 .. n : t[i] = s[i]
  <2>1. IsSeq(s)
    BY DEF Nested
  <2>2. n # 0
    BY <2>1 DEF IsSeq
  <2>3. QED
    BY <2>1, <2>2, AppendIsSeq
<1>2. IsSeq(<< >>) /\ DOMAIN << >> = {} /\ Range(<< >>) = {} /\ Own(<< >>) = {}
  BY OwnOfNone DEF IsSeq, Range
<1> HIDE DEF t
<1>3. Nested(t)
  <2>1. ASSUME NEW i \in DOMAIN t
        PROVE  /\ IsFrame(t[i]) /\ t[i].depth = i - 1
               /\ t[i].use = "top" <=> i = 1
               /\ t[i].extras => i = 1
               /\ t[i].use \in {"cte", "rhs"} => t[i - 1].extras
               /\ t[i].use = "rhs" => t[i - 1].step = "ready"
    <3>1. CASE i = n + 1
      BY <1>1, <3>1 DEF Nested, Nests, Fresh
    <3>2. CASE i \in 1 .. n
      <4>1. i = 1 \/ t[i - 1] = s[i - 1]
        BY <1>1, <3>2
      <4>2. QED
        BY <1>1, <3>2, <4>1 DEF Nested
    <3>3. QED
      BY <1>1, <3>1, <3>2
  <2>2. QED
    BY <1>1, <2>1 DEF Nested
<1>4. Sound(t)
  <2>1. FromOk(h) /\ ListOk(h) /\ Drawn(h)
    BY FreshOk DEF Nests
  <2>2. QED
    BY <1>1, <2>1 DEF Sound
<1>5. Visible(t)
  <2>1. ASSUME NEW i \in 1 .. n PROVE Seen(t, i) = Seen(s, i)
    <3>1. \A k \in 1 .. i : t[k] = s[k]
      BY <1>1
    <3>2. Around(t, i) = Around(s, i)
      BY <1>1, <3>1 DEF Around
    <3>3. \A k \in Around(s, i) : t[k] = s[k]
      BY <3>1 DEF Around
    <3>4. QED
      BY <3>2, <3>3 DEF Seen
  <2>2. ASSUME NEW i \in 1 .. n
        PROVE  /\ IsSeq(t[i].outer) /\ Own(t[i].outer) \subseteq Seen(t, i)
               /\ IsSeq(t[i].see) /\ Own(t[i].see) \subseteq Seen(t, i)
               /\ \A x \in t[i].terms : x.refs \subseteq Seen(t, i)
    BY <1>1, <2>1 DEF Visible
  <2>3. IsSeq(h.outer) /\ Own(h.outer) \subseteq Seen(t, n + 1)
    <3>1. CASE h.outer = << >>
      BY <1>2, <3>1
    <3>2. CASE h.use \in {"test", "operand"} /\ h.outer = s[n].see
      <4>1. IsSeq(h.outer) /\ Own(h.outer) \subseteq Seen(t, n)
        BY <1>1, <2>1, <3>2 DEF Visible
      <4>2. Around(t, n) \subseteq Around(t, n + 1)
        BY <1>1, <3>2 DEF Around
      <4>3. QED
        BY <4>1, <4>2 DEF Seen
    <3>3. QED
      BY <3>1, <3>2 DEF Nests
  <2>4. h.see = << >> /\ h.terms = {}
    BY DEF Nests, Fresh
  <2>5. QED
    BY <1>1, <1>2, <2>2, <2>3, <2>4 DEF Visible
<1>6. \A i \in DOMAIN t : \/ i = n + 1 /\ t[i].scope = << >>
                          \/ i \in DOMAIN s /\ t[i] = s[i]
  <2>1. h.scope = << >>
    BY DEF Nests, Fresh
  <2>2. \A i \in DOMAIN t : i = n + 1 \/ i \in 1 .. n
    BY <1>1
  <2>3. \A i \in 1 .. n : i \in DOMAIN s /\ t[i] = s[i]
    BY <1>1
  <2>4. t[n + 1].scope = << >>
    BY <1>1, <2>1
  <2>5. QED
    BY <2>2, <2>3, <2>4
<1>7. Distinct(t, next)
  <2>1. \A i \in DOMAIN t : \A a \in DOMAIN t[i].scope : i \in DOMAIN s /\ t[i] = s[i]
    BY <1>2, <1>6
  <2>2. \A i \in DOMAIN t : \A a \in DOMAIN t[i].scope :
          t[i].scope[a].alias \in Nat /\ t[i].scope[a].alias < next
    BY <2>1 DEF Distinct
  <2>3. \A i, k \in DOMAIN t : \A a \in DOMAIN t[i].scope, b \in DOMAIN t[k].scope :
          t[i].scope[a].alias = t[k].scope[b].alias => i = k /\ a = b
    BY <2>1 DEF Distinct
  <2>4. QED
    BY <2>2, <2>3 DEF Distinct
<1>8. Reads(t, catl)
  BY <1>1, <1>2, <1>6 DEF Reads, Nests
<1>9. Answers(t, c)
  BY <1>1 DEF Answers
<1>10. QED
  BY <1>3, <1>4, <1>5, <1>7, <1>8, <1>9 DEF t

-----------------------------------------------------------------------------
(* The inductive invariant.                                                  *)

Asked == call.step \in {"generating", "sent"}

Typed ==
  /\ config \in Configs
  /\ catalog \subseteq Table /\ tables \subseteq Table
  /\ aliases \in Nat /\ FirstAlias <= aliases
  /\ DOMAIN call = {"step", "purpose", "target", "lock", "limit"}
  /\ call.step # "idle" /\ call.purpose # "standalone" => call.target \in Table
  /\ call.purpose = "standalone" => call.target = NoTable
  /\ call.lock => call.purpose = "pkSelect"
  /\ Asked /\ call.purpose = "predicate" => call.target \notin tables
  /\ stack # << >> => Asked

IInv ==
  /\ Typed
  /\ Nested(stack) /\ Sound(stack) /\ Visible(stack)
  /\ Distinct(stack, aliases) /\ Reads(stack, tables) /\ Answers(stack, call)
  /\ NestingBounded

LEMMA ConfigTyped ==
  ASSUME config \in Configs
  PROVE  /\ config.maxSubqueries \in Nat /\ config.catalog \subseteq Table
         /\ config.later \subseteq SUBSET Table
BY QueryGenAssumption DEF Config

LEMMA TopIs ==
  ASSUME IInv, stack # << >>
  PROVE  /\ Len(stack) \in Nat \ {0} /\ DOMAIN stack = 1 .. Len(stack)
         /\ IsSeq(stack) /\ Top = stack[Len(stack)]
         /\ IsFrame(Top) /\ FromOk(Top) /\ ListOk(Top) /\ Drawn(Top)
         /\ Top.depth = Len(stack) - 1 /\ (Top.use = "top" <=> Len(stack) = 1)
         /\ (Top.extras => Len(stack) = 1)
         /\ (Len(stack) # 1 => Top.target = NoTable)
<1>1. /\ Len(stack) \in Nat \ {0} /\ DOMAIN stack = 1 .. Len(stack) /\ IsSeq(stack)
  BY DEF IInv, Nested, IsSeq
<1>2. Top = stack[Len(stack)]
  BY DEF Top, Last
<1>3. QED
  BY <1>1, <1>2 DEF IInv, Nested, Sound, Reads

LEMMA BecomeTurns ==
  ASSUME IInv, stack # << >>, NEW g
  PROVE  Turns(stack, Len(stack), g, Become(g))
<1>1. IsSeq(stack)
  BY DEF IInv, Nested
<1>2. QED
  BY <1>1, LastReplaced DEF Turns, Become

LEMMA CallerIs ==
  ASSUME IInv, stack # << >>, Top.use # "top"
  PROVE  /\ Len(stack) - 1 \in DOMAIN stack /\ Len(stack) \in Nat
         /\ Caller = stack[Len(stack) - 1]
         /\ IsFrame(Caller) /\ FromOk(Caller) /\ ListOk(Caller) /\ Drawn(Caller)
         /\ Top.use \in {"cte", "rhs"} => Caller.extras
         /\ Top.use = "rhs" => Caller.step = "ready"
<1>1. /\ Len(stack) - 1 \in DOMAIN stack /\ Len(stack) \in Nat
      /\ Len(stack) \in DOMAIN stack /\ Top = stack[Len(stack)]
  BY TopIs
<1>2. QED
  BY <1>1 DEF Caller, IInv, Nested, Sound

LEMMA BackTurns ==
  ASSUME IInv, stack # << >>, Top.use # "top", NEW g
  PROVE  Turns(stack, Len(stack) - 1, g, Back(g))
<1> DEFINE n == Len(stack) - 1
           rest == SubSeq(stack, 1, Len(stack) - 2)
<1>1. /\ n \in DOMAIN stack /\ Len(stack) \in Nat /\ n \in Nat \ {0}
      /\ IsSeq(stack) /\ DOMAIN stack = 1 .. Len(stack)
  BY CallerIs, TopIs
<1>2. /\ IsSeq(rest) /\ Len(rest) = n - 1 /\ \A i \in 1 .. n - 1 : rest[i] = stack[i]
  BY <1>1, PrefixIsSeq
<1> HIDE DEF rest, n
<1>3. /\ IsSeq(Append(rest, g)) /\ DOMAIN Append(rest, g) = 1 .. (n - 1) + 1
      /\ Append(rest, g)[(n - 1) + 1] = g
      /\ \A i \in 1 .. n - 1 : Append(rest, g)[i] = rest[i]
  BY <1>2, AppendIsSeq
<1>4. (n - 1) + 1 = n /\ \A i \in 1 .. n - 1 : i \in DOMAIN stack
  BY <1>1 DEF n
<1>5. Turns(stack, n, g, Append(rest, g))
  BY <1>1, <1>2, <1>3, <1>4 DEF Turns
<1>6. QED
  BY <1>5 DEF Back, rest, n

\* The n-th call goes on, whatever was called after it being done.
LEMMA GoesKeeps ==
  ASSUME IInv, NEW n, NEW g, Turns(stack, n, g, stack'), Goes(stack[n], g),
         Typed', tables' = tables, config' = config, aliases <= aliases',
         call'.purpose = call.purpose, call'.target = call.target
  PROVE  IInv'
<1>1. aliases \in Nat /\ aliases' \in Nat
  BY DEF IInv, Typed
<1>2. /\ SameCall(stack[n], g) /\ FromOk(g) /\ ListOk(g) /\ Drawn(g)
      /\ g.scope = stack[n].scope /\ g.use = stack[n].use
      /\ g.outer = stack[n].outer /\ g.target = stack[n].target
      /\ \A x \in g.terms : x \in stack[n].terms \/ x.refs \subseteq Own(stack[n].see)
      /\ g.see \in {stack[n].see, << >>, g.scope, g.scope \o g.outer, g.scope \o << >>}
  BY DEF Goes, SameCall
<1>3. IsSeq(g.scope)
  BY <1>2 DEF FromOk
<1>4. Nested(stack') /\ Sound(stack')
  BY <1>2, TurnsNested, TurnsSound DEF IInv
<1>5. Visible(stack')
  BY <1>2, <1>3, TurnsVisible DEF IInv
<1>6. Distinct(stack', aliases')
  BY <1>1, <1>2, TurnsDistinct DEF IInv
<1>7. Reads(stack', tables')
  BY <1>2, TurnsReads DEF IInv
<1>8. NestingBounded'
  <2>1. Len(stack') <= Len(stack) /\ Len(stack') \in Nat /\ Len(stack) \in Nat
    BY DEF Turns, IsSeq
  <2>2. config.maxSubqueries \in Nat
    BY ConfigTyped DEF IInv, Typed
  <2>3. QED
    BY <2>1, <2>2 DEF IInv, NestingBounded
<1>9. Answers(stack', call')
  BY <1>2, TurnsAnswers DEF IInv
<1>10. QED
  BY <1>4, <1>5, <1>6, <1>7, <1>8, <1>9 DEF IInv

LEMMA GrowsKeeps ==
  ASSUME IInv, stack # << >>, NEW g, NEW new, Grows(Top, g, new),
         new.alias = aliases, Len(stack) = 1 \/ new.id \in tables \cup {NoTable},
         stack' = Become(g),
         Typed', tables' = tables, config' = config, aliases' = aliases + 1, call' = call
  PROVE  IInv'
<1> DEFINE n == Len(stack)
<1>1. Turns(stack, n, g, stack')
  BY BecomeTurns
<1>2. aliases \in Nat /\ Top = stack[n] /\ IsSeq(stack[n].scope)
  BY TopIs DEF IInv, Typed, FromOk
<1>3. /\ SameCall(stack[n], g) /\ FromOk(g) /\ ListOk(g) /\ Drawn(g) /\ IsSeq(g.scope)
      /\ g.scope = Append(stack[n].scope, new) /\ g.use = stack[n].use
      /\ g.outer = stack[n].outer /\ g.target = stack[n].target
      /\ g.terms = stack[n].terms /\ g.see = stack[n].see
  BY <1>2 DEF Grows, SameCall, FromOk
<1>4. Range(g.scope) = Range(stack[n].scope) \cup {new}
  BY <1>2, <1>3, AppendIsSeq
<1>5. Own(stack[n].scope) \subseteq Own(g.scope)
  BY <1>4, OwnGrows
<1>6. Nested(stack') /\ Sound(stack')
  BY <1>1, <1>3, TurnsNested, TurnsSound DEF IInv
<1>7. Visible(stack')
  BY <1>1, <1>3, <1>5, TurnsVisible DEF IInv
<1>8. Distinct(stack', aliases')
  BY <1>1, <1>2, <1>3, GrowsDistinct DEF IInv
<1>9. Reads(stack', tables')
  BY <1>1, <1>3, <1>4, TurnsReads DEF IInv
<1>10. NestingBounded'
  <2>1. Len(stack') = Len(stack)
    BY <1>1, TopIs DEF Turns, IsSeq
  <2>2. QED
    BY <2>1 DEF IInv, NestingBounded
<1>11. Answers(stack', call')
  BY <1>1, <1>3, TurnsAnswers DEF IInv
<1>12. QED
  BY <1>6, <1>7, <1>8, <1>9, <1>10, <1>11 DEF IInv

\* A query is called for, by the innermost.
LEMMA CallsKeep ==
  ASSUME IInv, stack # << >>, NEW g, Goes(Top, g), NEW h, Nests(Become(g), h),
         stack' = Append(Become(g), h), Draws, UNCHANGED aliases,
         \/ Top.extras
         \/ Top.depth < config.maxSubqueries
  PROVE  IInv'
<1> DEFINE n == Len(stack)
           u == Become(g)
<1>1. Turns(stack, n, g, u)
  BY BecomeTurns
<1>2. aliases \in Nat /\ Top = stack[n] /\ config.maxSubqueries \in Nat
  BY TopIs, ConfigTyped DEF IInv, Typed
<1>3. /\ SameCall(stack[n], g) /\ FromOk(g) /\ ListOk(g) /\ Drawn(g) /\ IsSeq(g.scope)
      /\ g.scope = stack[n].scope /\ g.use = stack[n].use
      /\ g.outer = stack[n].outer /\ g.target = stack[n].target
      /\ \A x \in g.terms : x \in stack[n].terms \/ x.refs \subseteq Own(stack[n].see)
      /\ g.see \in {stack[n].see, << >>, g.scope, g.scope \o g.outer, g.scope \o << >>}
  BY <1>2 DEF Goes, SameCall, FromOk
<1> HIDE DEF u
<1>4. Nested(u) /\ Sound(u)
  BY <1>1, <1>3, TurnsNested, TurnsSound DEF IInv
<1>5. Visible(u)
  BY <1>1, <1>3, TurnsVisible DEF IInv
<1>6. Distinct(u, aliases)
  BY <1>1, <1>2, <1>3, TurnsDistinct DEF IInv
<1>7. Reads(u, tables)
  BY <1>1, <1>3, TurnsReads DEF IInv
<1>8. Len(u) = n /\ IsSeq(u) /\ u # << >> /\ n \in Nat \ {0}
  BY <1>1, TopIs DEF Turns, IsSeq
<1>9. Answers(u, call)
  BY <1>1, <1>3, TurnsAnswers DEF IInv
<1>10. /\ Nested(stack') /\ Sound(stack') /\ Visible(stack') /\ Distinct(stack', aliases)
      /\ Reads(stack', tables) /\ Answers(stack', call)
  BY <1>2, <1>4, <1>5, <1>6, <1>7, <1>8, <1>9, CallKeeps DEF u
<1>11. NestingBounded'
  <2>1. Len(stack') = n + 1
    BY <1>8, AppendIsSeq DEF u
  <2>2. n = 1 \/ n - 1 < config.maxSubqueries
    BY TopIs
  <2>3. QED
    BY <1>2, <1>8, <2>1, <2>2 DEF NestingBounded, Draws
<1>12. Typed'
  BY DEF IInv, Typed, Draws, Asked
<1>13. QED
  BY <1>10, <1>11, <1>12 DEF IInv, Draws

LEMMA DrawsTyped ==
  ASSUME IInv, stack # << >>, Draws, aliases' \in {aliases, aliases + 1}
  PROVE  /\ Typed' /\ tables' = tables /\ config' = config /\ aliases <= aliases'
         /\ call' = call
BY DEF IInv, Typed, Draws, Asked, FirstAlias

\* Most steps: the innermost call goes on.
LEMMA BecomeKeeps ==
  ASSUME IInv, stack # << >>, NEW g, Goes(Top, g), stack' = Become(g), Draws,
         UNCHANGED aliases
  PROVE  IInv'
<1>1. /\ Typed' /\ tables' = tables /\ config' = config /\ aliases <= aliases'
      /\ call' = call
  BY DrawsTyped
<1>2. Turns(stack, Len(stack), g, stack') /\ Top = stack[Len(stack)]
  BY BecomeTurns, TopIs
<1>3. QED
  BY <1>1, <1>2, GoesKeeps

LEMMA BackKeeps ==
  ASSUME IInv, stack # << >>, Top.use # "top", NEW g, Goes(Caller, g),
         stack' = Back(g), Draws, aliases' \in {aliases, aliases + 1}
  PROVE  IInv'
<1>1. /\ Typed' /\ tables' = tables /\ config' = config /\ aliases <= aliases'
      /\ call' = call
  BY DrawsTyped
<1>2. Turns(stack, Len(stack) - 1, g, stack') /\ Caller = stack[Len(stack) - 1]
  BY BackTurns, CallerIs
<1>3. QED
  BY <1>1, <1>2, GoesKeeps

-----------------------------------------------------------------------------
(* The invariant is kept by every action.                                    *)

LEMMA QueryNests ==
  ASSUME IInv, stack # << >>, NEW g, SameCall(Top, g),
         NEW use \in {"cte", "rhs", "test", "operand"}, NEW outer,
         \/ outer = << >>
         \/ use \in {"test", "operand"} /\ outer = g.see,
         use \in {"cte", "rhs"} => Top.extras,
         use = "rhs" => g.step = "ready"
  PROVE  Nests(Become(g), Query(use, "standalone", NoTable, Top.depth + 1, FALSE, outer))
<1> DEFINE h == Query(use, "standalone", NoTable, Top.depth + 1, FALSE, outer)
           u == Become(g)
<1>1. /\ h.use = use /\ h.purpose = "standalone" /\ h.target = NoTable
      /\ h.extras = FALSE /\ h.depth = Top.depth + 1 /\ h.outer = outer
  BY DEF Query
<1>2. Fresh(h)
  BY QueryFresh
<1>3. u[Len(u)] = g
  BY BecomeTurns, TopIs DEF Turns, IsSeq
<1> HIDE DEF h, u
<1>4. Nests(u, h)
  BY <1>1, <1>2, <1>3 DEF Nests, SameCall
<1>5. QED
  BY <1>4 DEF h, u

LEMMA CteBodyKeeps ==
  ASSUME IInv, CteBody PROVE IInv'
<1> DEFINE g == [Top EXCEPT !.step = "seed"]
<1>1. stack # << >> /\ Top.step = "cte" /\ Top.extras
  BY DEF CteBody, At
<1>2. Goes(Top, g)
  BY <1>1, TopIs, StageGoes DEF BeforeSeed, Early
<1>3. stack' = Append(Become(g), Unrelated("cte")) /\ Draws /\ UNCHANGED aliases
  BY DEF CteBody
<1> HIDE DEF g
<1>4. Nests(Become(g), Unrelated("cte"))
  <2>1. SameCall(Top, g)
    BY <1>2 DEF Goes
  <2>2. Nests(Become(g), Query("cte", "standalone", NoTable, Top.depth + 1, FALSE, << >>))
    BY <1>1, <2>1, QueryNests
  <2>3. QED
    BY <2>2, Zenon DEF Unrelated
<1>5. QED
  BY <1>1, <1>2, <1>3, <1>4, CallsKeep

LEMMA SetOpKeeps ==
  ASSUME IInv, SetOp PROVE IInv'
<1> DEFINE g == [Top EXCEPT !.step = "ready"]
<1>1. stack # << >> /\ Top.step = "setop" /\ Top.extras
  BY DEF SetOp, At
<1>2. Goes(Top, g)
  BY <1>1, TopIs, StageGoes DEF BeforeSeed, Early
<1>3. /\ stack' = Append(Become(g), Unrelated("rhs")) /\ Draws /\ UNCHANGED aliases
      /\ g.step = "ready"
  BY <1>1, TopIs DEF SetOp, IsFrame, Fields
<1> HIDE DEF g
<1>4. Nests(Become(g), Unrelated("rhs"))
  <2>1. SameCall(Top, g)
    BY <1>2 DEF Goes
  <2>2. Nests(Become(g), Query("rhs", "standalone", NoTable, Top.depth + 1, FALSE, << >>))
    BY <1>1, <1>3, <2>1, QueryNests
  <2>3. QED
    BY <2>2, Zenon DEF Unrelated
<1>5. QED
  BY <1>1, <1>2, <1>3, <1>4, CallsKeep

LEMMA NestKeeps ==
  ASSUME IInv, NestTest \/ NestOperand PROVE IInv'
<1>1. /\ stack # << >> /\ Top.step = "predicate" /\ Draws /\ UNCHANGED aliases
      /\ Top.depth < config.maxSubqueries
  BY DEF NestTest, NestOperand, MayNest, At
<1>2. IsFrame(Top) /\ FromOk(Top) /\ ListOk(Top) /\ Drawn(Top)
  BY <1>1, TopIs
<1>3. CASE NestTest
  <2>1. Goes(Top, Top)
    BY <1>2 DEF Goes, SameCall
  <2>2. Become(Top) = stack
    BY <1>1, TopIs DEF Become, IsSeq
  <2>3. Nests(Become(Top), Subquery("test"))
    BY <1>1, <2>1, QueryNests DEF Goes, Subquery, SubDepth
  <2>4. stack' = Append(Become(Top), Subquery("test"))
    BY <1>3, <2>2 DEF NestTest
  <2>5. QED
    BY <1>1, <2>1, <2>3, <2>4, CallsKeep
<1>4. CASE NestOperand
  <2>1. PICK fam : stack' = Append(Become([Top EXCEPT !.compared = fam]),
                                   Subquery("operand"))
    BY <1>4 DEF NestOperand
  <2> DEFINE g == [Top EXCEPT !.compared = fam]
  <2>2. /\ g.joins = Top.joins /\ g.step = Top.step /\ g.items = Top.items
        /\ g.groupBy = Top.groupBy /\ g.having = Top.having /\ g.see = Top.see
        /\ g.orderBy = Top.orderBy /\ g.rhs = Top.rhs /\ g.terms = Top.terms
        /\ g.grouped = Top.grouped /\ g.setOp = Top.setOp /\ g.lock = Top.lock
        /\ g.distinct = Top.distinct
    BY <1>2 DEF IsFrame, Fields
  <2>3. SameFrom(Top, g)
    BY <1>2, WhereSame
  <2>4. stack' = Append(Become(g), Subquery("operand"))
    BY <2>1
  <2> HIDE DEF g
  <2>5. Drawn(g)
    BY <1>2, <2>2, <2>3, DrawnKept DEF Early
  <2>6. Goes(Top, g)
    BY <1>2, <2>2, <2>3, <2>5, BoolGoes DEF BeforeSeed
  <2>7. Nests(Become(g), Subquery("operand"))
    BY <1>1, <2>2, <2>6, QueryNests DEF Goes, Subquery, SubDepth
  <2>8. QED
    BY <1>1, <2>4, <2>6, <2>7, CallsKeep
<1>5. QED
  BY <1>3, <1>4

\* The steps that only end a stage.
LEMMA StagesKeep ==
  ASSUME IInv, NoCte \/ NoWhere \/ NoSetOp PROVE IInv'
<1>1. stack # << >> /\ Draws /\ UNCHANGED aliases
  BY DEF NoCte, NoWhere, NoSetOp, At
<1>2. PICK s \in {"seed", "tail", "ready"} :
        /\ stack' = Become([Top EXCEPT !.step = s])
        /\ Top.step \in {"cte", "seed"} <=> s \in {"cte", "seed"}
        /\ Top.step \in {"cte", "seed", "joins", "select"}
             <=> s \in {"cte", "seed", "joins", "select"}
        /\ Top.step \notin {"ready", "done"}
  BY DEF NoCte, NoWhere, NoSetOp, At
<1>3. Goes(Top, [Top EXCEPT !.step = s])
  BY <1>1, <1>2, TopIs, StageGoes DEF BeforeSeed, Early
<1>4. QED
  BY <1>1, <1>2, <1>3, BecomeKeeps

LEMMA SeedKeeps ==
  ASSUME IInv, Seed PROVE IInv'
<1>1. /\ stack # << >> /\ Top.step = "seed" /\ Draws /\ aliases' = aliases + 1
  BY DEF Seed, At, Numbered
<1>2. PICK src \in IF Top.target # NoTable THEN {Source(Top.target)} ELSE Cands(Top) :
        stack' = Become([Top EXCEPT !.step = "joins", !.scope = <<Aliased(src)>>])
  BY DEF Seed
<1>3. /\ IsFrame(Top) /\ FromOk(Top) /\ ListOk(Top) /\ Drawn(Top)
      /\ Len(stack) # 1 => Top.target = NoTable
  BY <1>1, TopIs
<1>4. /\ Known(src)
      /\ Top.target # NoTable => src.id = Top.target
      /\ Top.target = NoTable => src.id \in tables \cup {NoTable}
  <2>1. CASE Top.target # NoTable
    <3>1. src = Source(Top.target) /\ Top.target \in Table
      BY <1>2, <1>3, <2>1 DEF FromOk
    <3>2. QED
      BY <2>1, <3>1 DEF Source, Known
  <2>2. CASE Top.target = NoTable
    <3>1. src \in Cands(Top) /\ tables \subseteq Table
      BY <1>2, <2>2 DEF IInv, Typed
    <3>2. QED
      BY <1>3, <2>2, <3>1, CandsKnown
  <2>3. QED
    BY <2>1, <2>2
<1> DEFINE g == [Top EXCEPT !.step = "joins", !.scope = <<Aliased(src)>>]
<1>5. Grows(Top, g, Aliased(src))
  BY <1>1, <1>3, <1>4, SeedGrows
<1>6. Aliased(src).alias = aliases /\ Aliased(src).id = src.id
  BY <1>4, AliasedKnown
<1>7. Typed' /\ tables' = tables /\ config' = config /\ call' = call
  BY <1>1, DrawsTyped
<1>8. stack' = Become(g)
  BY <1>2
<1> HIDE DEF g
<1>9. QED
  BY <1>1, <1>3, <1>4, <1>5, <1>6, <1>7, <1>8, GrowsKeeps

\* One more table, its condition between columns of the tables there are.
LEMMA JoinedKeeps ==
  ASSUME IInv, Joining, NEW src \in Cands(Top), NEW kind, NEW on,
         on \subseteq Own(Append(Top.scope, Aliased(src))), stack' = Joined(src, kind, on),
         Top.purpose = "pkSelect" => kind # "right"
  PROVE  IInv'
<1> DEFINE g == [Top EXCEPT !.scope = Append(@, Aliased(src)),
                            !.joins = Append(@, [kind |-> kind, on |-> on])]
<1>1. /\ stack # << >> /\ Top.step = "joins" /\ Draws /\ aliases' = aliases + 1
  BY DEF Joining, At, Numbered
<1>2. IsFrame(Top) /\ FromOk(Top) /\ ListOk(Top) /\ Drawn(Top)
  BY <1>1, TopIs
<1>3. Known(src) /\ src.id \in tables \cup {NoTable}
  BY <1>2, CandsKnown DEF IInv, Typed
<1>4. Grows(Top, g, Aliased(src))
  BY <1>1, <1>2, <1>3, JoinGrows
<1>5. Aliased(src).alias = aliases /\ Aliased(src).id = src.id
  BY <1>3, AliasedKnown
<1>6. Typed' /\ tables' = tables /\ config' = config /\ call' = call
  BY <1>1, DrawsTyped
<1>7. stack' = Become(g)
  BY DEF Joined
<1> HIDE DEF g
<1>8. QED
  BY <1>1, <1>3, <1>4, <1>5, <1>6, <1>7, GrowsKeeps

LEMMA JoinKeeps ==
  ASSUME IInv, Join PROVE IInv'
<1>1. stack # << >> /\ Top.step = "joins" /\ Draws
  BY DEF Join, JoinOn, JoinCross, NoSecondCross, NoMoreJoins, Joining, At
<1>2. IsFrame(Top) /\ FromOk(Top) /\ ListOk(Top) /\ Drawn(Top)
  BY <1>1, TopIs
<1>3. CASE JoinOn
  <2>1. PICK base \in Range(Top.scope) :
          \E e \in ParentEdges(Top, base) \cup ChildEdges(Top, base)
                     \cup UNION {Pairs(base, src) : src \in Cands(Top)},
             kind \in OnKinds(Top) :
            stack' = Joined(e.src, kind, {[alias |-> aliases, col |-> e.new],
                                          [alias |-> base.alias, col |-> e.base]})
    BY <1>3 DEF JoinOn
  <2>2. PICK e \in ParentEdges(Top, base) \cup ChildEdges(Top, base)
                      \cup UNION {Pairs(base, src) : src \in Cands(Top)},
             kind \in OnKinds(Top) :
          stack' = Joined(e.src, kind, {[alias |-> aliases, col |-> e.new],
                                        [alias |-> base.alias, col |-> e.base]})
    BY <2>1
  <2> DEFINE new == Aliased(e.src)
             all == Append(Top.scope, new)
  <2>3. Known(base) /\ tables \subseteq Table
    BY <1>2 DEF FromOk, IInv, Typed
  <2>4. /\ e.src \in Cands(Top) /\ e.new \in DOMAIN e.src.cols
        /\ e.base \in DOMAIN base.cols
    BY <1>2, <2>3, EdgesFit
  <2>5. new.alias = aliases /\ new.cols = e.src.cols
    BY DEF Aliased
  <2> HIDE DEF new
  <2>6. Range(all) = Range(Top.scope) \cup {new}
    BY <1>2, AppendIsSeq DEF FromOk
  <2> HIDE DEF all
  <2>7. [alias |-> aliases, col |-> e.new] \in Own(all)
    BY <2>4, <2>5, <2>6, OwnHas
  <2>8. [alias |-> base.alias, col |-> e.base] \in Own(all)
    BY <2>4, <2>6, OwnHas
  <2>9. Top.purpose = "pkSelect" => kind # "right"
    BY <2>2 DEF OnKinds
  <2>10. QED
    BY <1>3, <2>2, <2>4, <2>7, <2>8, <2>9, JoinedKeeps DEF JoinOn, all, new
<1>4. CASE JoinCross
  <2>1. PICK src \in Cands(Top) : stack' = Joined(src, "cross", {})
    BY <1>4 DEF JoinCross
  <2>2. QED
    BY <1>4, <2>1, JoinedKeeps DEF JoinCross
<1>5. ASSUME stack' = JoinsDone, aliases' \in {aliases, aliases + 1} PROVE IInv'
  <2> DEFINE g == [Top EXCEPT !.step = "select",
                     !.joins = [j \in DOMAIN @ |-> [@[j] EXCEPT !.on = {}]]]
  <2>1. Goes(Top, g) /\ stack' = Become(g)
    BY <1>1, <1>2, <1>5, JoinsDoneGoes DEF JoinsDone
  <2> HIDE DEF g
  <2>2. /\ Typed' /\ tables' = tables /\ config' = config /\ aliases <= aliases'
        /\ call' = call
    BY <1>1, <1>5, DrawsTyped
  <2>3. Turns(stack, Len(stack), g, stack') /\ Top = stack[Len(stack)]
    BY <1>1, <2>1, BecomeTurns, TopIs
  <2>4. QED
    BY <2>1, <2>2, <2>3, GoesKeeps
<1>6. CASE NoSecondCross
  BY <1>5, <1>6 DEF NoSecondCross, Joining, Numbered
<1>7. CASE NoMoreJoins
  BY <1>5, <1>7 DEF NoMoreJoins
<1>8. QED
  BY <1>3, <1>4, <1>6, <1>7 DEF Join

\* The columns of a sequence of them, as a select list.
LEMMA ColumnsSelected ==
  ASSUME NEW scope, NEW C, C \subseteq Columns(scope), NEW cols \in Seq(C)
  PROVE  LET list == [i \in DOMAIN cols |-> colExpr(cols[i])]
         IN  IsSeq(list) /\ \A e \in Range(list) : Within(e, Own(scope))
<1> DEFINE list == [i \in DOMAIN cols |-> colExpr(cols[i])]
<1>1. DOMAIN cols = 1 .. Len(cols) /\ Len(cols) \in Nat
      /\ \A i \in DOMAIN cols : cols[i] \in Columns(scope)
  OBVIOUS
<1>2. list = [i \in 1 .. Len(cols) |-> list[i]] /\ DOMAIN list = DOMAIN cols
  BY <1>1
<1>3. \A i \in DOMAIN cols : Within(list[i], Own(scope))
  BY <1>1, ColumnWithin
<1> HIDE DEF list
<1>4. IsSeq(list)
  BY <1>1, <1>2, FunctionIsSeq
<1>5. \A e \in Range(list) : Within(e, Own(scope))
  BY <1>2, <1>3 DEF Range
<1>6. QED
  BY <1>4, <1>5 DEF list

LEMMA BoundedSeqs ==
  ASSUME NEW S, NEW n, NEW s \in BoundedSeq(S, n)
  PROVE  s \in Seq(S) /\ IsSeq(s) /\ Range(s) \subseteq S
<1>1. s \in Seq(S)
  BY DEF BoundedSeq, SeqOf
<1>2. QED
  BY <1>1, SeqIsSeq DEF Range

LEMMA MaybeIs ==
  ASSUME NEW S, NEW p, NEW s \in Maybe(p, S)
  PROVE  IsSeq(s) /\ Range(s) \subseteq S
<1>1. s = << >> \/ \E e \in S : s = <<e>>
  BY DEF Maybe
<1>2. \A e : Range(<<e>>) = {e} /\ IsSeq(<<e>>)
  BY DEF IsSeq, Range
<1>3. Range(<< >>) = {} /\ IsSeq(<< >>)
  BY DEF IsSeq, Range
<1>4. QED
  BY <1>1, <1>2, <1>3

\* The first column of the first table, which is the target of a query for keys.
LEMMA KeyIs ==
  ASSUME IInv, SelectKey
  PROVE  LET from == Top.scope[1]
             key  == CHOOSE c \in Columns(<<from>>) : c.col = 1
         IN  key \in Columns(Top.scope) /\ <<colExpr(key)>> = KeyOf(from)
<1> DEFINE from == Top.scope[1]
           key  == CHOOSE c \in Columns(<<from>>) : c.col = 1
<1>1. stack # << >> /\ Top.step = "select" /\ Top.purpose = "pkSelect"
  BY DEF SelectKey, At
<1>2. FromOk(Top)
  BY <1>1, TopIs
<1>3. /\ from \in Range(Top.scope) /\ Known(from) /\ from.id # NoTable
  <2>1. /\ Top.target # NoTable /\ IsSeq(Top.scope) /\ IsSeq(Top.joins)
        /\ Len(Top.scope) = Len(Top.joins) + 1
    BY <1>1, <1>2 DEF FromOk, BeforeSeed
  <2>2. 1 \in DOMAIN Top.scope /\ Top.scope # << >>
    BY <2>1 DEF IsSeq
  <2>3. from \in Range(Top.scope)
    BY <2>2 DEF Range
  <2>4. QED
    BY <1>2, <2>1, <2>2, <2>3 DEF FromOk
<1>4. key \in Columns(Top.scope) /\ <<colExpr(key)>> = KeyOf(from)
  <2>1. 1 \in DOMAIN from.cols
    BY <1>3, TablesHaveColumns DEF Known
  <2>2. from \in Range(<<from>>) /\ Range(<<from>>) \subseteq Range(Top.scope)
    BY <1>3 DEF Range
  <2> HIDE DEF from
  <2>3. [alias |-> from.alias, col |-> 1] \in Own(<<from>>)
    BY <2>1, <2>2, OwnHas
  <2>4. PICK c \in Columns(<<from>>) : RefOf(c) = [alias |-> from.alias, col |-> 1]
    BY <2>3, Zenon DEF Own
  <2>5. c.col = 1
    BY <2>4 DEF RefOf
  <2>6. key \in Columns(<<from>>)
    BY <2>5, Zenon
  <2>7. key.col = 1
    BY <2>5, Zenon
  <2> HIDE DEF key
  <2>8. PICK j \in DOMAIN from.cols :
          key = [alias |-> from.alias, col |-> j, id |-> from.id,
                 type |-> from.cols[j].type, real |-> from.cols[j].real]
    <3>1. Range(<<from>>) = {from}
      BY DEF Range
    <3>2. QED
      BY <2>6, <3>1 DEF Columns
  <2>9. colExpr(key) = colExpr([alias |-> from.alias, col |-> 1,
                          type |-> from.cols[1].type, real |-> from.cols[1].real])
    BY <2>7, <2>8 DEF colExpr, Of, RefOf
  <2>10. QED
    BY <2>2, <2>6, <2>9, OwnGrows DEF KeyOf
<1>5. QED
  BY <1>4

LEMMA SelectKeyKeeps ==
  ASSUME IInv, SelectKey PROVE IInv'
<1> DEFINE from == Top.scope[1]
           key  == CHOOSE c \in Columns(<<from>>) : c.col = 1
           g    == [Selected(<<colExpr(key)>>) EXCEPT !.distinct = Top.joins # << >>]
<1>1. /\ stack # << >> /\ Top.step = "select" /\ Top.purpose = "pkSelect"
      /\ Draws /\ UNCHANGED aliases
  BY DEF SelectKey, At
<1>2. stack' = Become(g)
  BY Zenon DEF SelectKey
<1>3. IsFrame(Top) /\ FromOk(Top) /\ ListOk(Top) /\ Drawn(Top)
  BY <1>1, TopIs
<1>4. key \in Columns(Top.scope) /\ <<colExpr(key)>> = KeyOf(from)
  BY KeyIs
<1> HIDE DEF key
<1>5. Within(colExpr(key), Own(Top.scope))
  BY <1>4, ColumnWithin
<1>6. /\ g.step = "where" /\ g.joins = Top.joins /\ g.see = Top.see
      /\ g.terms = Top.terms /\ g.orderBy = Top.orderBy /\ g.rhs = Top.rhs
      /\ g.items = <<colExpr(key)>> /\ g.having = Top.having /\ g.groupBy = Top.groupBy
      /\ g.grouped = Top.grouped /\ g.setOp = Top.setOp /\ g.lock = Top.lock
      /\ SameFrom(Top, g)
  BY <1>3 DEF IsFrame, Fields, Selected, SameFrom, SameCall
<1> HIDE DEF g
<1>7. \A e \in Range(g.items) : Within(e, Own(Top.scope))
  BY <1>5, <1>6 DEF Range
<1>8. /\ \A e \in g.having : Within(e, Own(Top.scope))
      /\ g.groupBy \subseteq Own(Top.scope)
  BY <1>3, <1>6 DEF ListOk
<1>9. g.grouped = FALSE /\ g.items = KeyOf(from)
  BY <1>1, <1>3, <1>4, <1>6 DEF Drawn, Early
<1>10. Goes(Top, g)
  BY <1>1, <1>3, <1>6, <1>7, <1>8, <1>9, SelectGoes
<1>11. QED
  BY <1>1, <1>2, <1>10, BecomeKeeps

LEMMA AggregateNodes ==
  ASSUME NEW scope, NEW e \in genAggCall(scope)
  PROVE  e.node = "aggregate"
<1>1. \A type, real, refs : Of("aggregate", type, real, refs).node = "aggregate"
  BY DEF Of
<1>2. QED
  BY <1>1, Zenon DEF genAggCall, Fold

\* Beside the aggregates, what is grouped by.
LEMMA AggregatesAgree ==
  ASSUME NEW scope, NEW groups, NEW aggs, Range(aggs) \subseteq genAggCall(scope),
         IsSeq(aggs), IsSeq([i \in DOMAIN groups |-> colExpr(groups[i])])
  PROVE  LET items == [i \in DOMAIN groups |-> colExpr(groups[i])] \o aggs
         IN  /\ \A e \in Range(items) : e.node # "window"
             /\ Plain(items) \subseteq {RefOf(c) : c \in Range(groups)}
<1> DEFINE plain == [i \in DOMAIN groups |-> colExpr(groups[i])]
           items == plain \o aggs
           refs  == {RefOf(c) : c \in Range(groups)}
<1>1. Range(items) = Range(plain) \cup Range(aggs)
  BY OwnOfConcat
<1>2. \A e \in Range(aggs) : e.node = "aggregate"
  BY AggregateNodes
<1>3. \A e \in Range(plain) : e.node = "column" /\ e.refs \subseteq refs
  <2>1. ASSUME NEW i \in DOMAIN groups
        PROVE  colExpr(groups[i]).node = "column" /\ colExpr(groups[i]).refs \subseteq refs
    <3>1. /\ colExpr(groups[i]).node = "column"
          /\ colExpr(groups[i]).refs = {RefOf(groups[i])}
      BY DEF colExpr, Of
    <3>2. groups[i] \in Range(groups)
      BY DEF Range
    <3>3. QED
      BY <3>1, <3>2
  <2> HIDE DEF refs
  <2>2. QED
    BY <2>1 DEF Range
<1> HIDE DEF items, plain, refs
<1>4. \A e \in Range(items) : e.node # "window"
  BY <1>1, <1>2, <1>3
<1>5. Plain(items) \subseteq refs
  BY <1>1, <1>2, <1>3 DEF Plain
<1>6. QED
  BY <1>4, <1>5 DEF items, plain, refs

LEMMA SelectAggregatesKeeps ==
  ASSUME IInv, SelectAggregates PROVE IInv'
<1> DEFINE V == Own(Top.scope)
<1>1. /\ stack # << >> /\ Top.step = "select" /\ Top.purpose # "pkSelect"
      /\ Draws /\ UNCHANGED aliases
  BY DEF SelectAggregates, At
<1>2. PICK groups \in BoundedSeq(Columns(Top.scope), AtMost(2)),
           aggs   \in BoundedSeq(genAggCall(Top.scope), AtMost(2)) \ {<< >>},
           having \in Maybe(50, genAggCall(Top.scope)) :
        stack' = Become([Selected([i \in DOMAIN groups |-> colExpr(groups[i])] \o aggs)
                           EXCEPT !.grouped = TRUE,
                                  !.groupBy = {RefOf(c) : c \in Range(groups)},
                                  !.having = Range(having)])
  BY Zenon DEF SelectAggregates
<1>3. IsFrame(Top) /\ FromOk(Top) /\ ListOk(Top) /\ Drawn(Top)
  BY <1>1, TopIs
<1> DEFINE plain == [i \in DOMAIN groups |-> colExpr(groups[i])]
           refs  == {RefOf(c) : c \in Range(groups)}
           g     == [Selected(plain \o aggs) EXCEPT !.grouped = TRUE,
                       !.groupBy = refs, !.having = Range(having)]
<1>4. /\ groups \in Seq(Columns(Top.scope)) /\ Range(groups) \subseteq Columns(Top.scope)
      /\ IsSeq(aggs) /\ Range(aggs) \subseteq genAggCall(Top.scope)
  BY <1>2, BoundedSeqs
<1>5. IsSeq(plain) /\ \A e \in Range(plain) : Within(e, V)
  BY <1>4, ColumnsSelected
<1>6. \A e \in genAggCall(Top.scope) : Within(e, V)
  BY CallsWithin
<1>7. \A e \in Range(having) : Within(e, V)
  BY <1>2, <1>6, MaybeIs
<1>8. refs \subseteq V
  BY <1>4 DEF Own
<1>9. stack' = Become(g)
  BY <1>2, Zenon
<1>10. /\ \A e \in Range(plain \o aggs) : e.node # "window"
       /\ Plain(plain \o aggs) \subseteq refs
  BY <1>4, <1>5, AggregatesAgree
<1> HIDE DEF plain, refs
<1>11. \A e \in Range(plain \o aggs) : Within(e, V)
  BY <1>4, <1>5, <1>6, OwnOfConcat
<1>12. /\ g.step = "where" /\ g.joins = Top.joins /\ g.see = Top.see
       /\ g.terms = Top.terms /\ g.orderBy = Top.orderBy /\ g.rhs = Top.rhs
       /\ g.items = plain \o aggs /\ g.having = Range(having) /\ g.groupBy = refs
       /\ g.setOp = Top.setOp /\ g.lock = Top.lock /\ SameFrom(Top, g)
  BY <1>3 DEF IsFrame, Fields, Selected, SameFrom, SameCall
<1> HIDE DEF g
<1>13. Goes(Top, g)
  BY <1>1, <1>3, <1>7, <1>8, <1>11, <1>12, <1>10, SelectGoes
<1>14. QED
  BY <1>1, <1>9, <1>13, BecomeKeeps

LEMMA SelectColumnsKeeps ==
  ASSUME IInv, SelectColumns PROVE IInv'
<1> DEFINE V == Own(Top.scope)
           scalars == UNION {genScalar(c.type, Top.scope, config.maxDepth) :
                               c \in Columns(Top.scope)}
<1>1. /\ stack # << >> /\ Top.step = "select" /\ Top.purpose # "pkSelect"
      /\ Draws /\ UNCHANGED aliases
  BY DEF SelectColumns, At
<1>2. PICK cols \in BoundedSeq(Columns(Top.scope), AtMost(4)) \ {<< >>},
           expr \in Maybe(50, scalars),
           win  \in Maybe(IF Top.extras THEN config.window ELSE 0,
                          genWindowCall(Top.scope)) :
        stack' = Become(Selected([i \in DOMAIN cols |-> colExpr(cols[i])] \o expr \o win))
  BY Zenon DEF SelectColumns
<1>3. IsFrame(Top) /\ FromOk(Top) /\ ListOk(Top) /\ Drawn(Top)
  BY <1>1, TopIs
<1> DEFINE plain == [i \in DOMAIN cols |-> colExpr(cols[i])]
           g     == Selected(plain \o expr \o win)
<1>4. cols \in Seq(Columns(Top.scope))
  BY <1>2, BoundedSeqs
<1>5. IsSeq(plain) /\ \A e \in Range(plain) : Within(e, V)
  BY <1>4, ColumnsSelected
<1>6. /\ \A e \in genWindowCall(Top.scope) : Within(e, V)
      /\ \A e \in scalars : Within(e, V)
  BY CallsWithin, ScalarWithin
<1> HIDE DEF scalars
<1>7. /\ IsSeq(expr) /\ \A e \in Range(expr) : Within(e, V)
      /\ IsSeq(win) /\ \A e \in Range(win) : Within(e, V)
  BY <1>2, <1>6, MaybeIs
<1>8. stack' = Become(g)
  BY <1>2, Zenon
<1> HIDE DEF plain
<1>9. \A e \in Range(plain \o expr \o win) : Within(e, V)
  <2>1. IsSeq(plain \o expr) /\ Range(plain \o expr) = Range(plain) \cup Range(expr)
    BY <1>5, <1>7, OwnOfConcat
  <2>2. Range(plain \o expr \o win) = Range(plain \o expr) \cup Range(win)
    BY <1>7, <2>1, OwnOfConcat
  <2>3. QED
    BY <1>5, <1>7, <2>1, <2>2
<1>10. /\ g.step = "where" /\ g.joins = Top.joins /\ g.see = Top.see
       /\ g.terms = Top.terms /\ g.orderBy = Top.orderBy /\ g.rhs = Top.rhs
       /\ g.items = plain \o expr \o win /\ g.having = Top.having
       /\ g.groupBy = Top.groupBy /\ g.grouped = Top.grouped
       /\ g.setOp = Top.setOp /\ g.lock = Top.lock /\ SameFrom(Top, g)
  BY <1>3 DEF IsFrame, Fields, Selected, SameFrom, SameCall
<1> HIDE DEF g
<1>11. /\ \A e \in g.having : Within(e, Own(Top.scope))
       /\ g.groupBy \subseteq Own(Top.scope)
  BY <1>3, <1>10 DEF ListOk
<1>12. ~g.grouped
  BY <1>1, <1>3, <1>10 DEF Drawn, Early
<1>13. Goes(Top, g)
  BY <1>1, <1>3, <1>9, <1>10, <1>11, <1>12, SelectGoes
<1>14. QED
  BY <1>1, <1>8, <1>13, BecomeKeeps

LEMMA WhereKeeps ==
  ASSUME IInv, Where PROVE IInv'
<1>1. stack # << >> /\ Top.step = "where" /\ Draws /\ UNCHANGED aliases
  BY DEF Where, At
<1>2. PICK correlated :
        stack' = Become([Top EXCEPT
           !.step = "predicate", !.todo = <<config.maxDepth>>,
           !.see = Top.scope \o (IF correlated THEN Top.outer ELSE << >>)])
  BY DEF Where
<1> DEFINE see == Top.scope \o (IF correlated THEN Top.outer ELSE << >>)
           g == [Top EXCEPT !.step = "predicate", !.todo = <<config.maxDepth>>, !.see = see]
<1>3. see \in {Top.scope, Top.scope \o Top.outer, Top.scope \o << >>}
  BY Zenon
<1>4. stack' = Become(g)
  BY <1>2
<1> HIDE DEF see
<1>5. Goes(Top, g)
  BY <1>1, <1>3, TopIs, WhereGoes
<1> HIDE DEF g
<1>6. QED
  BY <1>1, <1>4, <1>5, BecomeKeeps

LEMMA EndingKeeps ==
  ASSUME IInv, Ending PROVE IInv'
<1>1. stack # << >> /\ Top.step = "tail" /\ Draws /\ UNCHANGED aliases
  BY DEF Ending, At
<1>2. PICK order \in Orders(Orderable(Top)) : \E limit, offset, distinct :
        stack' = Become([Top EXCEPT !.step = "setop", !.orderBy = order,
                           !.limit = limit, !.offset = offset, !.distinct = distinct])
  <2> DEFINE P(o, l, f, d) ==
        stack' = Become([Top EXCEPT !.step = "setop", !.orderBy = o,
                           !.limit = l, !.offset = f, !.distinct = d])
  <2>1. \E o \in Orders(Orderable(Top)) :
        \E l \in IF Top.purpose = "pkSelect" THEN {FALSE} ELSE Roll(config.limit),
           f \in BOOLEAN,
           d \in IF Top.purpose = "pkSelect" \/ Top.grouped THEN {Top.distinct}
                 ELSE BOOLEAN : P(o, l, f, d)
    BY Zenon DEF Ending
  <2> HIDE DEF P
  <2>2. \E o \in Orders(Orderable(Top)) : \E l, f, d : P(o, l, f, d)
    BY <2>1
  <2>3. QED
    BY <2>2 DEF P
<1>3. order \in SUBSET Plain(Top.items)
  BY <1>2 DEF Orders, Orderable
<1>4. PICK limit, offset, distinct :
        stack' = Become([Top EXCEPT !.step = "setop", !.orderBy = order,
                           !.limit = limit, !.offset = offset, !.distinct = distinct])
  BY <1>2
<1> DEFINE g == [Top EXCEPT !.step = "setop", !.orderBy = order, !.limit = limit,
                            !.offset = offset, !.distinct = distinct]
<1>5. Goes(Top, g)
  BY <1>1, <1>3, TopIs, EndingGoes
<1>6. stack' = Become(g)
  BY <1>4
<1> HIDE DEF g
<1>7. QED
  BY <1>1, <1>5, <1>6, BecomeKeeps

LEMMA TermWithin ==
  ASSUME NEW op, NEW families, NEW e, NEW sub, NEW V, Within(e, V)
  PROVE  Within(Term(op, families, e, sub), V)
BY DEF Term, Within

LEMMA TestsWithin ==
  ASSUME NEW term, NEW fam, term \in Simple \cup Compared(fam)
  PROVE  Within(term, Own(Top.see))
<1>1. \A c \in Columns(Top.see) :
        Within(Term("test", {Family[c.real]}, colExpr(c), << >>), Own(Top.see))
  BY ColumnWithin, TermWithin
<1>2. \A c \in pickColumn(Top.see, "string") :
        Within(Term("like", {Family[c.real]}, colExpr(c), << >>), Own(Top.see))
  <2>1. pickColumn(Top.see, "string") \subseteq Columns(Top.see)
    BY DEF pickColumn
  <2>2. QED
    BY <2>1, ColumnWithin, TermWithin
<1>3. \A e \in genLeaf("BOOL", Top.see) :
        Within(Term("leaf", {Family[e.real]}, e, << >>), Own(Top.see))
  BY LeafWithin, TermWithin
<1>4. \A e \in genScalar(representative[fam], Top.see, Childs(Head(Top.todo))) :
        Within(Term("compare", {fam, Family[e.real]}, e, << >>), Own(Top.see))
  BY ScalarWithin, TermWithin
<1>5. CASE term \in Simple
  BY <1>1, <1>2, <1>3, <1>5, Zenon DEF Simple
<1>6. CASE term \in Compared(fam)
  BY <1>4, <1>6, Zenon DEF Compared
<1>7. QED
  BY <1>5, <1>6

LEMMA TestKeeps ==
  ASSUME IInv, Test PROVE IInv'
<1>1. stack # << >> /\ Draws /\ UNCHANGED aliases
  BY DEF Test, At
<1>2. PICK term \in Simple \cup UNION {Compared(fam) : fam \in FamiliesIn(Top.see)} :
        stack' = Become(Done(Top, term))
  BY Zenon DEF Test
<1>3. \E fam : term \in Simple \cup Compared(fam)
  BY <1>2, Zenon
<1>4. Within(term, Own(Top.see))
  BY <1>3, TestsWithin
<1>5. Goes(Top, Done(Top, term))
  BY <1>1, <1>4, TopIs, DoneGoes
<1>6. QED
  BY <1>1, <1>2, <1>5, BecomeKeeps

LEMMA CombineKeeps ==
  ASSUME IInv, Combine PROVE IInv'
<1>1. stack # << >> /\ Draws /\ UNCHANGED aliases
  BY DEF Combine, At
<1>2. PICK n \in {1, 2} :
        stack' = Become([Top EXCEPT !.todo = [i \in 1 .. n |-> Head(@) - 1] \o Tail(@)])
  BY DEF Combine
<1> DEFINE todo == [i \in 1 .. n |-> Head(Top.todo) - 1] \o Tail(Top.todo)
           g    == [Top EXCEPT !.todo = todo]
<1>3. stack' = Become(g)
  BY <1>2
<1> HIDE DEF todo
<1>4. IsFrame(Top) /\ FromOk(Top) /\ ListOk(Top) /\ Drawn(Top)
  BY <1>1, TopIs
<1>5. /\ g.joins = Top.joins /\ g.step = Top.step /\ g.items = Top.items
      /\ g.groupBy = Top.groupBy /\ g.having = Top.having /\ g.see = Top.see
      /\ g.orderBy = Top.orderBy /\ g.rhs = Top.rhs /\ g.terms = Top.terms
      /\ g.grouped = Top.grouped /\ g.setOp = Top.setOp /\ g.lock = Top.lock
      /\ g.distinct = Top.distinct
  BY <1>4 DEF IsFrame, Fields
<1>6. SameFrom(Top, g)
  BY <1>4, WhereSame
<1> HIDE DEF g
<1>7. Goes(Top, g)
  <2>1. Drawn(g)
    BY <1>4, <1>5, <1>6, DrawnKept DEF Early
  <2>2. QED
    BY <1>4, <1>5, <1>6, <2>1, BoolGoes DEF BeforeSeed
<1>8. QED
  BY <1>1, <1>3, <1>7, BecomeKeeps

LEMMA EndWhereKeeps ==
  ASSUME IInv, EndWhere PROVE IInv'
<1>1. stack # << >> /\ Top.step = "predicate" /\ Draws /\ UNCHANGED aliases
  BY DEF EndWhere, At
<1>2. PICK s \in {"ready", "tail"} :
        stack' = Become([Top EXCEPT !.terms = {}, !.see = << >>, !.step = s])
  BY DEF EndWhere
<1> DEFINE g == [Top EXCEPT !.terms = {}, !.see = << >>, !.step = s]
<1>3. stack' = Become(g)
  BY <1>2
<1>4. IsFrame(Top) /\ FromOk(Top) /\ ListOk(Top) /\ Drawn(Top)
  BY <1>1, TopIs
<1>5. /\ g.joins = Top.joins /\ g.step = s /\ g.items = Top.items
      /\ g.groupBy = Top.groupBy /\ g.having = Top.having /\ g.see = << >>
      /\ g.orderBy = Top.orderBy /\ g.rhs = Top.rhs /\ g.terms = {}
      /\ g.grouped = Top.grouped /\ g.setOp = Top.setOp /\ g.lock = Top.lock
      /\ g.distinct = Top.distinct
  BY <1>4 DEF IsFrame, Fields
<1>6. SameFrom(Top, g)
  BY <1>4, WhereSame
<1> HIDE DEF g
<1>7. Goes(Top, g)
  <2>1. Drawn(g)
    BY <1>1, <1>4, <1>5, <1>6, DrawnKept DEF Early
  <2>2. QED
    BY <1>1, <1>4, <1>5, <1>6, <2>1, BoolGoes DEF BeforeSeed
<1>8. QED
  BY <1>1, <1>3, <1>7, BecomeKeeps

-----------------------------------------------------------------------------
(* The returns.                                                              *)

LEMMA ReturnCteKeeps ==
  ASSUME IInv, ReturnCte PROVE IInv'
<1> DEFINE cte == <<[id |-> NoTable,
                     cols |-> [i \in DOMAIN Top.items |->
                                [type |-> Top.items[i].type, real |-> Top.items[i].real,
                                 ref |-> NoTable]]]>>
           g   == [Caller EXCEPT !.cte = cte]
<1>1. stack # << >> /\ Top.use = "cte" /\ Draws /\ aliases' = aliases + 1
  BY DEF ReturnCte, Returns, At, Numbered
<1>2. stack' = Back(g)
  BY Zenon DEF ReturnCte
<1>3. \A s \in Range(cte) : s.id = NoTable
  BY DEF Range
<1> HIDE DEF cte
<1>4. Goes(Caller, g)
  BY <1>1, <1>3, CallerIs, CteGoes
<1> HIDE DEF g
<1>5. QED
  BY <1>1, <1>2, <1>4, BackKeeps

\* A subquery becomes an operand of a term.
LEMMA OperandKeeps ==
  ASSUME IInv, stack # << >>, Top.use # "top", Draws, UNCHANGED aliases,
         NEW op, NEW families, NEW e, NEW sub, Within(e, Own(Caller.see)),
         stack' = Back(Done(Caller, Term(op, families, e, sub)))
  PROVE  IInv'
<1> DEFINE g == Done(Caller, Term(op, families, e, sub))
<1>1. Goes(Caller, g)
  BY TermWithin, CallerIs, DoneGoes
<1>2. stack' = Back(g)
  OBVIOUS
<1> HIDE DEF g
<1>3. QED
  BY <1>1, <1>2, BackKeeps

LEMMA ReturnExistsKeeps ==
  ASSUME IInv, ReturnExists PROVE IInv'
<1>1. stack # << >> /\ Top.use # "top" /\ Draws /\ UNCHANGED aliases
  BY DEF ReturnExists, Returns, At
<1>2. stack' = Back(Done(Caller, Term("exists", {}, genLiteral("BOOL"), <<Shape(Top)>>)))
  BY DEF ReturnExists
<1>3. Within(genLiteral("BOOL"), Own(Caller.see))
  BY LiteralWithin
<1>4. QED
  BY <1>1, <1>2, <1>3, OperandKeeps

LEMMA ReturnInKeeps ==
  ASSUME IInv, ReturnIn PROVE IInv'
<1>1. stack # << >> /\ Top.use # "top" /\ Draws /\ UNCHANGED aliases
  BY DEF ReturnIn, Returns, At
<1>2. PICK keep \in DOMAIN Top.items :
        \E arg \in genLeaf(trimToSingleItem(Top, keep).items[1].type, Caller.see) :
          stack' = Back(Done(Caller, Term("in", {Family[arg.real]}, arg,
                                          <<Shape(trimToSingleItem(Top, keep))>>)))
  BY Zenon DEF ReturnIn
<1> DEFINE sub == trimToSingleItem(Top, keep)
<1>3. PICK arg \in genLeaf(sub.items[1].type, Caller.see) :
        stack' = Back(Done(Caller, Term("in", {Family[arg.real]}, arg, <<Shape(sub)>>)))
  BY <1>2
<1>4. Within(arg, Own(Caller.see))
  BY <1>3, LeafWithin
<1> HIDE DEF sub
<1>5. QED
  BY <1>1, <1>3, <1>4, OperandKeeps

LEMMA ReturnOperandKeeps ==
  ASSUME IInv, ReturnOperand PROVE IInv'
<1>1. stack # << >> /\ Top.use # "top" /\ Draws /\ UNCHANGED aliases
  BY DEF ReturnOperand, Returns, At
<1>2. \E e \in genScalar(representative[Caller.compared], Caller.see,
                        Childs(Head(Caller.todo))) :
        \E op, families, sub : stack' = Back(Done(Caller, Term(op, families, e, sub)))
  BY Zenon DEF ReturnOperand
<1>3. PICK e \in genScalar(representative[Caller.compared], Caller.see,
                        Childs(Head(Caller.todo))) :
        \E op, families, sub : stack' = Back(Done(Caller, Term(op, families, e, sub)))
  BY <1>2
<1>4. PICK op, families, sub :
        stack' = Back(Done(Caller, Term(op, families, e, sub)))
  BY <1>3
<1>5. Within(e, Own(Caller.see))
  BY <1>3, ScalarWithin
<1>6. QED
  BY <1>1, <1>4, <1>5, OperandKeeps

LEMMA ReturnRhsKeeps ==
  ASSUME IInv, ReturnRhs PROVE IInv'
<1> DEFINE side == [Top EXCEPT !.items = Aligned(Caller.items, @), !.orderBy = {},
                              !.offset = FALSE]
<1>1. stack # << >> /\ Top.use = "rhs" /\ Draws /\ UNCHANGED aliases
  BY DEF ReturnRhs, Returns, At
<1> DEFINE outputs == {[alias |-> Output, col |-> i] : i \in DOMAIN Caller.items}
<1>2. PICK kind  \in {"union"} \cup (IF config.intersect THEN {"intersect"} ELSE {}),
           order \in Orders(outputs) :
        stack' = Back([Caller EXCEPT !.setOp = kind, !.orderBy = order,
                                     !.rhs = <<Shape(side)>>])
  BY Zenon DEF ReturnRhs
<1>3. kind # "none" /\ order \subseteq OutputsOf(Caller.items)
  BY <1>2 DEF Orders, OutputsOf
<1> DEFINE rhs == <<Shape(side)>>
           g   == [Caller EXCEPT !.setOp = kind, !.orderBy = order, !.rhs = rhs]
<1>4. rhs # << >>
  OBVIOUS
<1>5. stack' = Back(g)
  BY <1>2
<1> HIDE DEF rhs, side
<1>6. Goes(Caller, g)
  BY <1>1, <1>3, <1>4, CallerIs, SetOpGoes
<1> HIDE DEF g
<1>7. QED
  BY <1>1, <1>5, <1>6, BackKeeps

-----------------------------------------------------------------------------
(* The actions that want a query.                                            *)

LEMMA StackKept ==
  ASSUME IInv, Typed', UNCHANGED << config, tables, aliases, stack >>,
         \/ stack = << >>
         \/ call'.purpose = call.purpose /\ call'.target = call.target
  PROVE  IInv'
<1>1. NestingBounded'
  BY DEF IInv, NestingBounded
<1>2. /\ Nested(stack') /\ Sound(stack') /\ Visible(stack')
      /\ Distinct(stack', aliases') /\ Reads(stack', tables')
  BY DEF IInv
<1>3. Answers(stack', call')
  BY DEF IInv, Answers
<1>4. QED
  BY <1>1, <1>2, <1>3 DEF IInv

LEMMA AskKeeps ==
  ASSUME IInv, Ask PROVE IInv'
<1>1. /\ config \in Configs /\ catalog \subseteq Table /\ tables \subseteq Table
      /\ aliases \in Nat /\ FirstAlias <= aliases /\ stack = << >>
  BY DEF IInv, Typed, Ask, Asked
<1>2. PICK purpose, target, lock, limit :
        /\ call' = [step |-> "asked", purpose |-> purpose, target |-> target,
                    lock |-> lock, limit |-> limit]
        /\ target \in IF purpose = "standalone" THEN {NoTable} ELSE catalog
        /\ lock \in IF purpose = "pkSelect" THEN BOOLEAN ELSE {FALSE}
  BY Zenon DEF Ask
<1>3. UNCHANGED << config, catalog, tables, aliases, stack >>
  BY DEF Ask
<1>4. Typed'
  BY <1>1, <1>2, <1>3 DEF Typed, Asked
<1>5. QED
  BY <1>1, <1>3, <1>4, StackKept

LEMMA OthersKeep ==
  ASSUME IInv, Others PROVE IInv'
<1>1. catalog' \subseteq Table
  BY ConfigTyped DEF IInv, Typed, Others
<1>2. Typed'
  BY <1>1 DEF IInv, Typed, Others, Asked
<1>3. QED
  BY <1>2, StackKept DEF Others

LEMMA NoQueryKeeps ==
  ASSUME IInv, NoQuery PROVE IInv'
<1>1. stack = << >>
  BY DEF NoQuery, IInv, Typed, Asked
<1>2. PICK s \in {"failed", "undefined"} : call' = [call EXCEPT !.step = s]
  BY DEF NoQuery
<1>3. /\ DOMAIN call' = DOMAIN call /\ call'.purpose = call.purpose
      /\ call'.target = call.target /\ call'.step = s /\ call.step = "asked"
      /\ call'.lock = call.lock
  BY <1>2 DEF NoQuery, IInv, Typed
<1>4. UNCHANGED << config, catalog, tables, aliases, stack >>
  BY DEF NoQuery
<1>5. Typed'
  BY <1>1, <1>2, <1>3, <1>4 DEF IInv, Typed, Asked
<1>6. QED
  BY <1>1, <1>4, <1>5, StackKept

\* A query that is alone.
LEMMA OneCall ==
  ASSUME NEW h, NEW next \in Nat, NEW catl, IsFrame(h), h.use = "top", h.depth = 0,
         FromOk(h), ListOk(h), Drawn(h), IsSeq(h.see), h.outer = << >>, h.terms = {},
         h.see \in {<< >>, h.scope},
         NEW c, h.purpose = c.purpose, h.target = c.target,
         \A a \in DOMAIN h.scope : a = 1 /\ h.scope[a].alias \in Nat
                                  /\ h.scope[a].alias < next
  PROVE  /\ Nested(<<h>>) /\ Sound(<<h>>) /\ Visible(<<h>>)
         /\ Distinct(<<h>>, next) /\ Reads(<<h>>, catl) /\ Answers(<<h>>, c)
<1> DEFINE s == <<h>>
<1>1. IsSeq(s) /\ DOMAIN s = {1} /\ s[1] = h /\ Len(s) = 1
  BY DEF IsSeq, Range
<1>2. Own(<< >>) = {} /\ IsSeq(<< >>)
  BY OwnOfNone DEF IsSeq
<1> HIDE DEF s
<1>3. Nested(s) /\ Sound(s)
  BY <1>1 DEF Nested, Sound
<1>4. Visible(s)
  <2>1. Own(h.scope) \subseteq Seen(s, 1)
    BY <1>1, OwnSeen
  <2>2. QED
    BY <1>1, <1>2, <2>1 DEF Visible
<1>5. Distinct(s, next) /\ Reads(s, catl) /\ Answers(s, c)
  BY <1>1 DEF Distinct, Reads, Answers
<1>6. QED
  BY <1>3, <1>4, <1>5 DEF s

LEMMA PredicateOk ==
  ASSUME NEW target \in Table
  PROVE  LET h == Predicate(target)
         IN  /\ IsFrame(h) /\ h.use = "top" /\ h.depth = 0
             /\ FromOk(h) /\ ListOk(h) /\ Drawn(h) /\ IsSeq(h.see) /\ h.outer = << >>
             /\ h.terms = {} /\ h.see = h.scope
             /\ h.purpose = "predicate" /\ h.target = target
             /\ \A a \in DOMAIN h.scope : a = 1 /\ h.scope[a].alias = Qualifier
<1> DEFINE src   == [Aliased(Source(target)) EXCEPT !.alias = Qualifier]
           scope == <<src>>
           q     == Query("top", "predicate", target, 0, FALSE, << >>)
           h     == [q EXCEPT !.step = "predicate", !.scope = scope, !.see = scope,
                              !.todo = <<config.maxDepth>>]
<1>1. h = Predicate(target)
  BY Zenon DEF Predicate
<1>2. src.alias = Qualifier /\ src.id = target /\ src.cols = Schema[target]
  BY DEF Aliased, Source
<1> HIDE DEF src
<1>3. /\ IsSeq(scope) /\ DOMAIN scope = {1} /\ scope[1] = src /\ Len(scope) = 1
      /\ Range(scope) = {src} /\ scope # << >>
  BY DEF IsSeq, Range
<1>4. IsSeq(<< >>) /\ Len(<< >>) = 0 /\ DOMAIN << >> = {} /\ Range(<< >>) = {}
  BY DEF IsSeq, Range
<1> HIDE DEF scope
<1>5. /\ IsFrame(h) /\ h.use = "top" /\ h.depth = 0 /\ h.target = target
      /\ h.purpose = "predicate" /\ h.step = "predicate" /\ h.scope = scope
      /\ h.see = scope /\ h.outer = << >> /\ h.terms = {} /\ h.joins = << >>
      /\ h.cte = << >> /\ h.items = << >> /\ h.having = {} /\ h.groupBy = {}
      /\ h.orderBy = {} /\ h.grouped = FALSE /\ h.setOp = "none" /\ h.lock = FALSE
      /\ h.extras = FALSE
  BY DEF Query, IsFrame, Fields
<1> HIDE DEF h, q
<1>6. Known(src)
  BY <1>2 DEF Known
<1>7. FromOk(h)
  BY <1>2, <1>3, <1>4, <1>5, <1>6 DEF FromOk, BeforeSeed
<1>8. ListOk(h)
  BY <1>4, <1>5 DEF ListOk
<1>9. \A a \in DOMAIN h.scope : a = 1 /\ h.scope[a].alias = Qualifier
  BY <1>2, <1>3, <1>5
<1>10. Drawn(h)
  BY <1>5 DEF Drawn, Early
<1>11. QED
  BY <1>1, <1>3, <1>5, <1>7, <1>8, <1>9, <1>10

LEMMA GenerateKeeps ==
  ASSUME IInv, Generate PROVE IInv'
<1>1. /\ config \in Configs /\ catalog \subseteq Table /\ aliases \in Nat
      /\ FirstAlias <= aliases /\ call.step = "asked"
      /\ call.purpose # "standalone" => call.target \in Table
      /\ call.purpose = "standalone" => call.target = NoTable
  BY DEF IInv, Typed, Generate
<1>2. UNCHANGED << config, catalog, aliases >>
  BY DEF Generate
<1>3. /\ DOMAIN call' = DOMAIN call /\ call'.purpose = call.purpose
      /\ call'.target = call.target /\ call'.step = "generating"
      /\ call'.lock = call.lock
  BY DEF Generate, IInv, Typed
<1>4. tables' \subseteq catalog
      /\ (call.purpose = "predicate" => call.target \notin tables')
  BY DEF Generate, Readable
<1>5. Typed'
  BY <1>1, <1>2, <1>3, <1>4 DEF IInv, Typed, Asked
<1>6. PICK h :
        /\ stack' = <<h>> /\ IsFrame(h) /\ h.use = "top" /\ h.depth = 0
        /\ FromOk(h) /\ ListOk(h) /\ Drawn(h) /\ IsSeq(h.see) /\ h.outer = << >>
        /\ h.terms = {} /\ h.see \in {<< >>, h.scope}
        /\ h.purpose = call.purpose /\ h.target = call.target
        /\ \A a \in DOMAIN h.scope : a = 1 /\ h.scope[a].alias \in Nat
                                    /\ h.scope[a].alias < aliases
  <2>1. CASE call.purpose = "predicate"
    <3> DEFINE h == Predicate(call.target)
    <3>1. call.target \in Table
      BY <1>1, <2>1
    <3>2. stack' = <<h>>
      BY <2>1 DEF Generate
    <3>3. /\ IsFrame(h) /\ h.use = "top" /\ h.depth = 0
          /\ FromOk(h) /\ ListOk(h) /\ Drawn(h) /\ IsSeq(h.see) /\ h.outer = << >>
          /\ h.terms = {} /\ h.see = h.scope
          /\ h.purpose = "predicate" /\ h.target = call.target
          /\ \A a \in DOMAIN h.scope : a = 1 /\ h.scope[a].alias = Qualifier
      BY <3>1, PredicateOk
    <3> HIDE DEF h
    <3>4. \A a \in DOMAIN h.scope : a = 1 /\ h.scope[a].alias \in Nat
                                  /\ h.scope[a].alias < aliases
      BY <1>1, <3>3 DEF Qualifier, FirstAlias
    <3>5. QED
      BY <2>1, <3>2, <3>3, <3>4
  <2>2. CASE call.purpose # "predicate"
    <3> DEFINE h == Query("top", call.purpose, call.target, 0,
                          call.purpose = "standalone", << >>)
    <3>1. stack' = <<h>>
      BY <2>2 DEF Generate
    <3>2. Fresh(h)
      BY QueryFresh
    <3>3. /\ h.use = "top" /\ h.depth = 0 /\ h.purpose = call.purpose
          /\ h.target = call.target /\ h.outer = << >>
          /\ h.extras = (call.purpose = "standalone")
      BY DEF Query
    <3> HIDE DEF h
    <3>4. NoTable \notin Table
      BY TablesHaveColumns
    <3>5. FromOk(h) /\ ListOk(h) /\ Drawn(h)
      BY <1>1, <3>2, <3>3, <3>4, FreshOk
    <3>6. IsSeq(<< >>) /\ DOMAIN << >> = {}
      BY DEF IsSeq
    <3>7. QED
      BY <3>1, <3>2, <3>3, <3>5, <3>6 DEF Fresh
  <2>3. QED
    BY <2>1, <2>2
<1>7. /\ Nested(stack') /\ Sound(stack') /\ Visible(stack')
      /\ Distinct(stack', aliases') /\ Reads(stack', tables') /\ Answers(stack', call')
  BY <1>1, <1>2, <1>3, <1>6, OneCall
<1>8. NestingBounded'
  <2>1. Len(stack') = 1 /\ config.maxSubqueries \in Nat
    BY <1>1, <1>6, ConfigTyped
  <2>2. QED
    BY <1>2, <2>1 DEF NestingBounded
<1>9. QED
  BY <1>5, <1>7, <1>8 DEF IInv

LEMMA SendKeeps ==
  ASSUME IInv, Send PROVE IInv'
<1> DEFINE g == [Top EXCEPT !.step = "done", !.lock = call.lock,
                            !.limit = @ \/ call.limit, !.distinct = @ /\ ~call.lock]
<1>1. /\ stack # << >> /\ Top.step = "ready" /\ Top.use = "top"
      /\ call.step = "generating"
      /\ UNCHANGED << config, catalog, tables, aliases >>
  BY DEF Send, At
<1>2. stack' = Become(g)
  BY Zenon DEF Send
<1>3. IsFrame(Top) /\ FromOk(Top) /\ ListOk(Top) /\ Drawn(Top)
  BY <1>1, TopIs
<1>4. /\ g.joins = Top.joins /\ g.step = "done" /\ g.items = Top.items
      /\ g.groupBy = Top.groupBy /\ g.having = Top.having /\ g.see = Top.see
      /\ g.orderBy = Top.orderBy /\ g.rhs = Top.rhs /\ g.terms = Top.terms
      /\ g.grouped = Top.grouped /\ g.setOp = Top.setOp /\ g.lock = call.lock
      /\ g.distinct = (Top.distinct /\ ~call.lock)
  <2>1. /\ g.joins = Top.joins /\ g.step = "done" /\ g.items = Top.items
        /\ g.groupBy = Top.groupBy
    BY <1>3 DEF IsFrame, Fields
  <2>2. /\ g.having = Top.having /\ g.see = Top.see
        /\ g.orderBy = Top.orderBy /\ g.rhs = Top.rhs
    BY <1>3 DEF IsFrame, Fields
  <2>3. g.terms = Top.terms /\ g.grouped = Top.grouped /\ g.setOp = Top.setOp
    BY <1>3 DEF IsFrame, Fields
  <2>4. g.lock = call.lock /\ g.distinct = (Top.distinct /\ ~call.lock)
    BY <1>3 DEF IsFrame, Fields
  <2>5. QED
    BY <2>1, <2>2, <2>3, <2>4
<1>5. SameFrom(Top, g)
  BY <1>3, SendSame, Zenon
<1> HIDE DEF g
<1>6. call.lock => Top.purpose = "pkSelect"
  <2>1. /\ Len(stack) \in Nat \ {0} /\ DOMAIN stack = 1 .. Len(stack)
        /\ Top = stack[Len(stack)] /\ (Top.use = "top" <=> Len(stack) = 1)
    BY <1>1, TopIs
  <2>2. Top = stack[1] /\ 1 \in DOMAIN stack
    BY <1>1, <2>1
  <2>3. QED
    BY <2>2 DEF IInv, Typed, Answers
<1>7. Drawn(g)
  <2>1. KeyOnly(Top) => KeyOnly(g)
    BY <1>1, <1>4, <1>5 DEF KeyOnly, SameFrom, Early
  <2>2. QED
    BY <1>1, <1>3, <1>4, <1>5, <1>6, <2>1 DEF Drawn, SameFrom, SameCall, Early
<1>8. Goes(Top, g)
  BY <1>1, <1>3, <1>4, <1>5, <1>7, BoolGoes DEF BeforeSeed
<1>9. /\ DOMAIN call' = DOMAIN call /\ call'.purpose = call.purpose
      /\ call'.target = call.target /\ call'.step = "sent" /\ call'.lock = call.lock
  BY DEF Send, IInv, Typed
<1>10. Typed' /\ aliases <= aliases'
  BY <1>1, <1>9 DEF IInv, Typed, Asked
<1>11. Turns(stack, Len(stack), g, stack') /\ Top = stack[Len(stack)]
  BY <1>1, <1>2, BecomeTurns, TopIs
<1>12. QED
  BY <1>1, <1>8, <1>9, <1>10, <1>11, GoesKeeps

-----------------------------------------------------------------------------
(* The theorems.                                                             *)

LEMMA InitIInv == Init => IInv
<1> SUFFICES ASSUME Init PROVE IInv
  OBVIOUS
<1>1. /\ stack = << >> /\ tables = {} /\ aliases = FirstAlias /\ config \in Configs
      /\ catalog = config.catalog /\ call = Nothing
  BY DEF Init
<1>2. Typed
  BY <1>1, ConfigTyped DEF Typed, Asked, Nothing, FirstAlias
<1>3. IsSeq(<< >>) /\ DOMAIN << >> = {} /\ Len(<< >>) = 0
  BY DEF IsSeq
<1>4. /\ Nested(stack) /\ Sound(stack) /\ Visible(stack)
      /\ Distinct(stack, aliases) /\ Reads(stack, tables) /\ Answers(stack, call)
  BY <1>1, <1>3 DEF Nested, Sound, Visible, Distinct, Reads, Answers
<1>5. NestingBounded
  BY <1>1, <1>3, ConfigTyped DEF NestingBounded
<1>6. QED
  BY <1>2, <1>4, <1>5 DEF IInv

LEMMA NextKeepsIInv == IInv /\ [Next]_vars => IInv'
<1> SUFFICES ASSUME IInv, [Next]_vars PROVE IInv'
  OBVIOUS
<1>1. CASE Ask \/ Others \/ Generate \/ NoQuery \/ Send
  BY <1>1, AskKeeps, OthersKeep, GenerateKeeps, NoQueryKeeps, SendKeeps
<1>2. CASE CteBody \/ SetOp \/ NestTest \/ NestOperand
  BY <1>2, CteBodyKeeps, SetOpKeeps, NestKeeps
<1>3. CASE NoCte \/ NoWhere \/ NoSetOp
  BY <1>3, StagesKeep
<1>4. CASE Seed \/ Join
  BY <1>4, SeedKeeps, JoinKeeps
<1>5. CASE Select
  BY <1>5, SelectKeyKeeps, SelectAggregatesKeeps, SelectColumnsKeeps DEF Select
<1>6. CASE Where \/ Combine \/ Test \/ EndWhere \/ Ending
  BY <1>6, WhereKeeps, CombineKeeps, TestKeeps, EndWhereKeeps, EndingKeeps
<1>7. CASE Return
  BY <1>7, ReturnCteKeeps, ReturnExistsKeeps, ReturnInKeeps, ReturnOperandKeeps,
     ReturnRhsKeeps DEF Return
<1>8. CASE UNCHANGED vars
  <2>1. UNCHANGED << config, catalog, call, tables, aliases, stack >>
    BY <1>8 DEF vars
  <2>2. Typed'
    BY <2>1 DEF IInv, Typed, Asked
  <2>3. QED
    BY <2>1, <2>2, StackKept
<1>9. QED
  BY <1>1, <1>2, <1>3, <1>4, <1>5, <1>6, <1>7, <1>8 DEF Next, GenBool

LEMMA IInvInvariant == Spec => []IInv
BY InitIInv, NextKeepsIInv, PTL DEF Spec

\* NestingBounded: with any configuration a query nests no deeper than
\* max_subquery_depth, the body of a CTE and the right side of a set operation
\* apart, which only the outermost query has.
THEOREM NestingStaysBounded == Spec => []NestingBounded
<1>1. IInv => NestingBounded
  BY DEF IInv
<1>2. QED
  BY <1>1, IInvInvariant, PTL

\* TargetNotRead: with any schema and catalog, and whatever DDL ran before the
\* generator copied the catalog, no subquery of a DELETE's or an UPDATE's
\* predicate reads the statement's target.
THEOREM TargetIsNotRead == Spec => []TargetNotRead
<1>1. IInv => TargetNotRead
  <2> SUFFICES ASSUME IInv, call.purpose = "predicate", NEW i \in 2 .. Len(stack),
                      NEW a \in DOMAIN stack[i].scope
               PROVE  stack[i].scope[a].id # call.target
    BY DEF TargetNotRead
  <2>1. stack # << >>
    OBVIOUS
  <2>2. i \in DOMAIN stack /\ i # 1
    BY <2>1, TopIs
  <2>3. stack[i].scope[a].id \in tables \cup {NoTable}
    BY <2>2 DEF IInv, Reads, Range
  <2>4. Asked /\ call.target \in Table /\ call.target \notin tables
    BY <2>1 DEF IInv, Typed, Asked
  <2>5. QED
    BY <2>3, <2>4, TablesHaveColumns
<1>2. QED
  BY <1>1, IInvInvariant, PTL

\* RefsResolve: in a query over any tables, nested as deep as may be, every
\* column reference means a column that is visible where it stands, and no
\* alias of an inner query hides one of an outer.
THEOREM ReferencesResolve == Spec => []RefsResolve
<1>1. IInv => RefsResolve
  <2> SUFFICES ASSUME IInv, NEW i \in DOMAIN stack
               PROVE  LET f == stack[i] IN
                 /\ \A e \in Range(f.items) \cup f.having : e.refs \subseteq OwnRefs(f)
                 /\ f.groupBy \subseteq OwnRefs(f)
                 /\ f.rhs = << >> => f.orderBy \subseteq OwnRefs(f)
                 /\ \A j \in DOMAIN f.joins : f.joins[j].on \subseteq
                      OwnRefs([f EXCEPT !.scope = SubSeq(@, 1, j + 1)])
                 /\ \A t \in f.terms :
                      t.refs \subseteq UNION {OwnRefs(stack[k]) : k \in Enclosing(i)}
                 /\ \A k \in DOMAIN stack :
                    \A a \in DOMAIN f.scope, b \in DOMAIN stack[k].scope :
                      f.scope[a].alias = stack[k].scope[b].alias => i = k /\ a = b
    BY DEF RefsResolve
  <2> DEFINE f == stack[i]
  <2>1. IsFrame(f) /\ FromOk(f) /\ ListOk(f) /\ Drawn(f)
    BY DEF IInv, Nested, Sound
  <2>2. \A g : OwnRefs(g) = Own(g.scope)
    BY DEF OwnRefs, Own
  <2>3. \A j : [f EXCEPT !.scope = SubSeq(@, 1, j + 1)].scope = SubSeq(f.scope, 1, j + 1)
    BY <2>1, Zenon DEF IsFrame, Fields
  <2>4. UNION {OwnRefs(stack[k]) : k \in Enclosing(i)} = Seen(stack, i)
    <3>1. Enclosing(i) = Around(stack, i)
      BY DEF Enclosing, Around
    <3>2. QED
      BY <2>2, <3>1 DEF Seen
  <2>5. \A t \in f.terms : t.refs \subseteq Seen(stack, i)
    BY DEF IInv, Visible
  <2>6. \A k \in DOMAIN stack :
        \A a \in DOMAIN f.scope, b \in DOMAIN stack[k].scope :
          f.scope[a].alias = stack[k].scope[b].alias => i = k /\ a = b
    BY DEF IInv, Distinct
  <2>7. \A j \in DOMAIN f.joins :
          f.joins[j].on \subseteq OwnRefs([f EXCEPT !.scope = SubSeq(@, 1, j + 1)])
    BY <2>1, <2>2, <2>3 DEF FromOk
  <2>8. /\ \A e \in Range(f.items) \cup f.having : e.refs \subseteq OwnRefs(f)
        /\ f.groupBy \subseteq OwnRefs(f)
        /\ f.rhs = << >> => f.orderBy \subseteq OwnRefs(f)
    BY <2>1, <2>2 DEF ListOk, Within
  <2>9. QED
    BY <2>4, <2>5, <2>6, <2>7, <2>8
<1>2. QED
  BY <1>1, IInvInvariant, PTL

\* ClausesAgree: whatever tables a query is over, its clauses, drawn one after
\* the other, allow each other: what it groups by and what it selects, what it
\* selects and what it orders by, and what locks rows and how it reads them.
THEOREM ClausesStayAgreed == Spec => []ClausesAgree
<1>1. IInv => ClausesAgree
  <2> SUFFICES ASSUME IInv, NEW i \in DOMAIN stack
               PROVE  LET f == stack[i] IN
                 /\ f.grouped => /\ \A e \in Range(f.items) : e.node # "window"
                                 /\ Plain(f.items) \subseteq f.groupBy
                 /\ f.orderBy \subseteq
                      IF f.setOp = "none" THEN Plain(f.items)
                      ELSE {[alias |-> Output, col |-> c] : c \in DOMAIN f.items}
                 /\ f.lock => Lockable(f)
    BY DEF ClausesAgree
  <2> DEFINE f == stack[i]
  <2>1. FromOk(f) /\ Drawn(f)
    BY DEF IInv, Sound
  <2>2. ASSUME f.lock PROVE Lockable(f)
    <3>1. f.step = "done" /\ f.purpose = "pkSelect" /\ ~f.distinct /\ KeyOnly(f)
      BY <2>1, <2>2 DEF Drawn
    <3>2. f.target # NoTable /\ f.scope # << >>
      BY <2>1, <3>1 DEF FromOk, BeforeSeed, IsSeq
    <3>3. i = 1 /\ f.target = call.target
      BY <3>2 DEF IInv, Reads, Answers
    <3>4. f.scope[1].id = call.target
      BY <2>1, <3>2, <3>3 DEF FromOk
    <3> HIDE DEF f
    <3>5. QED
      BY <3>1, <3>4 DEF Lockable, KeyOnly, KeyOf, Early
  <2>3. QED
    BY <2>1, <2>2 DEF Drawn, OutputsOf
<1>2. QED
  BY <1>1, IInvInvariant, PTL

-----------------------------------------------------------------------------
(* Types and families.                                                       *)

LEMMA TypesAre ==
  /\ {"INT", "REAL", "VARCHAR", "BOOL"} = Type
  /\ Family["INT"] = "numeric" /\ Family["REAL"] = "numeric"
  /\ Family["VARCHAR"] = "string" /\ Family["BOOL"] = "boolean"
<1>1. DOMAIN Family = {"INT", "REAL", "VARCHAR", "BOOL"}
  BY DEF Family
<1>2. QED
  BY <1>1 DEF Type, Family

LEMMA FamiliesAre ==
  /\ \A t \in Type : Family[t] \in Families
  /\ Families = {"numeric", "string", "boolean"}
<1>1. \A t \in Type : Family[t] \in Families
  BY Zenon DEF Families
<1>2. \A fam \in Families : \E t \in Type : fam = Family[t]
  BY Zenon DEF Families
<1>3. Families \subseteq {"numeric", "string", "boolean"}
  BY <1>2, TypesAre
<1>4. {"numeric", "string", "boolean"} \subseteq Families
  BY <1>1, TypesAre
<1>5. QED
  BY <1>1, <1>3, <1>4

LEMMA Represents ==
  ASSUME NEW fam \in Families
  PROVE  representative[fam] \in Type /\ Family[representative[fam]] = fam
BY FamiliesAre, TypesAre DEF representative

-----------------------------------------------------------------------------
(* Columns and expressions.                                                  *)

\* Tagged with a type of the family the server finds; a table's column, with
\* the server's type.
ColumnFits(c, id) ==
  /\ c.type \in Type /\ c.real \in Type /\ Family[c.real] = Family[c.type]
  /\ id # NoTable => c.real = c.type

SourceFits(src) == \A j \in DOMAIN src.cols : ColumnFits(src.cols[j], src.id)
ScopeFits(scope) == \A src \in Range(scope) : SourceFits(src)

LEMMA TablesFit ==
  ASSUME NEW src, Known(src), src.id # NoTable
  PROVE  SourceFits(src)
<1> DEFINE C == [type : Type, real : Type, ref : Table \cup {NoTable}]
<1>1. /\ src.cols \in Seq(C)
      /\ \A i \in DOMAIN src.cols : src.cols[i].real = src.cols[i].type
  BY QueryGenAssumption DEF Known
<1>2. \A c \in C : c.type \in Type
  OBVIOUS
<1> HIDE DEF C
<1>3. \A i \in DOMAIN src.cols : src.cols[i] \in C
  BY <1>1
<1>4. QED
  BY <1>1, <1>2, <1>3 DEF SourceFits, ColumnFits

LEMMA ColumnsFit ==
  ASSUME NEW scope, ScopeFits(scope), NEW c \in Columns(scope)
  PROVE  ColumnFits(c, c.id)
<1> DEFINE C(src) == {[alias |-> src.alias, col |-> j, id |-> src.id,
                       type |-> src.cols[j].type, real |-> src.cols[j].real] :
                        j \in DOMAIN src.cols}
<1>1. PICK src \in Range(scope) : c \in C(src)
  <2>1. Columns(scope) = UNION {C(src) : src \in Range(scope)}
    BY Zenon DEF Columns
  <2> HIDE DEF C
  <2>2. QED
    BY <2>1
<1>2. PICK j \in DOMAIN src.cols :
        c = [alias |-> src.alias, col |-> j, id |-> src.id,
             type |-> src.cols[j].type, real |-> src.cols[j].real]
  BY <1>1
<1>3. c.id = src.id /\ c.type = src.cols[j].type /\ c.real = src.cols[j].real
  BY <1>2
<1>4. ColumnFits(src.cols[j], src.id)
  BY DEF ScopeFits, SourceFits
<1>5. QED
  BY <1>3, <1>4 DEF ColumnFits

ExprFields == {"node", "type", "real", "refs", "modOf"}

\* An expression of the family fam.
ExprFits(e, fam) ==
  /\ DOMAIN e = ExprFields /\ e.type \in Type /\ e.real \in Type
  /\ Family[e.type] = fam /\ Family[e.real] = fam
  /\ ModuloFits(e)

LEMMA OfFits ==
  ASSUME NEW node, NEW type \in Type, NEW real \in Type, NEW refs,
         Family[real] = Family[type]
  PROVE  ExprFits(Of(node, type, real, refs), Family[type])
<1>1. /\ DOMAIN Of(node, type, real, refs) = ExprFields
      /\ Of(node, type, real, refs).type = type /\ Of(node, type, real, refs).real = real
      /\ Of(node, type, real, refs).modOf = {}
  BY DEF Of, ExprFields
<1>2. QED
  BY <1>1 DEF ExprFits, ModuloFits

LEMMA ChangedFits ==
  ASSUME NEW e, NEW fam, ExprFits(e, fam), NEW node, NEW type \in Type, NEW mod
  PROVE  /\ Family[type] = fam => ExprFits([e EXCEPT !.node = node, !.type = type], fam)
         /\ ExprFits([e EXCEPT !.node = node, !.type = type, !.real = type], Family[type])
         /\ (\A c \in mod : c.real = "INT" \/ c.id = NoTable)
              => ExprFits([e EXCEPT !.modOf = mod], fam)
BY DEF ExprFits, ExprFields, ModuloFits

LEMMA LiteralFits ==
  ASSUME NEW type \in Type
  PROVE  ExprFits(genLiteral(type), Family[type])
BY OfFits DEF genLiteral

LEMMA ColumnExprFits ==
  ASSUME NEW scope, ScopeFits(scope), NEW c \in Columns(scope)
  PROVE  ExprFits(colExpr(c), Family[c.type])
BY ColumnsFit, OfFits DEF colExpr, ColumnFits

LEMMA LeafFits ==
  ASSUME NEW scope, ScopeFits(scope), NEW type \in Type, NEW e \in genLeaf(type, scope)
  PROVE  ExprFits(e, Family[type])
<1>1. \A c \in pickColumn(scope, Family[type]) :
        c \in Columns(scope) /\ Family[c.type] = Family[type]
  BY DEF pickColumn
<1>2. \A c \in pickColumn(scope, Family[type]) : ExprFits(colExpr(c), Family[type])
  BY <1>1, ColumnExprFits
<1>3. ExprFits(genLiteral(type), Family[type])
  BY LiteralFits
<1>4. QED
  BY <1>2, <1>3, Zenon DEF genLeaf

LEMMA ModuloExprFits ==
  ASSUME NEW scope, ScopeFits(scope), NEW e \in Modulo(scope)
  PROVE  ExprFits(e, "numeric")
<1>1. PICK c \in IntColumns(scope) :
        e = [Of("value", "INT", c.real, {RefOf(c)}) EXCEPT !.modOf = {c}]
  BY Zenon DEF Modulo
<1>2. c \in Columns(scope) /\ c.type = "INT"
  BY DEF IntColumns
<1>3. ColumnFits(c, c.id)
  BY <1>2, ColumnsFit
<1>4. ExprFits(Of("value", "INT", c.real, {RefOf(c)}), "numeric")
  BY <1>2, <1>3, OfFits, TypesAre DEF ColumnFits
<1>5. \A d \in {c} : d.real = "INT" \/ d.id = NoTable
  BY <1>2, <1>3 DEF ColumnFits
<1>6. "INT" \in Type
  BY TypesAre
<1>7. QED
  BY <1>1, <1>4, <1>5, <1>6, ChangedFits

\* An expression asked for of a type is of its family, whatever the type it is
\* tagged with.
LEMMA ScalarFits ==
  ASSUME NEW scope, ScopeFits(scope), NEW type \in Type, NEW depth,
         NEW e \in genScalar(type, scope, depth)
  PROVE  ExprFits(e, Family[type])
<1> DEFINE number   == Family[type] = "numeric"
           operands == genLeaf(type, scope) \cup (IF number THEN Modulo(scope) ELSE {})
           towers   == {[x EXCEPT !.node = "value", !.type = type] : x \in operands}
<1>1. \A x \in operands : ExprFits(x, Family[type])
  BY LeafFits, ModuloExprFits
<1>2. \A x \in towers : ExprFits(x, Family[type])
  <2> HIDE DEF operands
  <2>1. \A x \in operands :
          ExprFits([x EXCEPT !.node = "value", !.type = type], Family[type])
    BY <1>1, ChangedFits
  <2>2. QED
    BY <2>1, Zenon
<1>3. \A x \in InCase(type, scope) : ExprFits(x, Family[type])
  <2>1. \A c \in Columns(scope) :
          ExprFits(Of("value", type, type, {RefOf(c)}), Family[type])
    BY OfFits
  <2>2. QED
    BY <2>1, Zenon DEF InCase
<1>4. \A x \in Length(scope) : ExprFits(x, "numeric")
  <2>1. "VARCHAR" \in Type /\ "INT" \in Type /\ Family["INT"] = "numeric"
    BY TypesAre
  <2>2. \A x \in genLeaf("VARCHAR", scope) : ExprFits(x, Family["VARCHAR"])
    BY <2>1, LeafFits
  <2>3. ASSUME NEW x \in genLeaf("VARCHAR", scope)
        PROVE  ExprFits([x EXCEPT !.node = "value", !.type = "INT", !.real = "INT"],
                        Family["INT"])
    BY <2>1, <2>2, ChangedFits
  <2>4. QED
    BY <2>1, <2>3, Zenon DEF Length
<1>5. e \in genLeaf(type, scope) \cup operands \cup towers \cup InCase(type, scope)
              \cup (IF number THEN Length(scope) ELSE {})
  BY Zenon DEF genScalar
<1> HIDE DEF towers, operands
<1>6. QED
  BY <1>1, <1>2, <1>3, <1>4, <1>5, LeafFits

LEMMA FoldFits ==
  ASSUME NEW scope, ScopeFits(scope), NEW node, NEW e \in Fold(node, scope)
  PROVE  \E fam : ExprFits(e, fam)
<1>1. \A c \in comparable(scope) :
        ExprFits(Of(node, c.type, c.real, {RefOf(c)}), Family[c.type])
  BY ColumnsFit, OfFits DEF ColumnFits, comparable
<1>2. \A refs : /\ ExprFits(Of(node, "REAL", "REAL", refs), "numeric")
                /\ ExprFits(Of(node, "INT", "INT", refs), "numeric")
  BY OfFits, TypesAre
<1>3. QED
  BY <1>1, <1>2, Zenon DEF Fold

LEMMA CallsFit ==
  ASSUME NEW scope, ScopeFits(scope), NEW e \in genAggCall(scope) \cup genWindowCall(scope)
  PROVE  \E fam : ExprFits(e, fam)
<1>1. \A node, refs : ExprFits(Of(node, "INT", "INT", refs), "numeric")
  BY OfFits, TypesAre
<1>2. QED
  BY <1>1, FoldFits, Zenon DEF genAggCall, genWindowCall

-----------------------------------------------------------------------------
(* Terms.                                                                    *)

TermOk(t) == TermFits(t) /\ ModuloFits(t)

LEMMA FewFamilies ==
  /\ \A x : Cardinality({x}) <= 1 /\ (CHOOSE fam \in {x} : TRUE) = x
  /\ Cardinality({}) <= 1
BY FS_Singleton, FS_EmptySet

\* A term without a subquery, and one that is of a subquery only.
LEMMA PlainTermOk ==
  ASSUME NEW op, NEW families, NEW e, NEW sub, ModuloFits(e),
         op \notin {"in", "scalar"}, Cardinality(families) <= 1,
         op = "like" => families = {"string"}
  PROVE  TermOk(Term(op, families, e, sub))
<1> DEFINE t == Term(op, families, e, sub)
<1>1. t.op = op /\ t.families = families /\ t.modOf = e.modOf
  BY DEF Term
<1> HIDE DEF t
<1>2. TermOk(t)
  BY <1>1 DEF TermOk, TermFits, ModuloFits
<1>3. QED
  BY <1>2 DEF t

LEMMA SubqueryTermOk ==
  ASSUME NEW op \in {"in", "scalar"}, NEW fam, NEW e, NEW shape, ModuloFits(e),
         shape = [reals |-> <<fam>>, ordered |-> FALSE, limit |-> (op = "scalar"),
                  offset |-> FALSE]
  PROVE  TermOk(Term(op, {fam}, e, <<shape>>))
<1> DEFINE t == Term(op, {fam}, e, <<shape>>)
<1>1. t.op = op /\ t.families = {fam} /\ t.modOf = e.modOf /\ t.sub[1] = shape
  BY DEF Term
<1> HIDE DEF t
<1>2. Cardinality(t.families) <= 1 /\ (CHOOSE x \in t.families : TRUE) = fam
  BY <1>1, FewFamilies
<1>3. t.sub[1] = [reals |-> <<CHOOSE x \in t.families : TRUE>>, ordered |-> FALSE,
                  limit |-> t.op = "scalar", offset |-> FALSE]
  BY <1>1, <1>2
<1>4. TermOk(t)
  BY <1>1, <1>2, <1>3 DEF TermOk, TermFits, ModuloFits
<1>5. QED
  BY <1>4 DEF t

LEMMA FamiliesKnown ==
  ASSUME NEW scope, ScopeFits(scope)
  PROVE  FamiliesIn(scope) \subseteq Families
<1>1. \A c \in Columns(scope) : Family[c.type] \in Families
  BY ColumnsFit, FamiliesAre DEF ColumnFits
<1>2. QED
  BY <1>1, Zenon DEF FamiliesIn
LEMMA SimpleOk ==
  ASSUME ScopeFits(Top.see), NEW term \in Simple
  PROVE  TermOk(term)
<1>1. \A x : Cardinality({x}) <= 1
  BY FewFamilies
<1>2. \A c \in Columns(Top.see) :
        /\ ModuloFits(colExpr(c)) /\ Family[c.real] = Family[c.type]
        /\ TermOk(Term("test", {Family[c.real]}, colExpr(c), << >>))
  BY <1>1, ColumnExprFits, ColumnsFit, PlainTermOk DEF ExprFits, ColumnFits
<1>3. \A c \in pickColumn(Top.see, "string") :
        TermOk(Term("like", {Family[c.real]}, colExpr(c), << >>))
  <2>1. \A c \in pickColumn(Top.see, "string") :
          c \in Columns(Top.see) /\ Family[c.type] = "string"
    BY DEF pickColumn
  <2>2. QED
    BY <1>1, <1>2, <2>1, PlainTermOk
<1>4. \A e \in genLeaf("BOOL", Top.see) :
        TermOk(Term("leaf", {Family[e.real]}, e, << >>))
  BY <1>1, TypesAre, LeafFits, PlainTermOk DEF ExprFits
<1>5. QED
  BY <1>2, <1>3, <1>4, Zenon DEF Simple

LEMMA ComparedOk ==
  ASSUME ScopeFits(Top.see), NEW fam \in FamiliesIn(Top.see), NEW term \in Compared(fam)
  PROVE  TermOk(term)
<1>1. /\ fam \in Families
      /\ representative[fam] \in Type /\ Family[representative[fam]] = fam
  BY FamiliesKnown, Represents
<1>2. ASSUME NEW e \in genScalar(representative[fam], Top.see, Childs(Head(Top.todo)))
      PROVE  ModuloFits(e) /\ {fam, Family[e.real]} = {fam}
  BY <1>1, ScalarFits DEF ExprFits
<1>3. \A e \in genScalar(representative[fam], Top.see, Childs(Head(Top.todo))) :
        TermOk(Term("compare", {fam, Family[e.real]}, e, << >>))
  BY <1>2, FewFamilies, PlainTermOk
<1>4. QED
  BY <1>3, Zenon DEF Compared

-----------------------------------------------------------------------------
(* A call of genQuery.                                                       *)

\* All it reads and all it has drawn, with a server that has INTERSECT or not.
Fit(f, intersect) ==
  /\ ScopeFits(f.scope) /\ ScopeFits(f.see) /\ ScopeFits(f.outer) /\ ScopeFits(f.cte)
  /\ \A e \in Range(f.items) \cup f.having : \E fam : ExprFits(e, fam)
  /\ \A t \in f.terms : TermOk(t)
  /\ f.compared \in Families
  /\ Early(f) => f.rhs = << >>
  /\ f.rhs # << >> =>
       /\ f.rhs[1].reals = [c \in DOMAIN f.items |-> Family[f.items[c].real]]
       /\ ~f.rhs[1].ordered /\ ~f.rhs[1].offset
       /\ f.setOp = "intersect" => intersect

Fits(s, intersect) == \A i \in DOMAIN s : Fit(s[i], intersect)

FInv == Fits(stack, config.intersect)

LEMMA NoneFit == ScopeFits(<< >>)
BY DEF ScopeFits, Range

\* A call that has drawn nothing but terms since.
LEMMA FitKept ==
  ASSUME NEW f, NEW x, Fit(f, x), NEW g, SameFrom(f, g), g.items = f.items,
         g.having = f.having, g.rhs = f.rhs, g.setOp = f.setOp, ScopeFits(g.see),
         \A t \in g.terms : t \in f.terms \/ TermOk(t), g.compared \in Families,
         Early(g) => Early(f)
  PROVE  Fit(g, x)
BY DEF Fit, SameFrom, SameCall

LEMMA StageFits ==
  ASSUME NEW f, IsFrame(f), NEW x, Fit(f, x), NEW s,
         s \in {"cte", "seed", "joins", "select"} => Early(f)
  PROVE  Fit([f EXCEPT !.step = s], x)
<1> DEFINE g == [f EXCEPT !.step = s]
<1>1. /\ g.step = s /\ g.items = f.items /\ g.having = f.having /\ g.rhs = f.rhs
      /\ g.setOp = f.setOp /\ g.see = f.see /\ g.terms = f.terms
      /\ g.compared = f.compared
  BY DEF IsFrame, Fields
<1>2. SameFrom(f, g)
  BY StageSame
<1> HIDE DEF g
<1>3. ScopeFits(g.see) /\ g.compared \in Families
  BY <1>1 DEF Fit
<1>4. Fit(g, x)
  BY <1>1, <1>2, <1>3, FitKept DEF Early
<1>5. QED
  BY <1>4 DEF g

LEMMA DoneFits ==
  ASSUME NEW f, IsFrame(f), NEW x, Fit(f, x), NEW term, TermOk(term)
  PROVE  Fit(Done(f, term), x)
<1> DEFINE g == Done(f, term)
<1>1. /\ g.step = f.step /\ g.items = f.items /\ g.having = f.having /\ g.rhs = f.rhs
      /\ g.setOp = f.setOp /\ g.see = f.see /\ g.terms = f.terms \cup {term}
      /\ g.compared = f.compared
  BY DEF IsFrame, Fields, Done
<1>2. SameFrom(f, g)
  BY DoneSame
<1> HIDE DEF g
<1>3. ScopeFits(g.see) /\ g.compared \in Families
  BY <1>1 DEF Fit
<1>4. Fit(g, x)
  BY <1>1, <1>2, <1>3, FitKept DEF Early
<1>5. QED
  BY <1>4 DEF g

\* What it reads, and its select list.
LEMMA FitDrawn ==
  ASSUME NEW f, NEW x, Fit(f, x), Early(f), NEW g, ScopeFits(g.scope), ScopeFits(g.cte),
         SameCall(f, g), g.see = f.see, g.terms = f.terms, g.compared = f.compared,
         g.rhs = f.rhs, \A e \in Range(g.items) \cup g.having : \E fam : ExprFits(e, fam)
  PROVE  Fit(g, x)
BY DEF Fit, SameCall

LEMMA QueryFits ==
  ASSUME NEW use, NEW purpose, NEW target, NEW depth, NEW extras, NEW outer, NEW x,
         ScopeFits(outer)
  PROVE  Fit(Query(use, purpose, target, depth, extras, outer), x)
<1> DEFINE q == Query(use, purpose, target, depth, extras, outer)
<1>1. /\ q.scope = << >> /\ q.see = << >> /\ q.outer = outer /\ q.cte = << >>
      /\ q.items = << >> /\ q.having = {} /\ q.terms = {} /\ q.compared = "numeric"
      /\ q.rhs = << >>
  BY DEF Query
<1> HIDE DEF q
<1>2. "numeric" \in Families /\ Range(<< >>) = {}
  BY FamiliesAre DEF Range
<1>3. Fit(q, x)
  BY <1>1, <1>2, NoneFit DEF Fit
<1>4. QED
  BY <1>3 DEF q

LEMMA CandsFit ==
  ASSUME NEW f, FromOk(f), tables \subseteq Table, ScopeFits(f.cte), NEW src \in Cands(f)
  PROVE  SourceFits(src)
<1>1. CASE src \in Range(f.cte)
  BY <1>1 DEF ScopeFits
<1>2. CASE src \in {Source(t) : t \in tables}
  <2>1. Known(src) /\ src.id \in tables
    BY <1>2 DEF Source, Known
  <2>2. QED
    BY <2>1, TablesFit, TablesHaveColumns
<1>3. QED
  BY <1>1, <1>2 DEF Cands

LEMMA AliasedFits ==
  ASSUME NEW src, SourceFits(src)
  PROVE  SourceFits(Aliased(src))
<1>1. Aliased(src).id = src.id /\ Aliased(src).cols = src.cols
  BY DEF Aliased
<1>2. QED
  BY <1>1 DEF SourceFits

LEMMA TurnsFit ==
  ASSUME NEW s, NEW n, NEW g, NEW t, Turns(s, n, g, t), NEW x, Fits(s, x), Fit(g, x)
  PROVE  Fits(t, x)
BY DEF Turns, Fits

\* The three ways a step changes the stack.
LEMMA BecomeFits ==
  ASSUME IInv, FInv, stack # << >>, NEW g, Fit(g, config.intersect), stack' = Become(g),
         config' = config
  PROVE  FInv'
BY BecomeTurns, TurnsFit DEF FInv

LEMMA CallsKeepFit ==
  ASSUME IInv, FInv, stack # << >>, NEW g, Fit(g, config.intersect),
         NEW h, Fit(h, config.intersect),
         stack' = Append(Become(g), h), config' = config
  PROVE  FInv'
<1> DEFINE u == Become(g)
<1>1. Turns(stack, Len(stack), g, u)
  BY BecomeTurns
<1>2. Fits(u, config.intersect) /\ IsSeq(u)
  BY <1>1, TurnsFit DEF FInv, Turns
<1> HIDE DEF u
<1>3. /\ DOMAIN u = 1 .. Len(u) /\ DOMAIN Append(u, h) = 1 .. Len(u) + 1
      /\ Append(u, h)[Len(u) + 1] = h /\ Len(u) \in Nat
      /\ \A i \in 1 .. Len(u) : Append(u, h)[i] = u[i]
  BY <1>2, AppendIsSeq
<1>4. \A i \in 1 .. Len(u) + 1 : Fit(Append(u, h)[i], config.intersect)
  BY <1>2, <1>3 DEF Fits
<1>5. QED
  BY <1>3, <1>4 DEF FInv, Fits, u

LEMMA BackFits ==
  ASSUME IInv, FInv, stack # << >>, Top.use # "top", NEW g, Fit(g, config.intersect),
         stack' = Back(g), config' = config
  PROVE  FInv'
BY BackTurns, TurnsFit DEF FInv

LEMMA TopFits ==
  ASSUME IInv, FInv, stack # << >>
  PROVE  /\ IsFrame(Top) /\ FromOk(Top) /\ Drawn(Top) /\ Fit(Top, config.intersect)
         /\ tables \subseteq Table
         /\ Top.use # "top" => /\ IsFrame(Caller) /\ FromOk(Caller) /\ Drawn(Caller)
                              /\ Fit(Caller, config.intersect)
<1>1. /\ IsFrame(Top) /\ FromOk(Top) /\ Drawn(Top) /\ Top = stack[Len(stack)]
      /\ Len(stack) \in DOMAIN stack
  BY TopIs
<1>2. Fit(Top, config.intersect) /\ tables \subseteq Table
  BY <1>1 DEF FInv, Fits, IInv, Typed
<1>3. ASSUME Top.use # "top"
      PROVE  /\ IsFrame(Caller) /\ FromOk(Caller) /\ Drawn(Caller)
             /\ Fit(Caller, config.intersect)
  BY <1>3, CallerIs DEF FInv, Fits
<1>4. QED
  BY <1>1, <1>2, <1>3

-----------------------------------------------------------------------------
(* The actions.                                                              *)

LEMMA StagesFit ==
  ASSUME IInv, FInv, NoCte \/ NoWhere \/ NoSetOp PROVE FInv'
<1>1. stack # << >> /\ config' = config
  BY DEF NoCte, NoWhere, NoSetOp, At, Draws
<1>2. PICK s \in {"seed", "tail", "ready"} :
        /\ stack' = Become([Top EXCEPT !.step = s])
        /\ s = "seed" => Top.step = "cte"
  BY DEF NoCte, NoWhere, NoSetOp, At
<1>3. Fit([Top EXCEPT !.step = s], config.intersect)
  BY <1>1, <1>2, TopFits, StageFits DEF Early
<1>4. QED
  BY <1>1, <1>2, <1>3, BecomeFits

LEMMA UnrelatedFits ==
  ASSUME IInv, FInv, CteBody \/ SetOp PROVE FInv'
<1>1. stack # << >> /\ config' = config
  BY DEF CteBody, SetOp, At, Draws
<1>2. PICK s \in {"seed", "ready"}, use \in {"cte", "rhs"} :
        /\ stack' = Append(Become([Top EXCEPT !.step = s]), Unrelated(use))
        /\ s = "seed" => Top.step = "cte"
  BY DEF CteBody, SetOp, At
<1>3. Fit([Top EXCEPT !.step = s], config.intersect)
  BY <1>1, <1>2, TopFits, StageFits DEF Early
<1>4. Fit(Unrelated(use), config.intersect)
  BY NoneFit, QueryFits DEF Unrelated
<1>5. QED
  BY <1>1, <1>2, <1>3, <1>4, CallsKeepFit

LEMMA NestFits ==
  ASSUME IInv, FInv, NestTest \/ NestOperand PROVE FInv'
<1>1. stack # << >> /\ config' = config
  BY DEF NestTest, NestOperand, MayNest, At, Draws
<1>2. IsFrame(Top) /\ Fit(Top, config.intersect)
  BY <1>1, TopFits
<1>3. \A use : Fit(Subquery(use), config.intersect)
  <2>1. ScopeFits(Top.see)
    BY <1>2 DEF Fit
  <2>2. QED
    BY <2>1, QueryFits DEF Subquery
<1>4. CASE NestTest
  <2>1. Become(Top) = stack
    BY <1>1, TopIs DEF Become, IsSeq
  <2>2. stack' = Append(Become(Top), Subquery("test"))
    BY <1>4, <2>1 DEF NestTest
  <2>3. QED
    BY <1>1, <1>2, <1>3, <2>2, CallsKeepFit
<1>5. CASE NestOperand
  <2>1. PICK fam \in FamiliesIn(Top.see) :
          stack' = Append(Become([Top EXCEPT !.compared = fam]), Subquery("operand"))
    BY <1>5 DEF NestOperand
  <2> DEFINE g == [Top EXCEPT !.compared = fam]
  <2>2. /\ g.step = Top.step /\ g.items = Top.items /\ g.having = Top.having
        /\ g.rhs = Top.rhs /\ g.setOp = Top.setOp /\ g.see = Top.see
        /\ g.terms = Top.terms /\ g.compared = fam
    BY <1>2 DEF IsFrame, Fields
  <2>3. SameFrom(Top, g)
    BY <1>2, WhereSame
  <2>4. stack' = Append(Become(g), Subquery("operand"))
    BY <2>1
  <2> HIDE DEF g
  <2>5. ScopeFits(g.see) /\ g.compared \in Families
    BY <1>2, <2>1, <2>2, FamiliesKnown DEF Fit
  <2>6. Fit(g, config.intersect)
    BY <1>2, <2>2, <2>3, <2>5, FitKept DEF Early
  <2>7. QED
    BY <1>1, <1>3, <2>4, <2>6, CallsKeepFit
<1>6. QED
  BY <1>4, <1>5

LEMMA SeedFits ==
  ASSUME IInv, FInv, Seed PROVE FInv'
<1>1. stack # << >> /\ Top.step = "seed" /\ config' = config
  BY DEF Seed, At, Draws
<1>2. /\ IsFrame(Top) /\ FromOk(Top) /\ Fit(Top, config.intersect) /\ tables \subseteq Table
  BY <1>1, TopFits
<1>3. PICK src \in IF Top.target # NoTable THEN {Source(Top.target)} ELSE Cands(Top) :
        stack' = Become([Top EXCEPT !.step = "joins", !.scope = <<Aliased(src)>>])
  BY DEF Seed
<1> DEFINE new == Aliased(src)
           g   == [Top EXCEPT !.step = "joins", !.scope = <<new>>]
<1>4. SourceFits(src)
  <2>1. CASE Top.target # NoTable
    <3>1. Known(src) /\ src.id # NoTable
      BY <1>2, <1>3, <2>1 DEF Source, Known, FromOk
    <3>2. QED
      BY <3>1, TablesFit
  <2>2. CASE Top.target = NoTable
    BY <1>2, <1>3, <2>2, CandsFit DEF Fit
  <2>3. QED
    BY <2>1, <2>2
<1>5. SourceFits(new)
  BY <1>4, AliasedFits
<1>6. stack' = Become(g)
  BY <1>3
<1> HIDE DEF new
<1>7. /\ g.scope = <<new>> /\ g.cte = Top.cte /\ g.see = Top.see /\ g.terms = Top.terms
      /\ g.items = Top.items /\ g.having = Top.having /\ g.rhs = Top.rhs
      /\ g.compared = Top.compared /\ SameCall(Top, g)
  BY <1>2 DEF IsFrame, Fields, SameCall
<1> HIDE DEF g
<1>8. ScopeFits(g.scope)
  BY <1>5, <1>7 DEF ScopeFits, Range
<1>9. Fit(g, config.intersect)
  <2>1. /\ ScopeFits(g.cte) /\ Early(Top)
        /\ \A e \in Range(g.items) \cup g.having : \E fam : ExprFits(e, fam)
    BY <1>1, <1>2, <1>7 DEF Fit, Early
  <2>2. QED
    BY <1>2, <1>7, <1>8, <2>1, FitDrawn
<1>10. QED
  BY <1>1, <1>6, <1>9, BecomeFits

LEMMA JoinFits ==
  ASSUME IInv, FInv, Join PROVE FInv'
<1>1. stack # << >> /\ Top.step = "joins" /\ config' = config
  BY DEF Join, JoinOn, JoinCross, NoSecondCross, NoMoreJoins, Joining, At, Draws
<1>2. /\ IsFrame(Top) /\ FromOk(Top) /\ Fit(Top, config.intersect) /\ tables \subseteq Table
      /\ Early(Top)
  BY <1>1, TopFits DEF Early
<1>3. ASSUME NEW src \in Cands(Top), NEW kind, NEW on, stack' = Joined(src, kind, on)
      PROVE  FInv'
  <2> DEFINE new == Aliased(src)
             g   == [Top EXCEPT !.scope = Append(@, new),
                                !.joins = Append(@, [kind |-> kind, on |-> on])]
  <2>1. SourceFits(new)
    BY <1>2, CandsFit, AliasedFits DEF Fit
  <2>2. stack' = Become(g)
    BY <1>3 DEF Joined
  <2> HIDE DEF new
  <2>3. /\ g.scope = Append(Top.scope, new) /\ g.cte = Top.cte /\ g.see = Top.see
        /\ g.terms = Top.terms /\ g.items = Top.items /\ g.having = Top.having
        /\ g.rhs = Top.rhs /\ g.compared = Top.compared /\ SameCall(Top, g)
    BY <1>2 DEF IsFrame, Fields, SameCall
  <2> HIDE DEF g
  <2>4. Range(g.scope) = Range(Top.scope) \cup {new}
    BY <1>2, <2>3, AppendIsSeq DEF FromOk
  <2>5. /\ ScopeFits(g.scope) /\ ScopeFits(g.cte)
        /\ \A e \in Range(g.items) \cup g.having : \E fam : ExprFits(e, fam)
    BY <1>2, <2>1, <2>3, <2>4 DEF Fit, ScopeFits
  <2>6. Fit(g, config.intersect)
    BY <1>2, <2>3, <2>5, FitDrawn
  <2>7. QED
    BY <1>1, <2>2, <2>6, BecomeFits
<1>4. CASE JoinOn
  <2>1. PICK base \in Range(Top.scope) :
          \E e \in ParentEdges(Top, base) \cup ChildEdges(Top, base)
                     \cup UNION {Pairs(base, src) : src \in Cands(Top)} :
            \E kind, on : stack' = Joined(e.src, kind, on)
    BY <1>4, Zenon DEF JoinOn
  <2>2. PICK e \in ParentEdges(Top, base) \cup ChildEdges(Top, base)
                      \cup UNION {Pairs(base, src) : src \in Cands(Top)} :
          \E kind, on : stack' = Joined(e.src, kind, on)
    BY <2>1
  <2>3. Known(base)
    BY <1>2 DEF FromOk
  <2>4. e.src \in Cands(Top)
    BY <1>2, <2>3, EdgesFit
  <2>5. QED
    BY <1>3, <2>2, <2>4
<1>5. CASE JoinCross
  BY <1>3, <1>5 DEF JoinCross
<1>6. CASE stack' = JoinsDone
  <2> DEFINE g == [Top EXCEPT !.step = "select",
                     !.joins = [j \in DOMAIN @ |-> [@[j] EXCEPT !.on = {}]]]
  <2>1. /\ g.scope = Top.scope /\ g.cte = Top.cte /\ g.see = Top.see
        /\ g.terms = Top.terms /\ g.items = Top.items /\ g.having = Top.having
        /\ g.rhs = Top.rhs /\ g.compared = Top.compared /\ SameCall(Top, g)
    BY <1>2 DEF IsFrame, Fields, SameCall
  <2>2. stack' = Become(g)
    BY <1>6 DEF JoinsDone
  <2> HIDE DEF g
  <2>3. /\ ScopeFits(g.scope) /\ ScopeFits(g.cte)
        /\ \A e \in Range(g.items) \cup g.having : \E fam : ExprFits(e, fam)
    BY <1>2, <2>1 DEF Fit
  <2>4. Fit(g, config.intersect)
    BY <1>2, <2>1, <2>3, FitDrawn
  <2>5. QED
    BY <1>1, <2>2, <2>4, BecomeFits
<1>7. QED
  BY <1>4, <1>5, <1>6 DEF Join, NoSecondCross, NoMoreJoins

\* The select list, whatever else is said with it.
LEMMA SelectedFits ==
  ASSUME IInv, FInv, stack # << >>, Early(Top), NEW items, NEW g,
         SameFrom(Top, g), g.see = Top.see, g.terms = Top.terms,
         g.compared = Top.compared, g.rhs = Top.rhs, g.items = items,
         \A e \in Range(items) \cup g.having : \E fam : ExprFits(e, fam),
         stack' = Become(g), config' = config
  PROVE  FInv'
<1>1. Fit(Top, config.intersect)
  BY TopFits
<1>2. ScopeFits(g.scope) /\ ScopeFits(g.cte)
  BY <1>1 DEF Fit, SameFrom
<1>3. Fit(g, config.intersect)
  BY <1>1, <1>2, FitDrawn DEF SameFrom
<1>4. QED
  BY <1>3, BecomeFits

LEMMA ColumnListFits ==
  ASSUME NEW scope, ScopeFits(scope), NEW cols \in Seq(Columns(scope))
  PROVE  LET list == [i \in DOMAIN cols |-> colExpr(cols[i])]
         IN  IsSeq(list) /\ \A e \in Range(list) : \E fam : ExprFits(e, fam)
<1> DEFINE list == [i \in DOMAIN cols |-> colExpr(cols[i])]
<1>1. \A i \in DOMAIN cols : cols[i] \in Columns(scope)
  OBVIOUS
<1>2. \A i \in DOMAIN cols : \E fam : ExprFits(colExpr(cols[i]), fam)
  BY <1>1, ColumnExprFits
<1>3. DOMAIN list = DOMAIN cols /\ \A i \in DOMAIN cols : list[i] = colExpr(cols[i])
  OBVIOUS
<1>4. IsSeq(list)
  BY ColumnsSelected
<1> HIDE DEF list
<1>5. \A e \in Range(list) : \E fam : ExprFits(e, fam)
  BY <1>2, <1>3 DEF Range
<1>6. QED
  BY <1>4, <1>5 DEF list

LEMMA SelectKeyFits ==
  ASSUME IInv, FInv, SelectKey PROVE FInv'
<1> DEFINE key == CHOOSE c \in Columns(<<Top.scope[1]>>) : c.col = 1
           g   == [Selected(<<colExpr(key)>>) EXCEPT !.distinct = Top.joins # << >>]
<1>1. stack # << >> /\ Early(Top) /\ config' = config
  BY DEF SelectKey, At, Early, Draws
<1>2. stack' = Become(g)
  BY Zenon DEF SelectKey
<1>3. IsFrame(Top) /\ Fit(Top, config.intersect)
  BY <1>1, TopFits
<1>4. key \in Columns(Top.scope)
  BY KeyIs
<1> HIDE DEF key
<1>5. ExprFits(colExpr(key), Family[key.type])
  BY <1>3, <1>4, ColumnExprFits DEF Fit
<1>6. /\ SameFrom(Top, g) /\ g.see = Top.see /\ g.terms = Top.terms
      /\ g.compared = Top.compared /\ g.rhs = Top.rhs
      /\ g.items = <<colExpr(key)>> /\ g.having = Top.having
  BY <1>3 DEF IsFrame, Fields, Selected, SameFrom, SameCall
<1> HIDE DEF g
<1>7. \A e \in Range(<<colExpr(key)>>) \cup g.having : \E fam : ExprFits(e, fam)
  BY <1>3, <1>5, <1>6 DEF Fit, Range
<1>8. QED
  BY <1>1, <1>2, <1>6, <1>7, SelectedFits

LEMMA SelectAggregatesFits ==
  ASSUME IInv, FInv, SelectAggregates PROVE FInv'
<1>1. stack # << >> /\ Early(Top) /\ config' = config
  BY DEF SelectAggregates, At, Early, Draws
<1>2. PICK groups \in BoundedSeq(Columns(Top.scope), AtMost(2)),
           aggs   \in BoundedSeq(genAggCall(Top.scope), AtMost(2)) \ {<< >>},
           having \in Maybe(50, genAggCall(Top.scope)) :
        stack' = Become([Selected([i \in DOMAIN groups |-> colExpr(groups[i])] \o aggs)
                           EXCEPT !.grouped = TRUE,
                                  !.groupBy = {RefOf(c) : c \in Range(groups)},
                                  !.having = Range(having)])
  BY Zenon DEF SelectAggregates
<1> DEFINE plain == [i \in DOMAIN groups |-> colExpr(groups[i])]
           g     == [Selected(plain \o aggs) EXCEPT !.grouped = TRUE,
                       !.groupBy = {RefOf(c) : c \in Range(groups)},
                       !.having = Range(having)]
<1>3. IsFrame(Top) /\ ScopeFits(Top.scope)
  BY <1>1, TopFits DEF Fit
<1>4. /\ IsSeq(plain) /\ \A e \in Range(plain) : \E fam : ExprFits(e, fam)
  BY <1>2, <1>3, BoundedSeqs, ColumnListFits
<1>5. stack' = Become(g)
  BY <1>2, Zenon
<1> HIDE DEF plain
<1>6. \A e \in genAggCall(Top.scope) : \E fam : ExprFits(e, fam)
  BY <1>3, CallsFit
<1>7. /\ IsSeq(aggs) /\ Range(aggs) \subseteq genAggCall(Top.scope)
      /\ Range(having) \subseteq genAggCall(Top.scope)
  BY <1>2, BoundedSeqs, MaybeIs
<1>8. Range(plain \o aggs) = Range(plain) \cup Range(aggs)
  BY <1>4, <1>7, OwnOfConcat
<1>9. /\ SameFrom(Top, g) /\ g.see = Top.see /\ g.terms = Top.terms
      /\ g.compared = Top.compared /\ g.rhs = Top.rhs
      /\ g.items = plain \o aggs /\ g.having = Range(having)
  BY <1>3 DEF IsFrame, Fields, Selected, SameFrom, SameCall
<1> HIDE DEF g
<1>10. \A e \in Range(plain \o aggs) \cup g.having : \E fam : ExprFits(e, fam)
  BY <1>4, <1>6, <1>7, <1>8, <1>9
<1>11. QED
  BY <1>1, <1>5, <1>9, <1>10, SelectedFits

LEMMA SelectColumnsFits ==
  ASSUME IInv, FInv, SelectColumns PROVE FInv'
<1> DEFINE scalars == UNION {genScalar(c.type, Top.scope, config.maxDepth) :
                               c \in Columns(Top.scope)}
<1>1. stack # << >> /\ Early(Top) /\ config' = config
  BY DEF SelectColumns, At, Early, Draws
<1>2. PICK cols \in BoundedSeq(Columns(Top.scope), AtMost(4)) \ {<< >>},
           expr \in Maybe(50, scalars),
           win  \in Maybe(IF Top.extras THEN config.window ELSE 0,
                          genWindowCall(Top.scope)) :
        stack' = Become(Selected([i \in DOMAIN cols |-> colExpr(cols[i])] \o expr \o win))
  BY Zenon DEF SelectColumns
<1> DEFINE plain == [i \in DOMAIN cols |-> colExpr(cols[i])]
           g     == Selected(plain \o expr \o win)
<1>3. IsFrame(Top) /\ Fit(Top, config.intersect) /\ ScopeFits(Top.scope)
  BY <1>1, TopFits DEF Fit
<1>4. /\ IsSeq(plain) /\ \A e \in Range(plain) : \E fam : ExprFits(e, fam)
  BY <1>2, <1>3, BoundedSeqs, ColumnListFits
<1>5. stack' = Become(g)
  BY <1>2, Zenon
<1> HIDE DEF plain
<1>6. /\ \A e \in genWindowCall(Top.scope) : \E fam : ExprFits(e, fam)
      /\ \A e \in scalars : \E fam : ExprFits(e, fam)
  <2>1. \A c \in Columns(Top.scope) : c.type \in Type
    BY <1>3, ColumnsFit DEF ColumnFits
  <2>2. QED
    BY <1>3, <2>1, CallsFit, ScalarFits
<1> HIDE DEF scalars
<1>7. /\ IsSeq(expr) /\ \A e \in Range(expr) : \E fam : ExprFits(e, fam)
      /\ IsSeq(win) /\ \A e \in Range(win) : \E fam : ExprFits(e, fam)
  BY <1>2, <1>6, MaybeIs
<1>8. \A e \in Range(plain \o expr \o win) : \E fam : ExprFits(e, fam)
  <2>1. IsSeq(plain \o expr) /\ Range(plain \o expr) = Range(plain) \cup Range(expr)
    BY <1>4, <1>7, OwnOfConcat
  <2>2. Range(plain \o expr \o win) = Range(plain \o expr) \cup Range(win)
    BY <1>7, <2>1, OwnOfConcat
  <2>3. QED
    BY <1>4, <1>7, <2>1, <2>2
<1>9. /\ SameFrom(Top, g) /\ g.see = Top.see /\ g.terms = Top.terms
      /\ g.compared = Top.compared /\ g.rhs = Top.rhs
      /\ g.items = plain \o expr \o win /\ g.having = Top.having
  BY <1>3 DEF IsFrame, Fields, Selected, SameFrom, SameCall
<1> HIDE DEF g
<1>10. \A e \in Range(plain \o expr \o win) \cup g.having : \E fam : ExprFits(e, fam)
  BY <1>3, <1>8, <1>9 DEF Fit
<1>11. QED
  BY <1>1, <1>5, <1>9, <1>10, SelectedFits

\* WHERE but for its subqueries, and the ending.
LEMMA WhereFits ==
  ASSUME IInv, FInv, Where PROVE FInv'
<1>1. stack # << >> /\ Top.step = "where" /\ config' = config
  BY DEF Where, At, Draws
<1>2. PICK correlated :
        stack' = Become([Top EXCEPT
           !.step = "predicate", !.todo = <<config.maxDepth>>,
           !.see = Top.scope \o (IF correlated THEN Top.outer ELSE << >>)])
  BY DEF Where
<1> DEFINE more == IF correlated THEN Top.outer ELSE << >>
           see  == Top.scope \o more
           g    == [Top EXCEPT !.step = "predicate", !.todo = <<config.maxDepth>>,
                               !.see = see]
<1>3. IsFrame(Top) /\ FromOk(Top) /\ Fit(Top, config.intersect)
  BY <1>1, TopFits
<1>4. IsSeq(Top.scope) /\ IsSeq(more) /\ ScopeFits(Top.scope) /\ ScopeFits(more)
  <2>1. IsSeq(Top.outer) /\ IsSeq(<< >>)
    BY <1>1, TopIs DEF IInv, Visible, IsSeq
  <2>2. QED
    BY <1>3, <2>1, NoneFit DEF Fit, FromOk
<1>5. stack' = Become(g)
  BY <1>2
<1> HIDE DEF more
<1>6. ScopeFits(see)
  BY <1>4, OwnOfConcat DEF ScopeFits
<1> HIDE DEF see
<1>7. /\ g.step = "predicate" /\ g.items = Top.items /\ g.having = Top.having
      /\ g.rhs = Top.rhs /\ g.setOp = Top.setOp /\ g.see = see
      /\ g.terms = Top.terms /\ g.compared = Top.compared
  BY <1>3 DEF IsFrame, Fields
<1>8. SameFrom(Top, g)
  BY <1>3, WhereSame
<1> HIDE DEF g
<1>9. Fit(g, config.intersect)
  <2>1. g.compared \in Families /\ ~Early(g)
    BY <1>3, <1>7 DEF Fit, Early
  <2>2. QED
    BY <1>3, <1>6, <1>7, <1>8, <2>1, FitKept
<1>10. QED
  BY <1>1, <1>5, <1>9, BecomeFits

LEMMA TestFits ==
  ASSUME IInv, FInv, Test PROVE FInv'
<1>1. stack # << >> /\ config' = config
  BY DEF Test, At, Draws
<1>2. IsFrame(Top) /\ Fit(Top, config.intersect) /\ ScopeFits(Top.see)
  BY <1>1, TopFits DEF Fit
<1>3. PICK term \in Simple \cup UNION {Compared(fam) : fam \in FamiliesIn(Top.see)} :
        stack' = Become(Done(Top, term))
  BY Zenon DEF Test
<1>4. TermOk(term)
  <2>1. CASE term \in Simple
    BY <1>2, <2>1, SimpleOk
  <2>2. CASE \E fam \in FamiliesIn(Top.see) : term \in Compared(fam)
    BY <1>2, <2>2, ComparedOk
  <2>3. QED
    BY <1>3, <2>1, <2>2, Zenon
<1>5. QED
  BY <1>1, <1>2, <1>3, <1>4, DoneFits, BecomeFits

\* A step of the innermost call that draws none of this.
LEMMA OtherwiseFits ==
  ASSUME IInv, FInv, stack # << >>, NEW g, SameFrom(Top, g), g.items = Top.items,
         g.having = Top.having, g.rhs = Top.rhs, g.setOp = Top.setOp,
         g.see \in {Top.see, << >>}, g.terms \in {Top.terms, {}},
         g.compared = Top.compared, Early(g) => Early(Top),
         stack' = Become(g), config' = config
  PROVE  FInv'
<1>1. Fit(Top, config.intersect)
  BY TopFits
<1>2. ScopeFits(g.see) /\ g.compared \in Families
  BY <1>1, NoneFit DEF Fit
<1>3. Fit(g, config.intersect)
  BY <1>1, <1>2, FitKept
<1>4. QED
  BY <1>3, BecomeFits

LEMMA CombineFits ==
  ASSUME IInv, FInv, Combine PROVE FInv'
<1>1. stack # << >> /\ config' = config
  BY DEF Combine, At, Draws
<1>2. PICK todo : stack' = Become([Top EXCEPT !.todo = todo])
  BY DEF Combine
<1> DEFINE g == [Top EXCEPT !.todo = todo]
<1>3. IsFrame(Top)
  BY <1>1, TopFits
<1>4. /\ g.step = Top.step /\ g.items = Top.items /\ g.having = Top.having
      /\ g.rhs = Top.rhs /\ g.setOp = Top.setOp /\ g.see = Top.see
      /\ g.terms = Top.terms /\ g.compared = Top.compared
  BY <1>3 DEF IsFrame, Fields
<1>5. SameFrom(Top, g) /\ stack' = Become(g)
  BY <1>2, <1>3, WhereSame
<1> HIDE DEF g
<1>6. QED
  BY <1>1, <1>4, <1>5, OtherwiseFits DEF Early

LEMMA EndWhereFits ==
  ASSUME IInv, FInv, EndWhere PROVE FInv'
<1>1. stack # << >> /\ config' = config
  BY DEF EndWhere, At, Draws
<1>2. PICK s \in {"ready", "tail"} :
        stack' = Become([Top EXCEPT !.terms = {}, !.see = << >>, !.step = s])
  BY DEF EndWhere
<1> DEFINE g == [Top EXCEPT !.terms = {}, !.see = << >>, !.step = s]
<1>3. IsFrame(Top)
  BY <1>1, TopFits
<1>4. /\ g.step = s /\ g.items = Top.items /\ g.having = Top.having
      /\ g.rhs = Top.rhs /\ g.setOp = Top.setOp /\ g.see = << >>
      /\ g.terms = {} /\ g.compared = Top.compared
  BY <1>3 DEF IsFrame, Fields
<1>5. SameFrom(Top, g) /\ stack' = Become(g)
  BY <1>2, <1>3, WhereSame
<1> HIDE DEF g
<1>6. QED
  BY <1>1, <1>4, <1>5, OtherwiseFits DEF Early

LEMMA EndingFits ==
  ASSUME IInv, FInv, Ending PROVE FInv'
<1>1. stack # << >> /\ config' = config
  BY DEF Ending, At, Draws
<1>2. PICK order, limit, offset, distinct :
        stack' = Become([Top EXCEPT !.step = "setop", !.orderBy = order,
                           !.limit = limit, !.offset = offset, !.distinct = distinct])
  <2> DEFINE P(o, l, f, d) ==
        stack' = Become([Top EXCEPT !.step = "setop", !.orderBy = o,
                           !.limit = l, !.offset = f, !.distinct = d])
  <2>1. \E o \in Orders(Orderable(Top)) :
        \E l \in IF Top.purpose = "pkSelect" THEN {FALSE} ELSE Roll(config.limit),
           f \in BOOLEAN,
           d \in IF Top.purpose = "pkSelect" \/ Top.grouped THEN {Top.distinct}
                 ELSE BOOLEAN : P(o, l, f, d)
    BY Zenon DEF Ending
  <2> HIDE DEF P
  <2>2. \E o, l, f, d : P(o, l, f, d)
    BY <2>1
  <2>3. QED
    BY <2>2 DEF P
<1> DEFINE g == [Top EXCEPT !.step = "setop", !.orderBy = order, !.limit = limit,
                            !.offset = offset, !.distinct = distinct]
<1>3. IsFrame(Top)
  BY <1>1, TopFits
<1>4. /\ g.step = "setop" /\ g.items = Top.items /\ g.having = Top.having
      /\ g.rhs = Top.rhs /\ g.setOp = Top.setOp /\ g.see = Top.see
      /\ g.terms = Top.terms /\ g.compared = Top.compared
  BY <1>3 DEF IsFrame, Fields
<1>5. SameFrom(Top, g) /\ stack' = Become(g)
  BY <1>2, <1>3, EndingSame
<1> HIDE DEF g
<1>6. QED
  BY <1>1, <1>4, <1>5, OtherwiseFits DEF Early

LEMMA SendFits ==
  ASSUME IInv, FInv, Send PROVE FInv'
<1> DEFINE g == [Top EXCEPT !.step = "done", !.lock = call.lock,
                            !.limit = @ \/ call.limit, !.distinct = @ /\ ~call.lock]
<1>1. stack # << >> /\ config' = config
  BY DEF Send, At
<1>2. stack' = Become(g)
  BY Zenon DEF Send
<1>3. IsFrame(Top)
  BY <1>1, TopFits
<1>4. /\ g.step = "done" /\ g.items = Top.items /\ g.having = Top.having
      /\ g.rhs = Top.rhs /\ g.setOp = Top.setOp /\ g.see = Top.see
      /\ g.terms = Top.terms /\ g.compared = Top.compared
  <2>1. /\ g.step = "done" /\ g.items = Top.items /\ g.having = Top.having
        /\ g.rhs = Top.rhs
    BY <1>3 DEF IsFrame, Fields
  <2>2. /\ g.setOp = Top.setOp /\ g.see = Top.see
        /\ g.terms = Top.terms /\ g.compared = Top.compared
    BY <1>3 DEF IsFrame, Fields
  <2>3. QED
    BY <2>1, <2>2
<1>5. SameFrom(Top, g)
  BY <1>3, SendSame, Zenon
<1> HIDE DEF g
<1>6. ~Early(g)
  BY <1>4 DEF Early
<1>7. QED
  BY <1>1, <1>2, <1>4, <1>5, <1>6, OtherwiseFits

-----------------------------------------------------------------------------
(* The returns.                                                              *)

LEMMA ReturnCteFits ==
  ASSUME IInv, FInv, ReturnCte PROVE FInv'
<1> DEFINE cols == [i \in DOMAIN Top.items |->
                     [type |-> Top.items[i].type, real |-> Top.items[i].real,
                      ref |-> NoTable]]
           src  == [id |-> NoTable, cols |-> cols]
           g    == [Caller EXCEPT !.cte = <<src>>]
<1>1. stack # << >> /\ Top.use = "cte" /\ config' = config
  BY DEF ReturnCte, Returns, At, Draws
<1>2. stack' = Back(g)
  BY Zenon DEF ReturnCte
<1>3. /\ Fit(Top, config.intersect) /\ IsFrame(Caller) /\ Fit(Caller, config.intersect)
  BY <1>1, TopFits
<1>4. SourceFits(src)
  <2>1. \A i \in DOMAIN Top.items : \E fam : ExprFits(Top.items[i], fam)
    BY <1>3 DEF Fit, Range
  <2>2. src.id = NoTable /\ DOMAIN src.cols = DOMAIN Top.items
    OBVIOUS
  <2>3. ASSUME NEW i \in DOMAIN Top.items PROVE ColumnFits(src.cols[i], NoTable)
    <3>1. src.cols[i].type = Top.items[i].type /\ src.cols[i].real = Top.items[i].real
      OBVIOUS
    <3>2. QED
      BY <2>1, <3>1 DEF ExprFits, ColumnFits
  <2> HIDE DEF src
  <2>4. QED
    BY <2>2, <2>3 DEF SourceFits
<1> HIDE DEF src
<1>5. ScopeFits(<<src>>)
  BY <1>4 DEF ScopeFits, Range
<1>6. /\ g.scope = Caller.scope /\ g.see = Caller.see /\ g.outer = Caller.outer
      /\ g.cte = <<src>> /\ g.items = Caller.items /\ g.having = Caller.having
      /\ g.terms = Caller.terms /\ g.compared = Caller.compared /\ g.rhs = Caller.rhs
      /\ g.setOp = Caller.setOp /\ g.step = Caller.step
  BY <1>3 DEF IsFrame, Fields
<1> HIDE DEF g
<1>7. Fit(g, config.intersect)
  BY <1>3, <1>5, <1>6 DEF Fit, Early
<1>8. QED
  BY <1>1, <1>2, <1>7, BackFits

\* A subquery becomes an operand of a term, or is dropped for one.
LEMMA OperandFits ==
  ASSUME IInv, FInv, stack # << >>, Top.use # "top", NEW term, TermOk(term),
         stack' = Back(Done(Caller, term)), config' = config
  PROVE  FInv'
BY TopFits, DoneFits, BackFits

LEMMA ReturnExistsFits ==
  ASSUME IInv, FInv, ReturnExists PROVE FInv'
<1>1. stack # << >> /\ Top.use # "top" /\ config' = config
  BY DEF ReturnExists, Returns, At, Draws
<1>2. stack' = Back(Done(Caller, Term("exists", {}, genLiteral("BOOL"), <<Shape(Top)>>)))
  BY DEF ReturnExists
<1>3. ModuloFits(genLiteral("BOOL"))
  BY LiteralFits, TypesAre DEF ExprFits
<1>4. TermOk(Term("exists", {}, genLiteral("BOOL"), <<Shape(Top)>>))
  BY <1>3, FewFamilies, PlainTermOk
<1>5. QED
  BY <1>1, <1>2, <1>4, OperandFits

\* What is left of a subquery that was trimmed to one item.
LEMMA TrimmedShape ==
  ASSUME NEW f, IsFrame(f), NEW keep
  PROVE  LET sub      == trimToSingleItem(f, keep)
             Is(limit) == [reals |-> <<Family[f.items[keep].real]>>, ordered |-> FALSE,
                           limit |-> limit, offset |-> FALSE]
         IN  /\ sub.items[1] = f.items[keep] /\ Shape(sub) = Is(FALSE)
             /\ Shape([sub EXCEPT !.limit = TRUE]) = Is(TRUE)
<1> DEFINE e   == f.items[keep]
           sub == trimToSingleItem(f, keep)
           one == [sub EXCEPT !.limit = TRUE]
<1>1. /\ sub.items = <<e>> /\ sub.orderBy = {} /\ sub.limit = FALSE /\ sub.offset = FALSE
      /\ one.items = <<e>> /\ one.orderBy = {} /\ one.limit = TRUE /\ one.offset = FALSE
  BY DEF IsFrame, Fields, trimToSingleItem
<1> HIDE DEF e, sub, one
<1>2. ASSUME NEW g, g.items = <<e>>, g.orderBy = {}, g.offset = FALSE
      PROVE  Shape(g) = [reals |-> <<Family[e.real]>>, ordered |-> FALSE,
                         limit |-> g.limit, offset |-> FALSE]
  <2>1. [i \in DOMAIN <<e>> |-> Family[<<e>>[i].real]] = <<Family[e.real]>>
    OBVIOUS
  <2>2. [i \in DOMAIN g.items |-> Family[g.items[i].real]] = <<Family[e.real]>>
    BY <1>2, <2>1, Zenon
  <2>3. (g.orderBy # {}) = FALSE
    BY <1>2
  <2>4. QED
    BY <1>2, <2>2, <2>3, Zenon DEF Shape
<1>3. /\ Shape(sub) = [reals |-> <<Family[e.real]>>, ordered |-> FALSE,
                       limit |-> FALSE, offset |-> FALSE]
      /\ Shape(one) = [reals |-> <<Family[e.real]>>, ordered |-> FALSE,
                       limit |-> TRUE, offset |-> FALSE]
  BY <1>1, <1>2
<1>4. sub.items[1] = e
  BY <1>1
<1>5. QED
  BY <1>3, <1>4 DEF e, sub, one

LEMMA ReturnInFits ==
  ASSUME IInv, FInv, ReturnIn PROVE FInv'
<1>1. stack # << >> /\ Top.use # "top" /\ config' = config
  BY DEF ReturnIn, Returns, At, Draws
<1>2. PICK keep \in DOMAIN Top.items :
        \E arg \in genLeaf(trimToSingleItem(Top, keep).items[1].type, Caller.see) :
          stack' = Back(Done(Caller, Term("in", {Family[arg.real]}, arg,
                                          <<Shape(trimToSingleItem(Top, keep))>>)))
  BY Zenon DEF ReturnIn
<1> DEFINE sub == trimToSingleItem(Top, keep)
           e   == Top.items[keep]
<1>3. PICK arg \in genLeaf(sub.items[1].type, Caller.see) :
        stack' = Back(Done(Caller, Term("in", {Family[arg.real]}, arg, <<Shape(sub)>>)))
  BY <1>2
<1>4. /\ IsFrame(Top) /\ \E fam : ExprFits(e, fam)
      /\ ScopeFits(Caller.see)
  BY <1>1, <1>2, TopFits DEF Fit, Range
<1>5. /\ sub.items[1] = e
      /\ Shape(sub) = [reals |-> <<Family[e.real]>>, ordered |-> FALSE,
                       limit |-> FALSE, offset |-> FALSE]
  BY <1>4, TrimmedShape
<1> HIDE DEF sub
<1>6. ModuloFits(arg) /\ Family[arg.real] = Family[e.real]
  BY <1>3, <1>4, <1>5, LeafFits DEF ExprFits
<1> DEFINE op == "in"
<1>7. op \in {"in", "scalar"} /\ (op = "scalar") = FALSE
  OBVIOUS
<1>8. TermOk(Term("in", {Family[arg.real]}, arg, <<Shape(sub)>>))
  BY <1>5, <1>6, <1>7, SubqueryTermOk
<1>9. QED
  BY <1>1, <1>3, <1>8, OperandFits

LEMMA ReturnOperandFits ==
  ASSUME IInv, FInv, ReturnOperand PROVE FInv'
<1> DEFINE fam      == Caller.compared
           matching == {i \in DOMAIN Top.items : Family[Top.items[i].type] = fam}
           numbers  == genScalar(representative[fam], Caller.see, Childs(Head(Caller.todo)))
<1>1. stack # << >> /\ Top.use # "top" /\ config' = config
  BY DEF ReturnOperand, Returns, At, Draws
<1>2. \E e \in numbers :
        \/ stack' = Back(Done(Caller, Term("compare", {fam, Family[e.real]}, e, << >>)))
        \/ \E keep \in matching :
             stack' = Back(Done(Caller, Term("scalar", {fam, Family[e.real]}, e,
                        <<Shape([trimToSingleItem(Top, keep) EXCEPT !.limit = TRUE])>>)))
  BY Zenon DEF ReturnOperand
<1>3. PICK e \in numbers :
        \/ stack' = Back(Done(Caller, Term("compare", {fam, Family[e.real]}, e, << >>)))
        \/ \E keep \in matching :
             stack' = Back(Done(Caller, Term("scalar", {fam, Family[e.real]}, e,
                        <<Shape([trimToSingleItem(Top, keep) EXCEPT !.limit = TRUE])>>)))
  BY <1>2
<1>4. /\ IsFrame(Top) /\ Fit(Top, config.intersect)
      /\ ScopeFits(Caller.see) /\ fam \in Families
  BY <1>1, TopFits DEF Fit
<1>5. ModuloFits(e) /\ {fam, Family[e.real]} = {fam}
  <2>1. representative[fam] \in Type /\ Family[representative[fam]] = fam
    BY <1>4, Represents
  <2>2. QED
    BY <1>3, <1>4, <2>1, ScalarFits DEF ExprFits
<1>6. CASE stack' = Back(Done(Caller, Term("compare", {fam, Family[e.real]}, e, << >>)))
  <2>1. TermOk(Term("compare", {fam, Family[e.real]}, e, << >>))
    BY <1>5, FewFamilies, PlainTermOk
  <2>2. QED
    BY <1>1, <1>6, <2>1, OperandFits
<1>7. ASSUME NEW keep \in matching,
             stack' = Back(Done(Caller, Term("scalar", {fam, Family[e.real]}, e,
                        <<Shape([trimToSingleItem(Top, keep) EXCEPT !.limit = TRUE])>>)))
      PROVE  FInv'
  <2> DEFINE sub  == [trimToSingleItem(Top, keep) EXCEPT !.limit = TRUE]
             item == Top.items[keep]
  <2>1. \E x : ExprFits(item, x)
    BY <1>4 DEF Fit, Range
  <2>2. Family[item.real] = fam
    BY <2>1 DEF ExprFits
  <2>3. Shape(sub) = [reals |-> <<Family[item.real]>>, ordered |-> FALSE,
                      limit |-> TRUE, offset |-> FALSE]
    BY <1>4, TrimmedShape
  <2>4. stack' = Back(Done(Caller,
                    Term("scalar", {fam, Family[e.real]}, e, <<Shape(sub)>>)))
    BY <1>7
  <2> HIDE DEF sub, item
  <2> DEFINE op == "scalar"
  <2>5. op \in {"in", "scalar"} /\ (op = "scalar") = TRUE
    OBVIOUS
  <2>6. TermOk(Term("scalar", {fam}, e, <<Shape(sub)>>))
    BY <1>5, <2>2, <2>3, <2>5, SubqueryTermOk
  <2>7. QED
    BY <1>1, <1>5, <2>4, <2>6, OperandFits
<1>8. QED
  BY <1>3, <1>6, <1>7

ListFits(items) == \A e \in Range(items) : \E fam : ExprFits(e, fam)

\* The right side of a set operation has the left's families.
LEMMA AlignedFits ==
  ASSUME NEW items, ListFits(items), NEW rhs, ListFits(rhs)
  PROVE  /\ DOMAIN Aligned(items, rhs) = DOMAIN items
         /\ \A i \in DOMAIN items :
              Family[Aligned(items, rhs)[i].real] = Family[items[i].real]
<1> DEFINE fill(i) == genLiteral(representative[Family[items[i].type]])
           Same(i) == i \in DOMAIN rhs /\ Family[rhs[i].type] = Family[items[i].type]
           a       == Aligned(items, rhs)
<1>1. /\ DOMAIN a = DOMAIN items
      /\ \A i \in DOMAIN items : a[i] = IF Same(i) THEN rhs[i] ELSE fill(i)
  BY Zenon DEF Aligned
<1> HIDE DEF a
<1>2. ASSUME NEW i \in DOMAIN items PROVE Family[a[i].real] = Family[items[i].real]
  <2>1. \E fam : ExprFits(items[i], fam)
    BY DEF ListFits, Range
  <2>2. /\ items[i].type \in Type /\ Family[items[i].real] = Family[items[i].type]
    BY <2>1 DEF ExprFits
  <2>3. CASE Same(i)
    <3>1. \E fam : ExprFits(rhs[i], fam)
      BY <2>3 DEF ListFits, Range
    <3>2. Family[rhs[i].real] = Family[rhs[i].type]
      BY <3>1 DEF ExprFits
    <3>3. QED
      BY <1>1, <2>2, <2>3, <3>2
  <2>4. CASE ~Same(i)
    <3>1. Family[items[i].type] \in Families
      BY <2>2, FamiliesAre
    <3>2. /\ representative[Family[items[i].type]] \in Type
          /\ Family[representative[Family[items[i].type]]] = Family[items[i].type]
      BY <3>1, Represents
    <3>3. ExprFits(fill(i), Family[items[i].type])
      BY <3>2, LiteralFits
    <3> HIDE DEF fill, Same
    <3>4. Family[fill(i).real] = Family[items[i].type]
      BY <3>3 DEF ExprFits
    <3>5. QED
      BY <1>1, <2>2, <2>4, <3>4
  <2>5. QED
    BY <2>3, <2>4
<1>3. QED
  BY <1>1, <1>2 DEF a

LEMMA ReturnRhsFits ==
  ASSUME IInv, FInv, ReturnRhs PROVE FInv'
<1> DEFINE side == [Top EXCEPT !.items = Aligned(Caller.items, @), !.orderBy = {},
                              !.offset = FALSE]
           outputs == {[alias |-> Output, col |-> i] : i \in DOMAIN Caller.items}
<1>1. stack # << >> /\ Top.use = "rhs" /\ config' = config
  BY DEF ReturnRhs, Returns, At, Draws
<1>2. PICK kind  \in {"union"} \cup (IF config.intersect THEN {"intersect"} ELSE {}),
           order \in Orders(outputs) :
        stack' = Back([Caller EXCEPT !.setOp = kind, !.orderBy = order,
                                     !.rhs = <<Shape(side)>>])
  BY Zenon DEF ReturnRhs
<1>3. /\ IsFrame(Top) /\ Fit(Top, config.intersect)
      /\ IsFrame(Caller) /\ Fit(Caller, config.intersect) /\ Caller.step = "ready"
  BY <1>1, TopFits, CallerIs
<1> DEFINE a == Aligned(Caller.items, Top.items)
<1>4. side.items = a /\ side.orderBy = {} /\ side.offset = FALSE
  BY <1>3 DEF IsFrame, Fields
<1>5. /\ DOMAIN a = DOMAIN Caller.items
      /\ \A i \in DOMAIN Caller.items : Family[a[i].real] = Family[Caller.items[i].real]
  <2>1. ListFits(Caller.items) /\ ListFits(Top.items)
    BY <1>3 DEF Fit, ListFits
  <2>2. QED
    BY <2>1, AlignedFits
<1> HIDE DEF side, a
<1>6. /\ Shape(side).reals = [c \in DOMAIN Caller.items |-> Family[Caller.items[c].real]]
      /\ ~Shape(side).ordered /\ ~Shape(side).offset
  <2>1. /\ Shape(side).reals = [i \in DOMAIN a |-> Family[a[i].real]]
        /\ Shape(side).ordered = (side.orderBy # {}) /\ Shape(side).offset = side.offset
    BY <1>4 DEF Shape
  <2>2. [i \in DOMAIN a |-> Family[a[i].real]]
          = [c \in DOMAIN Caller.items |-> Family[Caller.items[c].real]]
    BY <1>5
  <2>3. QED
    BY <1>4, <2>1, <2>2
<1> DEFINE rhs == <<Shape(side)>>
           g   == [Caller EXCEPT !.setOp = kind, !.orderBy = order, !.rhs = rhs]
<1>7. rhs[1] = Shape(side)
  OBVIOUS
<1>8. stack' = Back(g)
  BY <1>2
<1> HIDE DEF rhs
<1>9. /\ g.scope = Caller.scope /\ g.see = Caller.see /\ g.outer = Caller.outer
      /\ g.cte = Caller.cte /\ g.items = Caller.items /\ g.having = Caller.having
      /\ g.terms = Caller.terms /\ g.compared = Caller.compared /\ g.rhs = rhs
      /\ g.setOp = kind /\ g.step = "ready"
  BY <1>3 DEF IsFrame, Fields
<1> HIDE DEF g
<1>10. kind = "intersect" => config.intersect
  BY <1>2
<1>11. Fit(g, config.intersect)
  BY <1>3, <1>6, <1>7, <1>9, <1>10 DEF Fit, Early
<1>12. QED
  BY <1>1, <1>8, <1>11, BackFits

-----------------------------------------------------------------------------
(* The actions that want a query, and the theorem.                           *)

LEMMA GenerateFits ==
  ASSUME IInv, FInv, Generate PROVE FInv'
<1>1. config' = config /\ call.step = "asked"
  BY DEF Generate
<1>2. \A h : Fit(h, config.intersect) /\ stack' = <<h>> => FInv'
  BY <1>1 DEF FInv, Fits
<1>3. CASE call.purpose # "predicate"
  <2>1. stack' = <<Query("top", call.purpose, call.target, 0,
                         call.purpose = "standalone", << >>)>>
    BY <1>3 DEF Generate
  <2>2. QED
    BY <1>2, <2>1, NoneFit, QueryFits
<1>4. CASE call.purpose = "predicate"
  <2> DEFINE target == call.target
             src   == [Aliased(Source(target)) EXCEPT !.alias = Qualifier]
             scope == <<src>>
             q     == Query("top", "predicate", target, 0, FALSE, << >>)
             h     == [q EXCEPT !.step = "predicate", !.scope = scope, !.see = scope,
                                !.todo = <<config.maxDepth>>]
  <2>1. stack' = <<h>>
    BY <1>4, Zenon DEF Generate, Predicate
  <2>2. /\ src.id = target /\ src.cols = Schema[target] /\ target \in Table
        /\ target # NoTable
    BY <1>1, <1>4, TablesHaveColumns DEF Aliased, Source, IInv, Typed
  <2> HIDE DEF src
  <2>3. SourceFits(src)
    BY <2>2, TablesFit DEF Known
  <2>4. ScopeFits(scope)
    BY <2>3 DEF ScopeFits, Range
  <2> HIDE DEF scope
  <2>5. /\ h.scope = scope /\ h.see = scope /\ h.outer = << >> /\ h.cte = << >>
        /\ h.items = << >> /\ h.having = {} /\ h.terms = {} /\ h.compared = "numeric"
        /\ h.rhs = << >>
    BY DEF Query
  <2> HIDE DEF h
  <2>6. "numeric" \in Families /\ Range(<< >>) = {}
    BY FamiliesAre DEF Range
  <2>7. Fit(h, config.intersect)
    BY <2>4, <2>5, <2>6, NoneFit DEF Fit
  <2>8. QED
    BY <1>2, <2>1, <2>7
<1>5. QED
  BY <1>3, <1>4

LEMMA NextKeepsFInv == IInv /\ FInv /\ [Next]_vars => FInv'
<1> SUFFICES ASSUME IInv, FInv, [Next]_vars PROVE FInv'
  OBVIOUS
<1>1. CASE UNCHANGED << config, stack >>
  BY <1>1 DEF FInv
<1>2. CASE Ask \/ Others \/ NoQuery
  BY <1>1, <1>2 DEF Ask, Others, NoQuery
<1>3. CASE Generate \/ Send
  BY <1>3, GenerateFits, SendFits
<1>4. CASE CteBody \/ SetOp \/ NestTest \/ NestOperand
  BY <1>4, UnrelatedFits, NestFits
<1>5. CASE NoCte \/ NoWhere \/ NoSetOp
  BY <1>5, StagesFit
<1>6. CASE Seed \/ Join
  BY <1>6, SeedFits, JoinFits
<1>7. CASE Select
  BY <1>7, SelectKeyFits, SelectAggregatesFits, SelectColumnsFits DEF Select
<1>8. CASE Where \/ Combine \/ Test \/ EndWhere \/ Ending
  BY <1>8, WhereFits, CombineFits, TestFits, EndWhereFits, EndingFits
<1>9. CASE Return
  BY <1>9, ReturnCteFits, ReturnExistsFits, ReturnInFits, ReturnOperandFits,
     ReturnRhsFits DEF Return
<1>10. CASE UNCHANGED vars
  BY <1>1, <1>10 DEF vars
<1>11. QED
  BY <1>2, <1>3, <1>4, <1>5, <1>6, <1>7, <1>8, <1>9, <1>10 DEF Next, GenBool

LEMMA InitFInv == Init => FInv
BY DEF Init, FInv, Fits

LEMMA FInvInvariant == Spec => []FInv
BY IInvInvariant, InitFInv, NextKeepsFInv, PTL DEF Spec

\* OperandsFit: with any schema and to any depth, what a comparison, an IN, a
\* set operation or % is applied to fits it by the server's types, although an
\* expression is only known to be of the family of the type it is tagged with.
THEOREM OperandsDoFit == Spec => []OperandsFit
<1>1. FInv => OperandsFit
  <2> SUFFICES ASSUME FInv, NEW i \in DOMAIN stack
               PROVE  LET f == stack[i] IN
                 /\ SidesFit(f)
                 /\ \A t \in f.terms : TermFits(t)
                 /\ \A e \in Range(f.items) \cup f.having \cup f.terms : ModuloFits(e)
    BY DEF OperandsFit
  <2>1. Fit(stack[i], config.intersect)
    BY DEF FInv, Fits
  <2>2. QED
    BY <2>1 DEF Fit, SidesFit, TermOk, ExprFits
<1>2. QED
  BY <1>1, FInvInvariant, PTL
=============================================================================

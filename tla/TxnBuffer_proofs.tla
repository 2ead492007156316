-------------------------- MODULE TxnBuffer_proofs ---------------------------
(***************************************************************************)
(* Proofs about TxnBuffer: for any names, parts, numbers of tables, ids,   *)
(* ops and changes by other workers, the open transaction reads what its   *)
(* COMMIT would publish, and publishes what it read.                       *)
(*                                                                         *)
(* Replay and rebuild are folds over the op-log.  A fold is taken apart    *)
(* into the chain of its intermediate values, and what a chain keeps is    *)
(* proved along its places, from the least place where it would fail.      *)
(***************************************************************************)
EXTENDS TxnBuffer, WellFoundedInduction, TLAPS

-----------------------------------------------------------------------------
(* Induction along 0 .. n.                                                   *)

\* A set of numbers that is not empty has a least element.
LEMMA Least ==
  ASSUME NEW T \in SUBSET Nat, T # {}
  PROVE  \E x \in T : \A y \in T : x =< y
<1> DEFINE R == OpToRel(<, Nat)
<1>1. IsWellFoundedOn(R, Nat)
  BY NatLessThanWellFounded, Zenon
<1>2. \A x, y \in Nat : x < y => << x, y >> \in R
  BY DEF OpToRel
<1> HIDE DEF R
<1>3. PICK x \in T : \A y \in T : ~ (<< y, x >> \in R)
  BY <1>1, WFMin, Zenon
<1>4. ASSUME NEW y \in T PROVE x =< y
  <2>1. ~ (<< y, x >> \in R)
    BY <1>3, Zenon
  <2> QED BY <1>2, <2>1
<1> QED BY <1>4

\* What holds at 0, and at k + 1 when it holds at k, holds up to n.
LEMMA Reaches ==
  ASSUME NEW n \in Nat, NEW S, 0 \in S,
         \A k \in 0 .. n - 1 : k \in S => k + 1 \in S
  PROVE  \A k \in 0 .. n : k \in S
<1>1. SUFFICES ASSUME NEW T, T = (0 .. n) \ S, T # {} PROVE FALSE
  OBVIOUS
<1>2. PICK m \in T : \A y \in T : m =< y
  BY <1>1, Least
<1>3. m - 1 \in 0 .. n - 1 /\ m - 1 \notin T /\ m - 1 + 1 = m
  BY <1>1, <1>2
<1> QED BY <1>1, <1>3

-----------------------------------------------------------------------------
(* Folds as chains.  The two folds of the model have one step each; a        *)
(* chain says of either that x[i] is what the first i ops make of x[0].      *)

Step(fold, c, x, op) == IF fold = "replay" THEN Replayed(x, op) ELSE Retaken(c, x, op)

Chain(fold, c, x, ops) ==
  \A i \in 1 .. Len(ops) : x[i] = Step(fold, c, x[i - 1], ops[i])

\* What MapThenFoldSet's function says of the set s.
Clause(fold, c, b, ops, g, s) ==
  IF s = {} THEN b ELSE Step(fold, c, g[s \ {Max(s)}], ops[Max(s)])

FoldsTo(fold, c, b, ops, g, n) ==
  g = [s \in SUBSET (1 .. n) |-> Clause(fold, c, b, ops, g, s)]

LEMMA MaxIs ==
  ASSUME NEW n \in Nat, NEW s \in SUBSET (1 .. n), n \in s
  PROVE  Max(s) = n
<1>1. \A y \in s : n >= y /\ y \in Nat
  OBVIOUS
<1>2. \E x \in s : \A y \in s : x >= y
  BY <1>1
<1>3. Max(s) \in s /\ \A y \in s : Max(s) >= y
  BY <1>2 DEF Max
<1>4. n >= Max(s) /\ Max(s) >= n /\ Max(s) \in Nat
  BY <1>1, <1>3
<1> QED BY <1>4

\* The function's value for a set with k + 1, whatever it is for the others.
LEMMA Extended ==
  ASSUME NEW fold, NEW c, NEW b, NEW ops, NEW k \in Nat,
         NEW g, FoldsTo(fold, c, b, ops, g, k),
         NEW h, h = [s \in SUBSET (1 .. k + 1) |->
                       IF k + 1 \in s THEN Step(fold, c, g[s \ {k + 1}], ops[k + 1])
                                      ELSE g[s]]
  PROVE  FoldsTo(fold, c, b, ops, h, k + 1)
<1>1. ASSUME NEW s \in SUBSET (1 .. k + 1), k + 1 \in s
      PROVE  h[s] = Clause(fold, c, b, ops, h, s)
  <2>1. Max(s) = k + 1 /\ s # {}
    BY <1>1, MaxIs
  <2>2. s \ {k + 1} \in SUBSET (1 .. k + 1) /\ k + 1 \notin s \ {k + 1}
    OBVIOUS
  <2>3. h[s \ {k + 1}] = g[s \ {k + 1}]
    BY <2>2
  <2>4. h[s] = Step(fold, c, g[s \ {k + 1}], ops[k + 1])
    BY <1>1
  <2> QED BY <2>1, <2>3, <2>4 DEF Clause
<1>2. ASSUME NEW s \in SUBSET (1 .. k + 1), k + 1 \notin s
      PROVE  h[s] = Clause(fold, c, b, ops, h, s)
  <2>1. s \in SUBSET (1 .. k)
    BY <1>2
  <2>2. s \ {Max(s)} \in SUBSET (1 .. k + 1) /\ k + 1 \notin s \ {Max(s)}
    BY <1>2, Zenon
  <2>3. h[s] = g[s] /\ h[s \ {Max(s)}] = g[s \ {Max(s)}]
    BY <1>2, <2>2
  <2>4. g[s] = Clause(fold, c, b, ops, g, s)
    BY <2>1, Zenon DEF FoldsTo
  <2> QED BY <2>3, <2>4 DEF Clause
<1>3. \A s \in SUBSET (1 .. k + 1) : h[s] = Clause(fold, c, b, ops, h, s)
  BY <1>1, <1>2
<1>4. h = [s \in SUBSET (1 .. k + 1) |-> h[s]]
  OBVIOUS
<1> HIDE DEF Clause
<1> QED BY <1>3, <1>4, Zenon DEF FoldsTo

\* There is such a function: the fold is defined.
LEMMA Defined ==
  ASSUME NEW fold, NEW c, NEW b, NEW ops, NEW n \in Nat
  PROVE  \E g : FoldsTo(fold, c, b, ops, g, n)
<1> DEFINE S == {k \in 0 .. n : \E g : FoldsTo(fold, c, b, ops, g, k)}
<1>1. 0 \in S
  <2> DEFINE g == [s \in SUBSET (1 .. 0) |-> b]
  <2>1. \A s \in SUBSET (1 .. 0) : Clause(fold, c, b, ops, g, s) = b
    BY DEF Clause
  <2>2. FoldsTo(fold, c, b, ops, g, 0)
    BY <2>1 DEF FoldsTo
  <2> QED BY <2>2
<1>2. ASSUME NEW k \in 0 .. n - 1, k \in S PROVE k + 1 \in S
  <2>1. PICK g : FoldsTo(fold, c, b, ops, g, k)
    BY <1>2
  <2>2. PICK h : h = [s \in SUBSET (1 .. k + 1) |->
                       IF k + 1 \in s THEN Step(fold, c, g[s \ {k + 1}], ops[k + 1])
                                      ELSE g[s]]
    BY Zenon
  <2>3. k \in Nat /\ k + 1 \in 0 .. n
    OBVIOUS
  <2>4. FoldsTo(fold, c, b, ops, h, k + 1)
    BY <2>1, <2>2, <2>3, Extended, Zenon
  <2> QED BY <2>3, <2>4
<1> HIDE DEF S
<1>3. \A k \in 0 .. n : k \in S
  BY <1>1, <1>2, Reaches
<1> QED BY <1>3 DEF S

\* Its values for 1 .. i are a chain.
LEMMA Chained ==
  ASSUME NEW fold, NEW c, NEW b, NEW ops, Len(ops) \in Nat, NEW g,
         FoldsTo(fold, c, b, ops, g, Len(ops))
  PROVE  \E x : x[0] = b /\ Chain(fold, c, x, ops) /\ x[Len(ops)] = g[1 .. Len(ops)]
<1> DEFINE n == Len(ops)
           x == [i \in 0 .. n |-> g[1 .. i]]
<1>1. x[0] = b
  <2>1. g[{}] = Clause(fold, c, b, ops, g, {})
    BY Zenon DEF FoldsTo
  <2>2. 1 .. 0 = {}
    OBVIOUS
  <2> QED BY <2>1, <2>2 DEF Clause
<1>2. ASSUME NEW i \in 1 .. n PROVE x[i] = Step(fold, c, x[i - 1], ops[i])
  <2>1. 1 .. i \in SUBSET (1 .. n) /\ i \in 1 .. i /\ (1 .. i) \ {i} = 1 .. i - 1
        /\ i - 1 \in 0 .. n /\ i \in 0 .. n
    OBVIOUS
  <2>2. Max(1 .. i) = i
    BY <2>1, MaxIs
  <2>3. g[1 .. i] = Clause(fold, c, b, ops, g, 1 .. i)
    BY <2>1, Zenon DEF FoldsTo
  <2>4. g[1 .. i] = Step(fold, c, g[1 .. i - 1], ops[i])
    BY <2>1, <2>2, <2>3 DEF Clause
  <2> QED BY <2>1, <2>4
<1>3. x[n] = g[1 .. n]
  OBVIOUS
<1> HIDE DEF x
<1> QED BY <1>1, <1>2, <1>3 DEF Chain

\* Chains with one start and one sequence of ops end alike.
LEMMA SameEnd ==
  ASSUME NEW fold, NEW c, NEW ops, Len(ops) \in Nat, NEW x, NEW y, x[0] = y[0],
         Chain(fold, c, x, ops), Chain(fold, c, y, ops)
  PROVE  \A k \in 0 .. Len(ops) : x[k] = y[k]
<1> DEFINE S == {k \in 0 .. Len(ops) : x[k] = y[k]}
<1>1. 0 \in S
  OBVIOUS
<1>2. ASSUME NEW k \in 0 .. Len(ops) - 1, k \in S PROVE k + 1 \in S
  <2>1. k + 1 \in 1 .. Len(ops) /\ k + 1 - 1 = k
    OBVIOUS
  <2>2. x[k + 1] = Step(fold, c, x[k], ops[k + 1]) /\ y[k + 1] = Step(fold, c, y[k], ops[k + 1])
    BY <2>1 DEF Chain
  <2> QED BY <1>2, <2>1, <2>2
<1> HIDE DEF S
<1>3. \A k \in 0 .. Len(ops) : k \in S
  BY <1>1, <1>2, Reaches
<1> QED BY <1>3 DEF S

\* The replay of the log is the end of a chain, and of any.
LEMMA ReplayIsChain ==
  ASSUME NEW c, NEW ops \in Seq(Op)
  PROVE  /\ \E x : x[0] = c /\ Chain("replay", c, x, ops)
         /\ \A x : x[0] = c /\ Chain("replay", c, x, ops)
               => Replay(c, ops) = x[Len(ops)]
<1> DEFINE iter == CHOOSE g : g = [s \in SUBSET DOMAIN ops |->
                     IF s = {} THEN c
                     ELSE LET x == Max(s) IN Replayed(g[s \ {x}], ops[x])]
<1>1. Replay(c, ops) = iter[DOMAIN ops]
  BY DEF Replay, FoldLeft, MapThenFoldSet
<1>2. DOMAIN ops = 1 .. Len(ops) /\ Len(ops) \in Nat
  OBVIOUS
<1>3. \A g : FoldsTo("replay", c, c, ops, g, Len(ops))
         <=> g = [s \in SUBSET DOMAIN ops |->
                     IF s = {} THEN c
                     ELSE LET x == Max(s) IN Replayed(g[s \ {x}], ops[x])]
  BY <1>2 DEF FoldsTo, Clause, Step
<1>4. FoldsTo("replay", c, c, ops, iter, Len(ops))
  BY <1>2, <1>3, Defined, Zenon
<1> HIDE DEF iter
<1>5. PICK x : x[0] = c /\ Chain("replay", c, x, ops) /\ x[Len(ops)] = iter[1 .. Len(ops)]
  BY <1>2, <1>4, Chained
<1>6. ASSUME NEW y, y[0] = c, Chain("replay", c, y, ops)
      PROVE  Replay(c, ops) = y[Len(ops)]
  <2>1. x[0] = y[0] /\ Len(ops) \in Nat /\ Len(ops) \in 0 .. Len(ops)
    BY <1>2, <1>5, <1>6
  <2>2. Chain("replay", c, x, ops) /\ Chain("replay", c, y, ops)
    BY <1>5, <1>6
  <2>3. \A k \in 0 .. Len(ops) : x[k] = y[k]
    BY <2>1, <2>2, SameEnd
  <2>4. x[Len(ops)] = y[Len(ops)]
    BY <2>1, <2>3, Zenon
  <2> QED BY <1>1, <1>2, <1>5, <2>4
<1> QED BY <1>5, <1>6

\* So is the rebuild of the overlay.
LEMMA RebuiltIsChain ==
  ASSUME NEW c, NEW ops \in Seq(Op)
  PROVE  \E x : /\ x[0] = EmptyOverlay /\ Chain("rebuild", c, x, ops)
                /\ Rebuilt(c, ops) = x[Len(ops)]
<1> DEFINE iter == CHOOSE g : g = [s \in SUBSET DOMAIN ops |->
                     IF s = {} THEN EmptyOverlay
                     ELSE LET x == Max(s) IN Retaken(c, g[s \ {x}], ops[x])]
<1>1. Rebuilt(c, ops) = iter[DOMAIN ops]
  BY DEF Rebuilt, FoldLeft, MapThenFoldSet
<1>2. DOMAIN ops = 1 .. Len(ops) /\ Len(ops) \in Nat
  OBVIOUS
<1>3. \A g : FoldsTo("rebuild", c, EmptyOverlay, ops, g, Len(ops))
         <=> g = [s \in SUBSET DOMAIN ops |->
                     IF s = {} THEN EmptyOverlay
                     ELSE LET x == Max(s) IN Retaken(c, g[s \ {x}], ops[x])]
  BY <1>2 DEF FoldsTo, Clause, Step
<1>4. FoldsTo("rebuild", c, EmptyOverlay, ops, iter, Len(ops))
  BY <1>2, <1>3, Defined, Zenon
<1> HIDE DEF iter
<1>5. PICK x : /\ x[0] = EmptyOverlay /\ Chain("rebuild", c, x, ops)
               /\ x[Len(ops)] = iter[1 .. Len(ops)]
  BY <1>2, <1>4, Chained
<1> QED BY <1>1, <1>2, <1>5

-----------------------------------------------------------------------------
(* Laws of the replay: nothing, one op more, one op less.                    *)

LEMMA ReplayNothing == ASSUME NEW c PROVE Replay(c, << >>) = c
<1>1. ASSUME NEW ops \in Seq(Op), Len(ops) = 0 PROVE Replay(c, ops) = c
  <2>1. PICK x : x[0] = c /\ Chain("replay", c, x, ops)
    BY ReplayIsChain
  <2>2. Replay(c, ops) = x[Len(ops)]
    BY <2>1, ReplayIsChain
  <2> QED BY <1>1, <2>1, <2>2
<1>2. << >> \in Seq(Op) /\ Len(<< >>) = 0
  OBVIOUS
<1> QED BY <1>1, <1>2, Zenon

LEMMA ReplayAppend ==
  ASSUME NEW c, NEW ops \in Seq(Op), NEW op \in Op
  PROVE  Replay(c, Append(ops, op)) = Replayed(Replay(c, ops), op)
<1> DEFINE n == Len(ops)
           longer == Append(ops, op)
<1>1. longer \in Seq(Op)
  OBVIOUS
<1>2. /\ n \in Nat /\ Len(longer) = n + 1 /\ longer[n + 1] = op
      /\ \A i \in 1 .. n : longer[i] = ops[i]
  OBVIOUS
<1> HIDE DEF longer
<1>3. PICK x : x[0] = c /\ Chain("replay", c, x, longer)
  BY <1>1, ReplayIsChain
<1>4. Chain("replay", c, x, ops)
  BY <1>2, <1>3 DEF Chain
<1>5. Replay(c, ops) = x[n] /\ Replay(c, longer) = x[n + 1]
  BY <1>1, <1>2, <1>3, <1>4, ReplayIsChain
<1>6. x[n + 1] = Replayed(x[n], op)
  <2>1. n + 1 \in 1 .. Len(longer) /\ n + 1 - 1 = n
    BY <1>2
  <2> QED BY <1>2, <1>3, <2>1 DEF Chain, Step
<1> QED BY <1>5, <1>6 DEF longer

LEMMA ReplayFirst ==
  ASSUME NEW c, NEW ops \in Seq(Op), NEW rest \in Seq(Op),
         Len(ops) = Len(rest) + 1, \A i \in 1 .. Len(rest) : rest[i] = ops[i + 1]
  PROVE  Replay(c, ops) = Replay(Replayed(c, ops[1]), rest)
<1> DEFINE n == Len(rest)
           d == Replayed(c, ops[1])
<1>1. PICK x : x[0] = c /\ Chain("replay", c, x, ops)
  BY ReplayIsChain
<1>2. n \in Nat /\ \A i \in 1 .. n + 1 : x[i] = Replayed(x[i - 1], ops[i])
  BY <1>1 DEF Chain, Step
<1>3. PICK y : y = [i \in 0 .. n |-> x[i + 1]]
  OBVIOUS
<1>4. y[0] = d
  BY <1>1, <1>2, <1>3
<1>5. ASSUME NEW i \in 1 .. n PROVE y[i] = Replayed(y[i - 1], rest[i])
  <2>1. i + 1 \in 1 .. n + 1 /\ i + 1 - 1 = i /\ i - 1 + 1 = i /\ i \in 0 .. n /\ i - 1 \in 0 .. n
    BY <1>2
  <2>2. y[i] = x[i + 1] /\ y[i - 1] = x[i]
    BY <1>3, <2>1
  <2> QED BY <1>2, <2>1, <2>2
<1>6. Chain("replay", d, y, rest)
  BY <1>5 DEF Chain, Step
<1>7. Replay(d, rest) = y[n] /\ Replay(c, ops) = x[n + 1]
  BY <1>1, <1>4, <1>6, ReplayIsChain
<1> QED BY <1>2, <1>3, <1>7

-----------------------------------------------------------------------------
(* The catalog's methods keep its three members consistent.                  *)

\* What a catalog value is, for any set of records.
CatalogType(c) ==
  /\ Live(c) \subseteq Id
  /\ c = [slots |-> c.slots, sampling |-> c.sampling, names |-> c.names]
  /\ c.slots \in [Live(c) -> [rec : Rec, pos : Nat]]
  /\ c.sampling \in Seq(Id)
  /\ DOMAIN c.names \subseteq Name
  /\ c.names \in [DOMAIN c.names -> Id]

Sampled(c) ==
  /\ \A id \in Live(c) :
        /\ c.slots[id].pos \in 1 .. Len(c.sampling)
        /\ c.sampling[c.slots[id].pos] = id
  /\ \A i \in 1 .. Len(c.sampling) :
        /\ c.sampling[i] \in Live(c)
        /\ c.slots[c.sampling[i]].pos = i

Named(c) ==
  \A n \in DOMAIN c.names :
     c.names[n] \in Live(c) /\ c.slots[c.names[n]].rec.name = n

Consistent(c) == CatalogType(c) /\ Sampled(c) /\ Named(c)

\* The empty catalog, before the first insert() and after reset().
LEMMA EmptyConsistent == Consistent(EmptyCatalog)
  BY DEF Consistent, CatalogType, Sampled, Named, EmptyCatalog, EmptyFcn, Live

\* insert() of a record that is not there keeps the members consistent.
LEMMA InsertedConsistent ==
  ASSUME NEW c, Consistent(c), NEW id \in Id, id \notin Live(c), NEW rec \in Rec
  PROVE  Consistent(Inserted(c, id, rec))
<1> DEFINE d == Inserted(c, id, rec)
<1>1. /\ Live(d) = Live(c) \cup {id}
      /\ d.sampling = Append(c.sampling, id)
      /\ d.slots[id] = [rec |-> rec, pos |-> Len(c.sampling) + 1]
      /\ \A x \in Live(c) : d.slots[x] = c.slots[x]
      /\ DOMAIN d.names = DOMAIN c.names \cup {rec.name}
      /\ d.names[rec.name] = id
      /\ \A n \in DOMAIN c.names \ {rec.name} : d.names[n] = c.names[n]
  BY DEF Inserted, Put, Live
<1>2. CatalogType(d)
  BY <1>1 DEF Consistent, CatalogType, Inserted, Put, Live, Rec
<1>3. Sampled(d)
  BY <1>1 DEF Consistent, CatalogType, Sampled
<1>4. Named(d)
  BY <1>1 DEF Consistent, CatalogType, Named, Live
<1> QED BY <1>2, <1>3, <1>4 DEF Consistent

\* update() of a live record, renaming or not, keeps the members consistent.
LEMMA UpdatedConsistent ==
  ASSUME NEW c, Consistent(c), NEW id \in Live(c), NEW rec \in Rec
  PROVE  Consistent(Updated(c, id, rec)) /\ Live(Updated(c, id, rec)) = Live(c)
<1> DEFINE d == Updated(c, id, rec)
           old == c.slots[id].rec.name
<1>1. /\ Live(d) = Live(c)
      /\ d.sampling = c.sampling
      /\ d.slots[id] = [rec |-> rec, pos |-> c.slots[id].pos]
      /\ \A x \in Live(c) \ {id} : d.slots[x] = c.slots[x]
  BY DEF Consistent, CatalogType, Updated, Put, Live
<1>2. rec.name = old => d.names = c.names
  BY DEF Updated, RecOf
<1>3. rec.name # old =>
        /\ rec.name \in DOMAIN d.names /\ d.names[rec.name] = id
        /\ DOMAIN d.names \subseteq DOMAIN c.names \cup {rec.name}
        /\ \A n \in DOMAIN d.names \ {rec.name} :
              d.names[n] = c.names[n] /\ (n = old => c.names[n] # id)
  BY DEF Updated, RecOf, NamesWithout, Put, Restrict
<1>4. CatalogType(d)
  <2>1. d = [slots |-> d.slots, sampling |-> d.sampling, names |-> d.names]
    BY DEF Updated
  <2>2. d.slots \in [Live(d) -> [rec : Rec, pos : Nat]]
    BY <1>1 DEF Consistent, CatalogType, Updated, Put, Live
  <2>3. d.names \in [DOMAIN d.names -> Id] /\ DOMAIN d.names \subseteq Name
    <3>1. DOMAIN c.names \subseteq Name /\ c.names \in [DOMAIN c.names -> Id]
          /\ rec.name \in Name /\ id \in Id
      BY DEF Consistent, CatalogType, Rec
    <3>2. d.names = [n \in DOMAIN d.names |-> d.names[n]]
      <4>1. c.names = [n \in DOMAIN c.names |-> c.names[n]]
        BY <3>1
      <4> QED BY <4>1, <1>2 DEF Updated, Put
    <3> QED BY <3>1, <3>2, <1>2, <1>3
  <2> QED BY <1>1, <2>1, <2>2, <2>3 DEF Consistent, CatalogType
<1>5. Sampled(d)
  <2>1. \A x \in Live(c) : d.slots[x].pos = c.slots[x].pos
    BY <1>1
  <2> QED BY <1>1, <2>1 DEF Consistent, Sampled
<1>6. Named(d)
  <2>1. ASSUME NEW n \in DOMAIN d.names
        PROVE  d.names[n] \in Live(c) /\ d.slots[d.names[n]].rec.name = n
    <3>1. CASE rec.name = old
      BY <1>1, <1>2, <3>1 DEF Consistent, Named
    <3>2. CASE rec.name # old /\ n = rec.name
      BY <1>1, <1>3, <3>2
    <3>3. CASE rec.name # old /\ n # rec.name
      BY <1>1, <1>3, <3>3 DEF Consistent, Named
    <3> QED BY <3>1, <3>2, <3>3
  <2> QED BY <1>1, <2>1 DEF Named
<1> QED BY <1>1, <1>4, <1>5, <1>6 DEF Consistent

\* erase()'s swap-remove keeps the members consistent.
LEMMA ErasedConsistent ==
  ASSUME NEW c, Consistent(c), NEW id \in Live(c)
  PROVE  Consistent(Erased(c, id)) /\ Live(Erased(c, id)) = Live(c) \ {id}
<1> DEFINE d == Erased(c, id)
           pos == c.slots[id].pos
           last == Len(c.sampling)
           lastId == c.sampling[last]
<1>1. /\ pos \in 1 .. last /\ last \in Nat /\ last >= 1
      /\ c.sampling[pos] = id
      /\ lastId \in Live(c) /\ c.slots[lastId].pos = last
  BY DEF Consistent, CatalogType, Sampled
<1>2. /\ Live(d) = Live(c) \ {id}
      /\ \A x \in Live(d) : /\ d.slots[x].rec = c.slots[x].rec
                            /\ d.slots[x].pos = IF x = lastId THEN pos
                                                ELSE c.slots[x].pos
  BY <1>1 DEF Consistent, CatalogType, Erased, Put, RecOf, Live, Restrict
<1>3. /\ d.sampling \in Seq(Id)
      /\ Len(d.sampling) = last - 1
      /\ \A i \in 1 .. last - 1 :
            d.sampling[i] = IF i = pos THEN lastId ELSE c.sampling[i]
  <2> DEFINE moved == [c.sampling EXCEPT ![pos] = lastId]
  <2>1. moved \in Seq(Id) /\ Len(moved) = last
        /\ \A i \in 1 .. last : moved[i] = IF i = pos THEN lastId ELSE c.sampling[i]
    BY <1>1 DEF Consistent, CatalogType
  <2>2. d.sampling = SubSeq(moved, 1, last - 1)
    BY DEF Erased
  <2> HIDE DEF moved, d
  <2> QED BY <1>1, <2>1, <2>2
<1>4. /\ DOMAIN d.names \subseteq DOMAIN c.names
      /\ \A n \in DOMAIN d.names : d.names[n] = c.names[n] /\ c.names[n] # id
  BY DEF Erased, NamesWithout, RecOf, Restrict, Consistent, CatalogType, Named
<1>5. CatalogType(d)
  <2>1. d = [slots |-> d.slots, sampling |-> d.sampling, names |-> d.names]
    BY DEF Erased
  <2>2. d.slots \in [Live(d) -> [rec : Rec, pos : Nat]]
    BY <1>1, <1>2 DEF Consistent, CatalogType, Erased, Put, RecOf, Live, Restrict
  <2>3. d.names \in [DOMAIN d.names -> Id] /\ DOMAIN d.names \subseteq Name
    BY <1>4 DEF Consistent, CatalogType, Erased, NamesWithout, Restrict
  <2> QED BY <1>2, <1>3, <2>1, <2>2, <2>3 DEF Consistent, CatalogType
<1>6. Sampled(d)
  <2>1. ASSUME NEW x \in Live(d)
        PROVE  d.slots[x].pos \in 1 .. last - 1 /\ d.sampling[d.slots[x].pos] = x
    <3>1. /\ x \in Live(c) /\ x # id
          /\ c.slots[x].pos \in 1 .. last /\ c.sampling[c.slots[x].pos] = x
          /\ d.slots[x].pos = IF x = lastId THEN pos ELSE c.slots[x].pos
      BY <1>2 DEF Consistent, Sampled
    <3> HIDE DEF d
    <3>2. CASE x = lastId
      <4>1. pos # last /\ pos \in 1 .. last - 1
        BY <1>1, <3>1, <3>2
      <4> QED BY <1>3, <3>1, <3>2, <4>1
    <3>3. CASE x # lastId
      <4>1. c.slots[x].pos # last /\ c.slots[x].pos # pos
        BY <1>1, <3>1, <3>3
      <4>2. c.slots[x].pos \in 1 .. last - 1
        BY <1>1, <3>1, <4>1
      <4> QED BY <1>3, <3>1, <3>3, <4>1, <4>2
    <3> QED BY <3>2, <3>3
  <2>2. ASSUME NEW i \in 1 .. last - 1
        PROVE  d.sampling[i] \in Live(d) /\ d.slots[d.sampling[i]].pos = i
    <3>1. /\ i \in 1 .. last /\ i # last
          /\ c.sampling[i] \in Live(c) /\ c.slots[c.sampling[i]].pos = i
      BY <1>1 DEF Consistent, Sampled
    <3> HIDE DEF d
    <3>2. CASE i = pos
      BY <1>1, <1>2, <1>3, <3>1, <3>2
    <3>3. CASE i # pos
      BY <1>1, <1>2, <1>3, <3>1, <3>3
    <3> QED BY <3>2, <3>3
  <2> QED BY <1>3, <2>1, <2>2 DEF Sampled
<1>7. Named(d)
  BY <1>2, <1>4 DEF Consistent, Named
<1> QED BY <1>2, <1>5, <1>6, <1>7 DEF Consistent

-----------------------------------------------------------------------------
(* What the ops do to what a reader finds under an id.                       *)

\* The effect of an op on a record, or on nothing.
Eff(op, v) ==
  CASE op.kind = "insert" -> IF v = Gone THEN op.rec ELSE v
    [] op.kind = "update" -> IF v # Gone /\ Accepts(op.delta, v)
                             THEN Apply(op.delta, v) ELSE v
    [] op.kind = "erase"  -> Gone

LEMMA OpsAre ==
  ASSUME NEW op \in Op
  PROVE  /\ op.id \in Id
         /\ \/ op.kind = "insert" /\ op.rec \in Rec
            \/ op.kind = "update" /\ op.delta \in Delta
            \/ op.kind = "erase"
BY DEF Op

LEMMA GoneIsNoRecord == Gone \notin Rec
<1>1. DOMAIN Gone = {"name"} /\ \A r \in Rec : "parts" \in DOMAIN r
  BY DEF Gone, Rec
<1> QED BY <1>1

LEMMA ApplyOk ==
  ASSUME NEW d \in Delta, NEW r \in Rec
  PROVE  Apply(d, r) \in Rec
<1>1. \/ d.kind = "add" /\ d.part \in Part
      \/ d.kind = "remove"
      \/ d.kind = "rename" /\ d.name \in Name
  BY DEF Delta
<1>2. r.name \in Name /\ r.parts \subseteq Part /\ r = [name |-> r.name, parts |-> r.parts]
  BY DEF Rec
<1>3. CASE d.kind = "add"
  BY <1>1, <1>2, <1>3 DEF Apply, Rec
<1>4. CASE d.kind = "remove"
  BY <1>2, <1>4 DEF Apply, Rec
<1>5. CASE d.kind = "rename"
  BY <1>1, <1>2, <1>5 DEF Apply, Rec
<1> QED BY <1>1, <1>3, <1>4, <1>5

LEMMA InCatalogIs ==
  ASSUME NEW c, Consistent(c), NEW id
  PROVE  /\ id \in Live(c) => InCatalog(c, id) \in Rec /\ InCatalog(c, id) # Gone
         /\ id \notin Live(c) => InCatalog(c, id) = Gone
BY GoneIsNoRecord DEF InCatalog, Consistent, CatalogType, RecOf, Live

LEMMA InsertedValues ==
  ASSUME NEW c, NEW id, id \notin Live(c), NEW rec
  PROVE  /\ Live(Inserted(c, id, rec)) = Live(c) \cup {id}
         /\ InCatalog(Inserted(c, id, rec), id) = rec
         /\ \A x : x # id => InCatalog(Inserted(c, id, rec), x) = InCatalog(c, x)
BY DEF Inserted, Put, Live, RecOf, InCatalog

LEMMA UpdatedValues ==
  ASSUME NEW c, NEW id \in Live(c), NEW rec
  PROVE  /\ InCatalog(Updated(c, id, rec), id) = rec
         /\ \A x : x # id => InCatalog(Updated(c, id, rec), x) = InCatalog(c, x)
BY DEF Updated, Put, Live, RecOf, InCatalog

LEMMA ErasedValues ==
  ASSUME NEW c, Consistent(c), NEW id \in Live(c)
  PROVE  /\ InCatalog(Erased(c, id), id) = Gone
         /\ \A x : x # id => InCatalog(Erased(c, id), x) = InCatalog(c, x)
<1> DEFINE d == Erased(c, id)
           lastId == c.sampling[Len(c.sampling)]
<1>1. lastId \in Live(c)
  BY DEF Consistent, CatalogType, Sampled
<1>2. Live(d) = Live(c) \ {id}
  BY ErasedConsistent
<1>3. \A x \in Live(c) \ {id} : d.slots[x].rec = c.slots[x].rec
  BY <1>1 DEF Erased, Put, RecOf, Live, Restrict
<1> HIDE DEF d
<1>4. InCatalog(d, id) = Gone /\ \A x : x # id => InCatalog(d, x) = InCatalog(c, x)
  BY <1>2, <1>3 DEF InCatalog, RecOf
<1> QED BY <1>4 DEF d

\* A catalog method changes the op's id as Eff says, and nothing else.
LEMMA ReplayedOk ==
  ASSUME NEW c, Consistent(c), NEW op \in Op
  PROVE  /\ Consistent(Replayed(c, op))
         /\ Live(Replayed(c, op)) \subseteq Live(c) \cup {op.id}
         /\ op.kind # "insert" => Live(Replayed(c, op)) \subseteq Live(c)
         /\ InCatalog(Replayed(c, op), op.id) = Eff(op, InCatalog(c, op.id))
         /\ \A x : x # op.id => InCatalog(Replayed(c, op), x) = InCatalog(c, x)
<1> SUFFICES ASSUME NEW d, d = Replayed(c, op)
             PROVE  /\ Consistent(d)
                    /\ Live(d) \subseteq Live(c) \cup {op.id}
                    /\ op.kind # "insert" => Live(d) \subseteq Live(c)
                    /\ InCatalog(d, op.id) = Eff(op, InCatalog(c, op.id))
                    /\ \A x : x # op.id => InCatalog(d, x) = InCatalog(c, x)
  BY Zenon
<1>0. op.id \in Id /\ op.id # NoId
  BY OpsAre, TxnBufferAssumption DEF Id, NoId
<1>1. CASE op.kind = "insert"
  <2>1. CASE op.id \in Live(c)
    <3>1. d = c
      BY <1>1, <2>1 DEF Replayed, CatalogInsert, Insertable
    <3>2. Eff(op, InCatalog(c, op.id)) = InCatalog(c, op.id)
      BY <1>1, <2>1, InCatalogIs DEF Eff
    <3> QED BY <3>1, <3>2
  <2>2. CASE op.id \notin Live(c)
    <3>1. d = Inserted(c, op.id, op.rec) /\ op.rec \in Rec
      BY <1>0, <1>1, <2>2, OpsAre DEF Replayed, CatalogInsert, Insertable
    <3>2. Eff(op, InCatalog(c, op.id)) = op.rec
      BY <1>1, <2>2, InCatalogIs DEF Eff
    <3>3. Consistent(d)
      BY <1>0, <2>2, <3>1, InsertedConsistent
    <3> QED BY <1>1, <2>2, <3>1, <3>2, <3>3, InsertedValues
  <2> QED BY <2>1, <2>2
<1>2. CASE op.kind = "update"
  <2> DEFINE v == RecOf(c, op.id)
  <2>1. CASE ~(op.id \in Live(c) /\ Accepts(op.delta, v))
    <3>1. d = c
      BY <1>2, <2>1 DEF Replayed, CatalogUpdate
    <3>2. Eff(op, InCatalog(c, op.id)) = InCatalog(c, op.id)
      BY <1>2, <2>1 DEF Eff, InCatalog
    <3> QED BY <3>1, <3>2
  <2>2. CASE op.id \in Live(c) /\ Accepts(op.delta, v)
    <3>1. d = Updated(c, op.id, Apply(op.delta, v))
      BY <1>2, <2>2 DEF Replayed, CatalogUpdate
    <3>2. InCatalog(c, op.id) = v /\ v \in Rec /\ v # Gone
      BY <2>2, InCatalogIs DEF InCatalog
    <3>3. Eff(op, InCatalog(c, op.id)) = Apply(op.delta, v)
      BY <1>2, <2>2, <3>2 DEF Eff
    <3>4. Apply(op.delta, v) \in Rec
      BY <1>2, <3>2, OpsAre, ApplyOk
    <3> HIDE DEF v
    <3>5. Consistent(d) /\ Live(d) = Live(c)
      BY <2>2, <3>1, <3>4, UpdatedConsistent
    <3> QED BY <2>2, <3>1, <3>3, <3>5, UpdatedValues
  <2> QED BY <2>1, <2>2
<1>3. CASE op.kind = "erase"
  <2>1. Eff(op, InCatalog(c, op.id)) = Gone
    BY <1>3 DEF Eff
  <2>2. CASE op.id \notin Live(c)
    <3>1. d = c
      BY <1>3, <2>2 DEF Replayed, CatalogErase
    <3> QED BY <2>1, <2>2, <3>1, InCatalogIs
  <2>3. CASE op.id \in Live(c)
    <3>1. d = Erased(c, op.id)
      BY <1>3, <2>3 DEF Replayed, CatalogErase
    <3>2. Consistent(d) /\ Live(d) \subseteq Live(c)
      BY <2>3, <3>1, ErasedConsistent
    <3> QED BY <2>1, <2>3, <3>1, <3>2, ErasedValues
  <2> QED BY <2>2, <2>3
<1> QED BY <1>1, <1>2, <1>3, OpsAre

-----------------------------------------------------------------------------
(* What a reader finds under one id, op by op.                               *)

Trace(v, ops, id) ==
  \A i \in 1 .. Len(ops) :
     v[i] = IF ops[i].id = id THEN Eff(ops[i], v[i - 1]) ELSE v[i - 1]

\* It depends on what was there first, and on the ops.
LEMMA TracesAgree ==
  ASSUME NEW ops, Len(ops) \in Nat, NEW id, NEW v, NEW w, v[0] = w[0],
         Trace(v, ops, id), Trace(w, ops, id)
  PROVE  v[Len(ops)] = w[Len(ops)]
<1> DEFINE n == Len(ops)
           S == {k \in 0 .. n : v[k] = w[k]}
<1>1. 0 \in S
  OBVIOUS
<1>2. ASSUME NEW k \in 0 .. n - 1, k \in S PROVE k + 1 \in S
  <2>1. k + 1 \in 1 .. n /\ k + 1 - 1 = k
    OBVIOUS
  <2>2. /\ v[k + 1] = IF ops[k + 1].id = id THEN Eff(ops[k + 1], v[k]) ELSE v[k]
        /\ w[k + 1] = IF ops[k + 1].id = id THEN Eff(ops[k + 1], w[k]) ELSE w[k]
    BY <2>1 DEF Trace
  <2> QED BY <1>2, <2>1, <2>2
<1> HIDE DEF S
<1>3. \A k \in 0 .. n : k \in S
  BY <1>1, <1>2, Reaches
<1>4. n \in 0 .. n
  OBVIOUS
<1> QED BY <1>3, <1>4 DEF S

\* Ops on other ids leave it as it was.
LEMMA TraceKeeps ==
  ASSUME NEW ops, Len(ops) \in Nat, NEW id, NEW v, Trace(v, ops, id),
         \A i \in 1 .. Len(ops) : ops[i].id # id
  PROVE  v[Len(ops)] = v[0]
<1> DEFINE n == Len(ops)
           S == {k \in 0 .. n : v[k] = v[0]}
<1>1. 0 \in S
  OBVIOUS
<1>2. ASSUME NEW k \in 0 .. n - 1, k \in S PROVE k + 1 \in S
  <2>1. k + 1 \in 1 .. n /\ k + 1 - 1 = k
    OBVIOUS
  <2>2. v[k + 1] = v[k]
    BY <2>1 DEF Trace
  <2> QED BY <1>2, <2>1, <2>2
<1> HIDE DEF S
<1>3. \A k \in 0 .. n : k \in S
  BY <1>1, <1>2, Reaches
<1>4. n \in 0 .. n
  OBVIOUS
<1> QED BY <1>3, <1>4 DEF S

\* The catalogs on the way of a replay.
LEMMA ReplayKeeps ==
  ASSUME NEW c, Consistent(c), NEW ops \in Seq(Op), NEW x, x[0] = c,
         Chain("replay", c, x, ops)
  PROVE  \A k \in 0 .. Len(ops) :
            /\ Consistent(x[k])
            /\ Live(x[k]) \subseteq Live(c) \cup Written(ops)
<1> DEFINE n == Len(ops)
           S == {k \in 0 .. n : Consistent(x[k]) /\ Live(x[k]) \subseteq Live(c) \cup Written(ops)}
<1>1. 0 \in S
  <2>1. 0 \in 0 .. n /\ Consistent(x[0]) /\ Live(x[0]) \subseteq Live(c) \cup Written(ops)
    OBVIOUS
  <2> QED BY <2>1
<1>2. ASSUME NEW k \in 0 .. n - 1, k \in S PROVE k + 1 \in S
  <2>1. k + 1 \in 1 .. n /\ k + 1 - 1 = k /\ ops[k + 1] \in Op /\ ops[k + 1].id \in Written(ops)
    BY DEF Written
  <2>2. x[k + 1] = Replayed(x[k], ops[k + 1])
    BY <2>1 DEF Chain, Step
  <2>3. Consistent(x[k]) /\ Live(x[k]) \subseteq Live(c) \cup Written(ops)
    BY <1>2, Zenon
  <2>4. Consistent(x[k + 1]) /\ Live(x[k + 1]) \subseteq Live(x[k]) \cup {ops[k + 1].id}
    BY <2>1, <2>2, <2>3, ReplayedOk
  <2> QED BY <2>1, <2>3, <2>4
<1>3. n \in Nat
  OBVIOUS
<1> HIDE DEF S, n
<1>4. \A k \in 0 .. n : k \in S
  BY <1>1, <1>2, <1>3, Reaches
<1> QED BY <1>4 DEF S, n

LEMMA ReplayConsistent ==
  ASSUME NEW c, Consistent(c), NEW ops \in Seq(Op)
  PROVE  /\ Consistent(Replay(c, ops))
         /\ Live(Replay(c, ops)) \subseteq Live(c) \cup Written(ops)
<1>1. PICK x : x[0] = c /\ Chain("replay", c, x, ops)
  BY ReplayIsChain
<1>2. Replay(c, ops) = x[Len(ops)] /\ Len(ops) \in 0 .. Len(ops)
  BY <1>1, ReplayIsChain
<1>3. \A k \in 0 .. Len(ops) :
        Consistent(x[k]) /\ Live(x[k]) \subseteq Live(c) \cup Written(ops)
  BY <1>1, ReplayKeeps
<1>4. Consistent(x[Len(ops)]) /\ Live(x[Len(ops)]) \subseteq Live(c) \cup Written(ops)
  BY <1>2, <1>3, Zenon
<1> QED BY <1>2, <1>4

LEMMA ReplayTrace ==
  ASSUME NEW c, Consistent(c), NEW ops \in Seq(Op), NEW id
  PROVE  \E v : /\ v[0] = InCatalog(c, id)
                /\ Trace(v, ops, id)
                /\ v[Len(ops)] = InCatalog(Replay(c, ops), id)
<1> DEFINE n == Len(ops)
<1>1. PICK x : x[0] = c /\ Chain("replay", c, x, ops)
  BY ReplayIsChain
<1>2. Replay(c, ops) = x[n] /\ n \in Nat
  BY <1>1, ReplayIsChain
<1>3. \A k \in 0 .. n : Consistent(x[k])
  BY <1>1, ReplayKeeps
<1>4. PICK v : v = [i \in 0 .. n |-> InCatalog(x[i], id)]
  OBVIOUS
<1>5. ASSUME NEW i \in 1 .. n
      PROVE  v[i] = IF ops[i].id = id THEN Eff(ops[i], v[i - 1]) ELSE v[i - 1]
  <2>1. i \in 0 .. n /\ i - 1 \in 0 .. n /\ ops[i] \in Op
    BY <1>2
  <2>2. x[i] = Replayed(x[i - 1], ops[i]) /\ Consistent(x[i - 1])
    BY <1>1, <1>3, <2>1 DEF Chain, Step
  <2>3. v[i] = InCatalog(x[i], id) /\ v[i - 1] = InCatalog(x[i - 1], id)
    BY <1>4, <2>1
  <2> QED BY <2>1, <2>2, <2>3, ReplayedOk
<1>6. Trace(v, ops, id)
  BY <1>5 DEF Trace
<1>7. v[0] = InCatalog(c, id) /\ v[n] = InCatalog(Replay(c, ops), id)
  BY <1>1, <1>2, <1>4
<1> QED BY <1>6, <1>7

\* Replays from two catalogs that agree under an id agree under it.
LEMMA ReplaysAgree ==
  ASSUME NEW c, Consistent(c), NEW d, Consistent(d), NEW ops \in Seq(Op), NEW id,
         InCatalog(c, id) = InCatalog(d, id)
  PROVE  InCatalog(Replay(c, ops), id) = InCatalog(Replay(d, ops), id)
<1>1. PICK v : /\ v[0] = InCatalog(c, id)
               /\ Trace(v, ops, id)
               /\ v[Len(ops)] = InCatalog(Replay(c, ops), id)
  BY ReplayTrace
<1>2. PICK w : /\ w[0] = InCatalog(d, id)
               /\ Trace(w, ops, id)
               /\ w[Len(ops)] = InCatalog(Replay(d, ops), id)
  BY ReplayTrace
<1>3. v[0] = w[0] /\ Len(ops) \in Nat
  BY <1>1, <1>2
<1>4. v[Len(ops)] = w[Len(ops)]
  BY <1>1, <1>2, <1>3, TracesAgree
<1> QED BY <1>1, <1>2, <1>4

\* A replay leaves alone what its ops do not name.
LEMMA ReplayLeaves ==
  ASSUME NEW c, Consistent(c), NEW ops \in Seq(Op), NEW id, id \notin Written(ops)
  PROVE  InCatalog(Replay(c, ops), id) = InCatalog(c, id)
<1>1. PICK v : /\ v[0] = InCatalog(c, id)
               /\ Trace(v, ops, id)
               /\ v[Len(ops)] = InCatalog(Replay(c, ops), id)
  BY ReplayTrace
<1>2. Len(ops) \in Nat /\ \A i \in 1 .. Len(ops) : ops[i].id # id
  BY DEF Written
<1>3. v[Len(ops)] = v[0]
  BY <1>1, <1>2, TraceKeeps
<1> QED BY <1>1, <1>3

-----------------------------------------------------------------------------
(* The overlay: taking an op has the same effect on the view.                *)

IsOverlay(o) == /\ o = [local |-> o.local, erased |-> o.erased]
                /\ o.local \in [DOMAIN o.local -> Rec]
                /\ DOMAIN o.local \cap o.erased = {}

Touched(o) == DOMAIN o.local \cup o.erased

LEMMA EmptyIsOverlay ==
  /\ IsOverlay(EmptyOverlay) /\ Touched(EmptyOverlay) = {}
  /\ \A c, id : InView(c, EmptyOverlay, id) = InCatalog(c, id)
BY DEF IsOverlay, Touched, EmptyOverlay, EmptyFcn, InView, InCatalog, ViewHas, ViewRec

\* What the overlay does not touch is read from the catalog.
LEMMA Untouched ==
  ASSUME NEW c, NEW o, NEW id, id \notin Touched(o)
  PROVE  InView(c, o, id) = InCatalog(c, id)
BY DEF Touched, InView, InCatalog, ViewHas, ViewRec

LEMMA InViewIs ==
  ASSUME NEW c, Consistent(c), NEW o, IsOverlay(o), NEW id
  PROVE  IF ViewHas(c, o, id)
         THEN /\ InView(c, o, id) = ViewRec(c, o, id)
              /\ ViewRec(c, o, id) \in Rec /\ ViewRec(c, o, id) # Gone
         ELSE InView(c, o, id) = Gone
<1>1. ViewHas(c, o, id) => ViewRec(c, o, id) \in Rec
  BY DEF ViewHas, ViewRec, IsOverlay, Consistent, CatalogType, RecOf, Live
<1> QED BY <1>1, GoneIsNoRecord DEF InView

\* The view follows the catalog where that stays.
LEMMA ViewFollows ==
  ASSUME NEW c, NEW d, NEW o, NEW id, InCatalog(c, id) = InCatalog(d, id),
         Consistent(c), Consistent(d)
  PROVE  InView(c, o, id) = InView(d, o, id)
<1>1. id \in Live(c) <=> id \in Live(d)
  BY InCatalogIs
<1>2. id \in Live(c) => RecOf(c, id) = RecOf(d, id)
  BY <1>1 DEF InCatalog
<1> QED BY <1>1, <1>2 DEF InView, ViewHas, ViewRec

\* An op that is taken; an insert() brings an id that nobody has seen.
LEMMA TakenOk ==
  ASSUME NEW c, Consistent(c), NEW o, IsOverlay(o), NEW op \in Op,
         OverlayTakes(c, o, op),
         op.kind = "insert" => InView(c, o, op.id) = Gone,
         NEW p, p = OverlayAfter(c, o, op)
  PROVE  /\ IsOverlay(p) /\ Touched(p) \subseteq Touched(o) \cup {op.id}
         /\ InView(c, p, op.id) = Eff(op, InView(c, o, op.id))
         /\ \A x : x # op.id => InView(c, p, x) = InView(c, o, x)
<1>1. CASE op.kind = "insert"
  <2>1. /\ p.local = Put(o.local, op.id, op.rec) /\ p.erased = o.erased \ {op.id}
        /\ p = [local |-> p.local, erased |-> p.erased]
    BY <1>1 DEF OverlayAfter
  <2>2. IsOverlay(p) /\ Touched(p) \subseteq Touched(o) \cup {op.id}
    BY <1>1, <2>1, OpsAre DEF IsOverlay, Touched, Put
  <2>3. InView(c, p, op.id) = op.rec /\ Eff(op, InView(c, o, op.id)) = op.rec
    BY <1>1, <2>1 DEF InView, ViewHas, ViewRec, Put, Eff
  <2>4. \A x : x # op.id => InView(c, p, x) = InView(c, o, x)
    BY <2>1 DEF InView, ViewHas, ViewRec, Put
  <2> QED BY <2>2, <2>3, <2>4
<1>2. CASE op.kind = "update"
  <2> DEFINE v == ViewRec(c, o, op.id)
             r == Apply(op.delta, v)
  <2>1. ViewHas(c, o, op.id) /\ Accepts(op.delta, v)
    BY <1>2 DEF OverlayTakes
  <2>2. v \in Rec /\ v # Gone /\ InView(c, o, op.id) = v
    BY <2>1, InViewIs
  <2>3. r \in Rec /\ Eff(op, InView(c, o, op.id)) = r
    BY <1>2, <2>1, <2>2, OpsAre, ApplyOk DEF Eff
  <2>4. /\ p.local = Put(o.local, op.id, r) /\ p.erased = o.erased
        /\ p = [local |-> p.local, erased |-> p.erased]
    BY <1>2 DEF OverlayAfter, IsOverlay
  <2> HIDE DEF r, v
  <2>5. op.id \notin o.erased
    BY <2>1 DEF ViewHas
  <2>6. IsOverlay(p) /\ Touched(p) \subseteq Touched(o) \cup {op.id}
    BY <2>3, <2>4, <2>5 DEF IsOverlay, Touched, Put
  <2>7. InView(c, p, op.id) = r
    BY <2>4, <2>5 DEF InView, ViewHas, ViewRec, Put
  <2>8. \A x : x # op.id => InView(c, p, x) = InView(c, o, x)
    BY <2>4 DEF InView, ViewHas, ViewRec, Put
  <2> QED BY <2>3, <2>6, <2>7, <2>8
<1>3. CASE op.kind = "erase"
  <2>1. /\ p.local = Restrict(o.local, DOMAIN o.local \ {op.id})
        /\ p.erased = o.erased \cup {op.id}
        /\ p = [local |-> p.local, erased |-> p.erased]
    BY <1>3 DEF OverlayAfter
  <2>2. IsOverlay(p) /\ Touched(p) \subseteq Touched(o) \cup {op.id}
    BY <2>1 DEF IsOverlay, Touched, Restrict
  <2>3. InView(c, p, op.id) = Gone /\ Eff(op, InView(c, o, op.id)) = Gone
    BY <1>3, <2>1 DEF InView, ViewHas, Eff
  <2>4. \A x : x # op.id => InView(c, p, x) = InView(c, o, x)
    BY <2>1 DEF InView, ViewHas, ViewRec, Restrict
  <2> QED BY <2>2, <2>3, <2>4
<1> QED BY <1>1, <1>2, <1>3, OpsAre

\* An op that is skipped would have had no effect.
LEMMA SkippedOk ==
  ASSUME NEW c, Consistent(c), NEW o, IsOverlay(o), NEW op \in Op,
         ~OverlayTakes(c, o, op)
  PROVE  Eff(op, InView(c, o, op.id)) = InView(c, o, op.id)
<1>1. op.kind # "insert"
  <2>1. op.id \in Id /\ op.id # NoId
    BY OpsAre, TxnBufferAssumption DEF Id, NoId
  <2> QED BY <2>1 DEF OverlayTakes
<1>2. CASE op.kind = "update"
  BY <1>2, InViewIs DEF OverlayTakes, Eff
<1>3. CASE op.kind = "erase"
  BY <1>3, InViewIs DEF OverlayTakes, Eff
<1> QED BY <1>1, <1>2, <1>3, OpsAre

LEMMA RetakenOk ==
  ASSUME NEW c, Consistent(c), NEW o, IsOverlay(o), NEW op \in Op,
         op.kind = "insert" => InView(c, o, op.id) = Gone,
         NEW p, p = Retaken(c, o, op)
  PROVE  /\ IsOverlay(p) /\ Touched(p) \subseteq Touched(o) \cup {op.id}
         /\ InView(c, p, op.id) = Eff(op, InView(c, o, op.id))
         /\ \A x : x # op.id => InView(c, p, x) = InView(c, o, x)
<1>1. CASE OverlayTakes(c, o, op)
  <2>1. p = OverlayAfter(c, o, op)
    BY <1>1 DEF Retaken
  <2> QED BY <1>1, <2>1, TakenOk
<1>2. CASE ~OverlayTakes(c, o, op)
  <2>1. p = o
    BY <1>2 DEF Retaken
  <2> QED BY <1>2, <2>1, SkippedOk
<1> QED BY <1>1, <1>2

-----------------------------------------------------------------------------
(* The rebuild of the overlay, op by op.                                     *)

\* A log's inserts bring ids that neither the catalog nor the log had.
Fresh(c, ops) ==
  \A i \in 1 .. Len(ops) : ops[i].kind = "insert" =>
     /\ ops[i].id \notin Live(c)
     /\ \A j \in 1 .. i - 1 : ops[j].id # ops[i].id

TouchedBy(ops, k) == {ops[j].id : j \in 1 .. k}

\* An insert of such a log finds nothing in the view before it.
LEMMA InsertFindsNothing ==
  ASSUME NEW c, NEW ops, Fresh(c, ops), NEW k \in Nat, k + 1 \in 1 .. Len(ops),
         NEW o, Touched(o) \subseteq TouchedBy(ops, k), ops[k + 1].kind = "insert"
  PROVE  InView(c, o, ops[k + 1].id) = Gone
<1> DEFINE id == ops[k + 1].id
<1>1. id \notin Live(c) /\ \A j \in 1 .. k : ops[j].id # id
  BY DEF Fresh
<1>2. id \notin TouchedBy(ops, k)
  BY <1>1 DEF TouchedBy
<1> HIDE DEF id
<1>3. InView(c, o, id) = InCatalog(c, id)
  BY <1>2, Untouched
<1> QED BY <1>1, <1>3 DEF InCatalog, id

LEMMA RebuildKeeps ==
  ASSUME NEW c, Consistent(c), NEW ops \in Seq(Op), Fresh(c, ops),
         NEW x, x[0] = EmptyOverlay, Chain("rebuild", c, x, ops)
  PROVE  \A k \in 0 .. Len(ops) :
            IsOverlay(x[k]) /\ Touched(x[k]) \subseteq TouchedBy(ops, k)
<1> DEFINE n == Len(ops)
           S == {k \in 0 .. n :
                   IsOverlay(x[k]) /\ Touched(x[k]) \subseteq TouchedBy(ops, k)}
<1>1. 0 \in S
  <2>1. 0 \in 0 .. n /\ IsOverlay(x[0]) /\ Touched(x[0]) \subseteq TouchedBy(ops, 0)
    BY EmptyIsOverlay
  <2> QED BY <2>1
<1>2. ASSUME NEW k \in 0 .. n - 1, k \in S PROVE k + 1 \in S
  <2>1. k + 1 \in 1 .. n /\ k + 1 - 1 = k /\ ops[k + 1] \in Op /\ k \in Nat
    OBVIOUS
  <2>2. x[k + 1] = Retaken(c, x[k], ops[k + 1])
    BY <2>1 DEF Chain, Step
  <2>3. IsOverlay(x[k]) /\ Touched(x[k]) \subseteq TouchedBy(ops, k)
    BY <1>2, Zenon
  <2>4. ops[k + 1].kind = "insert" => InView(c, x[k], ops[k + 1].id) = Gone
    BY <2>1, <2>3, InsertFindsNothing
  <2>5. /\ IsOverlay(x[k + 1])
        /\ Touched(x[k + 1]) \subseteq Touched(x[k]) \cup {ops[k + 1].id}
    BY <2>1, <2>2, <2>3, <2>4, RetakenOk
  <2>6. TouchedBy(ops, k) \cup {ops[k + 1].id} \subseteq TouchedBy(ops, k + 1)
    BY <2>1 DEF TouchedBy
  <2> QED BY <2>1, <2>3, <2>5, <2>6
<1>3. n \in Nat
  OBVIOUS
<1> HIDE DEF S, n
<1>4. \A k \in 0 .. n : k \in S
  BY <1>1, <1>2, <1>3, Reaches
<1> QED BY <1>4 DEF S, n

LEMMA RebuiltOk ==
  ASSUME NEW c, Consistent(c), NEW ops \in Seq(Op), Fresh(c, ops)
  PROVE  IsOverlay(Rebuilt(c, ops)) /\ Touched(Rebuilt(c, ops)) \subseteq Written(ops)
<1> DEFINE n == Len(ops)
<1>1. PICK x : /\ x[0] = EmptyOverlay /\ Chain("rebuild", c, x, ops)
               /\ Rebuilt(c, ops) = x[n]
  BY RebuiltIsChain
<1>2. \A k \in 0 .. n : IsOverlay(x[k]) /\ Touched(x[k]) \subseteq TouchedBy(ops, k)
  BY <1>1, RebuildKeeps
<1>3. n \in 0 .. n /\ TouchedBy(ops, n) = Written(ops)
  BY DEF TouchedBy, Written
<1>4. IsOverlay(x[n]) /\ Touched(x[n]) \subseteq TouchedBy(ops, n)
  BY <1>2, <1>3, Zenon
<1> QED BY <1>1, <1>3, <1>4

LEMMA RebuildTrace ==
  ASSUME NEW c, Consistent(c), NEW ops \in Seq(Op), Fresh(c, ops), NEW id
  PROVE  \E v : /\ v[0] = InCatalog(c, id)
                /\ Trace(v, ops, id)
                /\ v[Len(ops)] = InView(c, Rebuilt(c, ops), id)
<1> DEFINE n == Len(ops)
<1>1. PICK x : /\ x[0] = EmptyOverlay /\ Chain("rebuild", c, x, ops)
               /\ Rebuilt(c, ops) = x[n]
  BY RebuiltIsChain
<1>2. \A k \in 0 .. n : IsOverlay(x[k]) /\ Touched(x[k]) \subseteq TouchedBy(ops, k)
  BY <1>1, RebuildKeeps
<1>3. PICK v : v = [i \in 0 .. n |-> InView(c, x[i], id)]
  OBVIOUS
<1>4. ASSUME NEW i \in 1 .. n
      PROVE  v[i] = IF ops[i].id = id THEN Eff(ops[i], v[i - 1]) ELSE v[i - 1]
  <2>1. i \in 0 .. n /\ i - 1 \in 0 .. n /\ ops[i] \in Op /\ i - 1 \in Nat /\ i - 1 + 1 = i
    OBVIOUS
  <2>2. x[i] = Retaken(c, x[i - 1], ops[i])
    BY <1>1, <2>1 DEF Chain, Step
  <2>3. IsOverlay(x[i - 1]) /\ Touched(x[i - 1]) \subseteq TouchedBy(ops, i - 1)
    BY <1>2, <2>1, Zenon
  <2>4. ops[i].kind = "insert" => InView(c, x[i - 1], ops[i].id) = Gone
    BY <2>1, <2>3, InsertFindsNothing
  <2>5. /\ InView(c, x[i], ops[i].id) = Eff(ops[i], InView(c, x[i - 1], ops[i].id))
        /\ \A y : y # ops[i].id => InView(c, x[i], y) = InView(c, x[i - 1], y)
    BY <2>1, <2>2, <2>3, <2>4, RetakenOk
  <2>6. v[i] = InView(c, x[i], id) /\ v[i - 1] = InView(c, x[i - 1], id)
    BY <1>3, <2>1
  <2> QED BY <2>5, <2>6
<1>5. Trace(v, ops, id)
  BY <1>4 DEF Trace
<1>6. v[0] = InCatalog(c, id) /\ v[n] = InView(c, Rebuilt(c, ops), id)
  BY <1>1, <1>3, EmptyIsOverlay
<1> QED BY <1>5, <1>6

\* The rebuilt overlay shows what a replay of the log would publish.
LEMMA RebuiltIsReplay ==
  ASSUME NEW c, Consistent(c), NEW ops \in Seq(Op), Fresh(c, ops), NEW id
  PROVE  InView(c, Rebuilt(c, ops), id) = InCatalog(Replay(c, ops), id)
<1>1. PICK v : /\ v[0] = InCatalog(c, id)
               /\ Trace(v, ops, id)
               /\ v[Len(ops)] = InView(c, Rebuilt(c, ops), id)
  BY RebuildTrace
<1>2. PICK w : /\ w[0] = InCatalog(c, id)
               /\ Trace(w, ops, id)
               /\ w[Len(ops)] = InCatalog(Replay(c, ops), id)
  BY ReplayTrace
<1>3. v[0] = w[0] /\ Len(ops) \in Nat
  BY <1>1, <1>2
<1>4. v[Len(ops)] = w[Len(ops)]
  BY <1>1, <1>2, <1>3, TracesAgree
<1> QED BY <1>1, <1>2, <1>4

-----------------------------------------------------------------------------
(* The inductive invariant.                                                  *)

\* Ids below nextId are all that the catalog, the log and the overlay know.
TypeInv ==
  /\ nextId \in 1 .. MaxId + 1
  /\ Consistent(catalog) /\ Live(catalog) \subseteq 1 .. nextId - 1
  /\ IsOverlay(Overlay) /\ Touched(Overlay) \subseteq Written(log)
  /\ log \in Seq(Op) /\ Written(log) \subseteq 1 .. nextId - 1
  /\ left \in -1 .. Len(log)

\* While the transaction runs, its view is the replay of its log, and the
\* log's inserts are still of nobody else.
ViewInv ==
  ~Publishing =>
     /\ Fresh(catalog, log)
     /\ \A id \in Id \ clash :
           InView(catalog, Overlay, id) = InCatalog(Replay(catalog, log), id)

IInv == TypeInv /\ ViewInv /\ PublishesWhatWasSeen

LEMMA InitInv == Init => IInv
<1> SUFFICES ASSUME Init PROVE IInv
  OBVIOUS
<1>1. /\ OldTables \in Seq(Op) /\ Len(OldTables) = Old
      /\ \A i \in 1 .. Old : OldTables[i].id = i
  <2> DEFINE n == CHOOSE n \in Name : TRUE
  <2>1. n \in Name
    BY TxnBufferAssumption
  <2> HIDE DEF n
  <2>2. \A i \in 1 .. Old : [kind |-> "insert", id |-> i, rec |-> [name |-> n, parts |-> {}]] \in Op
    BY <2>1, TxnBufferAssumption DEF Op, Id, Rec
  <2>3. OldTables = [i \in 1 .. Old |->
          [kind |-> "insert", id |-> i, rec |-> [name |-> n, parts |-> {}]]]
    BY DEF OldTables, n
  <2>4. Old \in Nat
    BY TxnBufferAssumption
  <2> QED BY <2>2, <2>3, <2>4
<1>2. Written(OldTables) \subseteq 1 .. Old
  BY <1>1 DEF Written
<1>3. Consistent(catalog) /\ Live(catalog) \subseteq 1 .. Old
  <2>1. Live(EmptyCatalog) = {}
    BY DEF Live, EmptyCatalog, EmptyFcn
  <2>2. catalog = Replay(EmptyCatalog, OldTables)
    BY DEF Init
  <2> QED BY <1>1, <1>2, <2>1, <2>2, EmptyConsistent, ReplayConsistent
<1>4. nextId = Old + 1 /\ log = << >> /\ Overlay = EmptyOverlay /\ left = -1
  BY DEF Init, Overlay, EmptyOverlay
<1>5. log \in Seq(Op) /\ Written(log) = {} /\ Len(log) = 0
  BY <1>4 DEF Written
<1>6. TypeInv
  BY <1>3, <1>4, <1>5, EmptyIsOverlay, TxnBufferAssumption DEF TypeInv
<1>7. ViewInv
  <2>1. Fresh(catalog, log)
    BY <1>5 DEF Fresh
  <2>2. \A id : InView(catalog, Overlay, id) = InCatalog(catalog, id)
    BY <1>4, EmptyIsOverlay
  <2>3. Replay(catalog, log) = catalog
    BY <1>4, ReplayNothing
  <2> QED BY <2>1, <2>2, <2>3 DEF ViewInv
<1>8. PublishesWhatWasSeen
  BY <1>4 DEF PublishesWhatWasSeen, Publishing
<1> QED BY <1>6, <1>7, <1>8 DEF IInv

-----------------------------------------------------------------------------
(* The transaction's own steps.                                              *)

LEMMA BufferInv ==
  ASSUME IInv, NEW op \in Op, Buffer(op),
         nextId' \in nextId .. MaxId + 1, op.id \in 1 .. nextId' - 1,
         op.kind = "insert" => op.id \notin Live(catalog) \cup Written(log)
  PROVE  IInv'
<1>1. /\ ~Publishing /\ OverlayTakes(catalog, Overlay, op)
      /\ Overlay' = OverlayAfter(catalog, Overlay, op)
      /\ log' = Append(log, op)
      /\ UNCHANGED << catalog, left, clash >>
  <2> DEFINE o == OverlayAfter(catalog, Overlay, op)
  <2>1. o = [local |-> o.local, erased |-> o.erased]
    <3>1. Overlay = [local |-> Overlay.local, erased |-> Overlay.erased]
      BY DEF Overlay
    <3> QED BY <3>1, OpsAre DEF OverlayAfter
  <2>2. local' = o.local /\ erased' = o.erased
    BY DEF Buffer
  <2> HIDE DEF o
  <2>3. Overlay' = o
    BY <2>1, <2>2 DEF Overlay
  <2> QED BY <2>3 DEF Buffer, o
<1>2. /\ TypeInv /\ Consistent(catalog) /\ IsOverlay(Overlay) /\ log \in Seq(Op)
      /\ Fresh(catalog, log)
      /\ \A id \in Id \ clash :
            InView(catalog, Overlay, id) = InCatalog(Replay(catalog, log), id)
  BY <1>1 DEF IInv, TypeInv, ViewInv
<1>3. op.kind = "insert" => InView(catalog, Overlay, op.id) = Gone
  BY <1>2, Untouched DEF TypeInv, InCatalog
<1>4. /\ IsOverlay(Overlay') /\ Touched(Overlay') \subseteq Touched(Overlay) \cup {op.id}
      /\ InView(catalog, Overlay', op.id) = Eff(op, InView(catalog, Overlay, op.id))
      /\ \A x : x # op.id => InView(catalog, Overlay', x) = InView(catalog, Overlay, x)
  BY <1>1, <1>2, <1>3, TakenOk
<1>5. /\ log' \in Seq(Op) /\ Len(log') = Len(log) + 1 /\ Len(log) \in Nat
      /\ log'[Len(log) + 1] = op /\ \A i \in 1 .. Len(log) : log'[i] = log[i]
  BY <1>1, <1>2
<1>6. Written(log') = Written(log) \cup {op.id}
  <2>1. DOMAIN log = 1 .. Len(log) /\ DOMAIN log' = 1 .. Len(log) + 1
    BY <1>2, <1>5
  <2>2. ASSUME NEW i \in DOMAIN log' PROVE log'[i].id \in Written(log) \cup {op.id}
    BY <1>5, <2>1 DEF Written
  <2>3. ASSUME NEW i \in DOMAIN log PROVE log[i].id \in Written(log')
    <3>1. i \in DOMAIN log' /\ log'[i] = log[i]
      BY <1>5, <2>1
    <3> QED BY <3>1 DEF Written
  <2>4. op.id \in Written(log')
    BY <1>5, <2>1 DEF Written
  <2>5. Written(log') \subseteq Written(log) \cup {op.id}
    BY <2>2 DEF Written
  <2>6. Written(log) \subseteq Written(log')
    BY <2>3 DEF Written
  <2> QED BY <2>4, <2>5, <2>6
<1>7. TypeInv'
  <2>1. Live(catalog') \subseteq 1 .. nextId' - 1 /\ Consistent(catalog')
        /\ nextId' \in 1 .. MaxId + 1
    BY <1>1, <1>2 DEF TypeInv
  <2>2. Touched(Overlay') \subseteq Written(log') /\ Written(log') \subseteq 1 .. nextId' - 1
    BY <1>2, <1>4, <1>6 DEF TypeInv
  <2>3. left' \in -1 .. Len(log')
    BY <1>1, <1>2, <1>5 DEF TypeInv
  <2> QED BY <1>4, <1>5, <2>1, <2>2, <2>3 DEF TypeInv
<1>8. Fresh(catalog', log')
  <2>1. ASSUME NEW i \in 1 .. Len(log'), log'[i].kind = "insert"
        PROVE  /\ log'[i].id \notin Live(catalog)
               /\ \A j \in 1 .. i - 1 : log'[j].id # log'[i].id
    <3>1. CASE i = Len(log) + 1
      BY <1>2, <1>5, <2>1, <3>1 DEF Written
    <3>2. CASE i \in 1 .. Len(log)
      BY <1>2, <1>5, <2>1, <3>2 DEF Fresh
    <3> QED BY <1>5, <3>1, <3>2
  <2> QED BY <1>1, <2>1 DEF Fresh
<1>9. ASSUME NEW id \in Id \ clash
      PROVE  InView(catalog, Overlay', id) = InCatalog(Replay(catalog, log'), id)
  <2> DEFINE c == Replay(catalog, log)
  <2>1. Replay(catalog, log') = Replayed(c, op)
    BY <1>1, <1>2, ReplayAppend
  <2>2. Consistent(c)
    BY <1>2, ReplayConsistent
  <2>3. InView(catalog, Overlay, id) = InCatalog(c, id)
    BY <1>2
  <2> HIDE DEF c
  <2> QED BY <1>4, <2>1, <2>2, <2>3, ReplayedOk
<1>10. ViewInv'
  BY <1>1, <1>8, <1>9 DEF ViewInv
<1>11. PublishesWhatWasSeen'
  BY <1>1 DEF PublishesWhatWasSeen, Publishing
<1> QED BY <1>7, <1>10, <1>11 DEF IInv

\* A prefix of a fresh log is fresh.
LEMMA PrefixOk ==
  ASSUME NEW c, NEW ops \in Seq(Op), Fresh(c, ops), NEW m \in 0 .. Len(ops)
  PROVE  /\ SubSeq(ops, 1, m) \in Seq(Op) /\ Fresh(c, SubSeq(ops, 1, m))
         /\ Written(SubSeq(ops, 1, m)) \subseteq Written(ops)
<1> DEFINE pre == SubSeq(ops, 1, m)
<1>1. pre \in Seq(Op) /\ Len(pre) = m /\ \A i \in 1 .. m : pre[i] = ops[i]
  OBVIOUS
<1> HIDE DEF pre
<1>2. Fresh(c, pre)
  BY <1>1 DEF Fresh
<1>3. Written(pre) \subseteq Written(ops)
  BY <1>1 DEF Written
<1> QED BY <1>1, <1>2, <1>3 DEF pre

LEMMA RollbackInv ==
  ASSUME IInv, NEW m \in 0 .. Len(log), RollbackTo(m)
  PROVE  IInv'
<1>1. /\ ~Publishing /\ log' = SubSeq(log, 1, m) /\ clash' = {}
      /\ UNCHANGED << catalog, nextId, left >>
  BY DEF RollbackTo
<1>2. /\ TypeInv /\ Consistent(catalog) /\ log \in Seq(Op) /\ Fresh(catalog, log)
  BY <1>1 DEF IInv, TypeInv, ViewInv
<1>3. /\ log' \in Seq(Op) /\ Fresh(catalog, log') /\ Written(log') \subseteq Written(log)
  BY <1>1, <1>2, PrefixOk
<1>4. IsOverlay(Rebuilt(catalog, log')) /\ Touched(Rebuilt(catalog, log')) \subseteq Written(log')
  BY <1>2, <1>3, RebuiltOk
<1>5. Overlay' = Rebuilt(catalog, log')
  <2>1. local' = Rebuilt(catalog, log').local /\ erased' = Rebuilt(catalog, log').erased
    BY DEF RollbackTo
  <2> QED BY <1>4, <2>1 DEF IsOverlay, Overlay
<1>6. TypeInv'
  <2>1. left' \in -1 .. Len(log')
    BY <1>1, <1>2, <1>3 DEF TypeInv, Publishing
  <2> QED BY <1>1, <1>2, <1>3, <1>4, <1>5, <2>1 DEF TypeInv
<1>7. \A id : InView(catalog, Overlay', id) = InCatalog(Replay(catalog, log'), id)
  BY <1>2, <1>3, <1>5, RebuiltIsReplay
<1>8. ViewInv'
  BY <1>1, <1>3, <1>7 DEF ViewInv
<1>9. PublishesWhatWasSeen'
  BY <1>1 DEF PublishesWhatWasSeen, Publishing
<1> QED BY <1>6, <1>8, <1>9 DEF IInv

\* ROLLBACK and the end of a COMMIT leave an empty buffer.
LEMMA DiscardedInv ==
  ASSUME IInv, Discarded, UNCHANGED << catalog, nextId >>, left' = -1
  PROVE  IInv'
<1>1. log' = << >> /\ Overlay' = EmptyOverlay
  BY DEF Discarded, Overlay, EmptyOverlay
<1>2. log' \in Seq(Op) /\ Written(log') = {} /\ Len(log') = 0
  BY <1>1 DEF Written
<1>3. TypeInv'
  BY <1>1, <1>2, EmptyIsOverlay DEF IInv, TypeInv
<1>4. ViewInv'
  <2>1. Fresh(catalog', log')
    BY <1>2 DEF Fresh
  <2>2. Replay(catalog', log') = catalog'
    BY <1>1, ReplayNothing
  <2>3. \A id : InView(catalog', Overlay', id) = InCatalog(catalog', id)
    BY <1>1, EmptyIsOverlay
  <2> QED BY <2>1, <2>2, <2>3 DEF ViewInv
<1>5. PublishesWhatWasSeen'
  BY DEF PublishesWhatWasSeen, Publishing
<1> QED BY <1>3, <1>4, <1>5 DEF IInv

-----------------------------------------------------------------------------
(* The COMMIT.                                                               *)

\* The ops of the log that are still to come when k are left.
Rest(ops, k) == SubSeq(ops, Len(ops) - k + 1, Len(ops))

Delivers ==
  \A id \in Written(log) \ clash :
     InCatalog(Replay(catalog, Rest(log, left)), id) = seen[id]

LEMMA RestIs ==
  ASSUME NEW ops \in Seq(Op), NEW k \in 0 .. Len(ops)
  PROVE  /\ Rest(ops, k) \in Seq(Op) /\ Len(Rest(ops, k)) = k
         /\ \A i \in 1 .. k : Rest(ops, k)[i] = ops[Len(ops) - k + i]
<1> DEFINE n == Len(ops)
           first == n - k + 1
<1>1. n \in Nat /\ k \in Nat /\ first \in 1 .. n + 1 /\ n - first + 1 = k
  OBVIOUS
<1>2. \A i \in 1 .. k : first + i - 1 = n - k + i
  BY <1>1
<1> HIDE DEF first
<1>3. /\ SubSeq(ops, first, n) \in Seq(Op)
      /\ Len(SubSeq(ops, first, n)) = k
      /\ \A i \in 1 .. k : SubSeq(ops, first, n)[i] = ops[first + i - 1]
  BY <1>1
<1> QED BY <1>2, <1>3 DEF Rest, first

LEMMA BeginPublishInv ==
  ASSUME IInv, BeginPublish
  PROVE  IInv'
<1>1. /\ ~Publishing /\ left' = Len(log)
      /\ seen' = [id \in Id |-> InView(catalog, Overlay, id)]
      /\ UNCHANGED << catalog, nextId, log, local, erased, clash >>
  BY DEF BeginPublish, buffer
<1>2. /\ TypeInv /\ Consistent(catalog) /\ log \in Seq(Op) /\ Len(log) \in Nat
      /\ \A id \in Id \ clash :
            InView(catalog, Overlay, id) = InCatalog(Replay(catalog, log), id)
  BY <1>1 DEF IInv, TypeInv, ViewInv
<1>3. Overlay' = Overlay /\ Written(log') = Written(log)
  BY <1>1 DEF Overlay
<1>4. TypeInv'
  BY <1>1, <1>2, <1>3 DEF TypeInv
<1>5. ViewInv'
  BY <1>1, <1>2 DEF ViewInv, Publishing
<1>6. Rest(log', left') = log
  <2> DEFINE rest == Rest(log, Len(log))
  <2>1. /\ rest \in Seq(Op) /\ Len(rest) = Len(log)
        /\ \A i \in 1 .. Len(log) : rest[i] = log[Len(log) - Len(log) + i]
    <3>1. Len(log) \in 0 .. Len(log)
      BY <1>2
    <3> QED BY <1>2, <3>1, RestIs
  <2>2. \A i \in 1 .. Len(log) : Len(log) - Len(log) + i = i
    BY <1>2
  <2> HIDE DEF rest
  <2>3. \A i \in 1 .. Len(log) : rest[i] = log[i]
    BY <2>1, <2>2
  <2>4. rest = log
    BY <1>2, <2>1, <2>3
  <2> QED BY <1>1, <2>4 DEF rest
<1>7. Written(log) \subseteq Id
  BY <1>2, TxnBufferAssumption DEF TypeInv, Id
<1>8. Delivers'
  <2>1. ASSUME NEW id \in Written(log) \ clash
        PROVE  InCatalog(Replay(catalog, log), id) = seen'[id]
    BY <1>1, <1>2, <1>7
  <2>2. ASSUME NEW id \in Written(log') \ clash'
        PROVE  InCatalog(Replay(catalog', Rest(log', left')), id) = seen'[id]
    BY <1>1, <1>3, <1>6, <2>1
  <2> QED BY <2>2 DEF Delivers
<1>9. PublishesWhatWasSeen'
  BY <1>8 DEF PublishesWhatWasSeen, Delivers, Rest
<1> QED BY <1>4, <1>5, <1>9 DEF IInv

LEMMA PublishOpInv ==
  ASSUME IInv, PublishOp
  PROVE  IInv'
<1>1. /\ left > 0 /\ catalog' = Replayed(catalog, NextOp) /\ left' = left - 1
      /\ UNCHANGED << nextId, log, local, erased, clash, seen >>
  BY DEF PublishOp, buffer
<1>2. TypeInv /\ Publishing /\ Publishing'
  BY <1>1 DEF IInv, TypeInv, Publishing
<1>3. /\ NextOp \in Op /\ NextOp.id \in Written(log) /\ NextOp = Rest(log, left)[1]
  <2>1. /\ Len(log) - left + 1 \in 1 .. Len(log) /\ 1 \in 1 .. left /\ left \in 0 .. Len(log)
        /\ log \in Seq(Op)
    BY <1>1, <1>2 DEF TypeInv
  <2>2. Rest(log, left)[1] = log[Len(log) - left + 1]
    BY <2>1, RestIs
  <2> QED BY <2>1, <2>2 DEF NextOp, Written
<1>4. Consistent(catalog') /\ Live(catalog') \subseteq Live(catalog) \cup {NextOp.id}
  BY <1>1, <1>2, <1>3, ReplayedOk DEF TypeInv
<1>5. Overlay' = Overlay /\ Written(log') = Written(log)
  BY <1>1 DEF Overlay
<1>6. TypeInv'
  <2>1. left' \in -1 .. Len(log')
    BY <1>1, <1>2 DEF TypeInv
  <2>2. Live(catalog') \subseteq 1 .. nextId' - 1
    BY <1>1, <1>2, <1>3, <1>4 DEF TypeInv
  <2> QED BY <1>1, <1>2, <1>4, <1>5, <2>1, <2>2 DEF TypeInv
<1>7. ViewInv'
  BY <1>2 DEF ViewInv
<1>8. Replay(catalog, Rest(log, left)) = Replay(catalog', Rest(log', left'))
  <2> DEFINE more == Rest(log, left)
             rest == Rest(log, left')
  <2>1. /\ log \in Seq(Op) /\ Len(log) \in Nat /\ left \in 0 .. Len(log)
        /\ left' \in 0 .. Len(log) /\ left = left' + 1 /\ left' \in Nat
    BY <1>1, <1>2 DEF TypeInv
  <2>2. /\ more \in Seq(Op) /\ Len(more) = left
        /\ \A i \in 1 .. left : more[i] = log[Len(log) - left + i]
    BY <2>1, RestIs
  <2>3. /\ rest \in Seq(Op) /\ Len(rest) = left'
        /\ \A i \in 1 .. left' : rest[i] = log[Len(log) - left' + i]
    BY <2>1, RestIs
  <2> HIDE DEF more, rest
  <2>4. ASSUME NEW i \in 1 .. left'
        PROVE  rest[i] = more[i + 1]
    <3>1. ASSUME NEW l \in Int, NEW k \in Int, NEW m \in Int, k = m + 1
          PROVE  l - m + i = l - k + (i + 1)
      BY <3>1
    <3>2. Len(log) - left' + i = Len(log) - left + (i + 1)
      BY <2>1, <3>1
    <3>3. ASSUME NEW k \in Nat, NEW m, k = m + 1, m \in Nat, i \in 1 .. m
          PROVE  i + 1 \in 1 .. k
      BY <3>3
    <3>4. left \in Nat /\ left = left' + 1 /\ left' \in Nat
      BY <1>1, <1>2 DEF TypeInv
    <3>5. i + 1 \in 1 .. left
      BY <3>3, <3>4
    <3> QED BY <2>2, <2>3, <3>2, <3>5
  <2>5. Len(more) = Len(rest) + 1 /\ \A i \in 1 .. Len(rest) : rest[i] = more[i + 1]
    BY <2>1, <2>2, <2>3, <2>4
  <2>6. Replay(catalog, more) = Replay(Replayed(catalog, more[1]), rest)
    BY <2>2, <2>3, <2>5, ReplayFirst
  <2> QED BY <1>1, <1>3, <2>6 DEF more, rest
<1>9. Delivers
  BY <1>2 DEF IInv, PublishesWhatWasSeen, Delivers, Rest
<1>10. Delivers'
  BY <1>1, <1>5, <1>8, <1>9 DEF Delivers
<1>11. PublishesWhatWasSeen'
  BY <1>10 DEF PublishesWhatWasSeen, Delivers, Rest
<1> QED BY <1>6, <1>7, <1>11 DEF IInv

LEMMA EndPublishInv ==
  ASSUME IInv, EndPublish
  PROVE  IInv'
BY DiscardedInv DEF EndPublish

LEMMA DiscardInv ==
  ASSUME IInv, Discard
  PROVE  IInv'
<1>1. left = -1
  BY DEF IInv, TypeInv, Discard, Publishing
<1> QED BY <1>1, DiscardedInv DEF Discard

-----------------------------------------------------------------------------
(* The other workers: a catalog method on an id, whose records the log may   *)
(* have written (a clash) or not.                                            *)

LEMMA RivalInv ==
  ASSUME IInv, NEW op \in Op, RivalChanges(op.id, Replayed(catalog, op)),
         nextId' \in nextId .. MaxId + 1,
         op.kind = "insert" => op.id = nextId /\ nextId' = nextId + 1
  PROVE  IInv'
<1> DEFINE c == Replayed(catalog, op)
<1>1. /\ catalog' = c
      /\ clash' = IF op.id \in Written(log) THEN clash \cup {op.id} ELSE clash
      /\ UNCHANGED << log, local, erased, left, seen >>
  BY DEF RivalChanges, buffer
<1>2. /\ TypeInv /\ Consistent(catalog) /\ log \in Seq(Op)
  BY DEF IInv, TypeInv
<1>3. /\ Consistent(c)
      /\ Live(c) \subseteq Live(catalog) \cup {op.id}
      /\ op.kind # "insert" => Live(c) \subseteq Live(catalog)
      /\ \A x : x # op.id => InCatalog(c, x) = InCatalog(catalog, x)
  BY <1>2, ReplayedOk
<1>4. Overlay' = Overlay /\ Written(log') = Written(log)
  BY <1>1 DEF Overlay
<1> HIDE DEF c
<1>5. Live(c) \subseteq 1 .. nextId' - 1
  <2>1. CASE op.kind = "insert"
    BY <1>2, <1>3, <2>1 DEF TypeInv
  <2>2. CASE op.kind # "insert"
    BY <1>2, <1>3, <2>2 DEF TypeInv
  <2> QED BY <2>1, <2>2
<1>6. TypeInv'
  <2>1. nextId' \in 1 .. MaxId + 1 /\ Written(log) \subseteq 1 .. nextId' - 1
    BY <1>2 DEF TypeInv
  <2> QED BY <1>1, <1>2, <1>3, <1>4, <1>5, <2>1 DEF TypeInv
\* What nobody clashed over is as it was, or is none of the log's.
<1>7. ASSUME NEW id, id \notin clash', id \in Written(log)
      PROVE  id \notin clash /\ InCatalog(c, id) = InCatalog(catalog, id)
  BY <1>1, <1>3, <1>7
<1>8. ASSUME ~Publishing
      PROVE  /\ Fresh(c, log)
             /\ \A id \in Id \ clash' :
                   InView(c, Overlay, id) = InCatalog(Replay(c, log), id)
  <2>1. /\ Fresh(catalog, log)
        /\ \A id \in Id \ clash :
              InView(catalog, Overlay, id) = InCatalog(Replay(catalog, log), id)
    BY <1>8 DEF IInv, ViewInv
  <2>2. \A i \in 1 .. Len(log) : log[i].id \in Written(log) /\ log[i].id \in 1 .. nextId - 1
    BY <1>2 DEF TypeInv, Written
  <2>3. Fresh(c, log)
    <3>1. ASSUME NEW x \in 1 .. nextId - 1, x \notin Live(catalog)
          PROVE  x \notin Live(c)
      BY <1>2, <1>3, <3>1 DEF TypeInv
    <3> QED BY <2>1, <2>2, <3>1 DEF Fresh
  <2>4. ASSUME NEW id \in Id \ clash'
        PROVE  InView(c, Overlay, id) = InCatalog(Replay(c, log), id)
    <3>1. CASE id \notin Written(log)
      <4>1. id \notin Touched(Overlay)
        BY <1>2, <3>1 DEF TypeInv
      <4>2. InView(c, Overlay, id) = InCatalog(c, id)
        BY <4>1, Untouched
      <4>3. InCatalog(Replay(c, log), id) = InCatalog(c, id)
        BY <1>2, <1>3, <3>1, ReplayLeaves
      <4> QED BY <4>2, <4>3
    <3>2. CASE id \in Written(log)
      <4>1. id \notin clash /\ InCatalog(c, id) = InCatalog(catalog, id)
        BY <1>7, <3>2
      <4>2. InCatalog(Replay(c, log), id) = InCatalog(Replay(catalog, log), id)
        BY <1>2, <1>3, <4>1, ReplaysAgree
      <4>3. InView(c, Overlay, id) = InView(catalog, Overlay, id)
        BY <1>2, <1>3, <4>1, ViewFollows
      <4> QED BY <2>1, <4>1, <4>2, <4>3
    <3> QED BY <3>1, <3>2
  <2> QED BY <2>3, <2>4
<1>9. ViewInv'
  BY <1>1, <1>4, <1>8 DEF ViewInv, Publishing
<1>10. PublishesWhatWasSeen'
  <2>1. ASSUME Publishing
        PROVE  Delivers'
    <3>1. Delivers
      BY <2>1 DEF IInv, PublishesWhatWasSeen, Delivers, Rest
    <3>2. Rest(log, left) \in Seq(Op)
      BY <1>2, <2>1, RestIs DEF TypeInv, Publishing
    <3>3. ASSUME NEW id \in Written(log) \ clash'
          PROVE  InCatalog(Replay(c, Rest(log, left)), id) = seen[id]
      <4>1. id \notin clash /\ InCatalog(c, id) = InCatalog(catalog, id)
        BY <1>7
      <4>2. InCatalog(Replay(c, Rest(log, left)), id)
              = InCatalog(Replay(catalog, Rest(log, left)), id)
        BY <1>2, <1>3, <3>2, <4>1, ReplaysAgree
      <4> QED BY <3>1, <4>1, <4>2 DEF Delivers
    <3> QED BY <1>1, <1>4, <3>3 DEF Delivers
  <2>2. Publishing' <=> Publishing
    BY <1>1 DEF Publishing
  <2> QED BY <2>1, <2>2 DEF PublishesWhatWasSeen, Delivers, Rest
<1> QED BY <1>6, <1>9, <1>10 DEF IInv

-----------------------------------------------------------------------------
(* Every step.                                                               *)

LEMMA TxnInsertInv ==
  ASSUME IInv, NEW n \in Name, TxnInsert(n)
  PROVE  IInv'
<1> DEFINE op == [kind |-> "insert", id |-> nextId, rec |-> [name |-> n, parts |-> {}]]
<1>1. nextId \in 1 .. MaxId /\ nextId' = nextId + 1 /\ Buffer(op)
  BY TxnBufferAssumption DEF IInv, TypeInv, TxnInsert
<1>2. op \in Op
  BY <1>1 DEF Op, Id, Rec
<1>3. nextId \notin Live(catalog) \cup Written(log)
  BY <1>1 DEF IInv, TypeInv
<1>4. op.id = nextId /\ nextId' \in nextId .. MaxId + 1 /\ op.id \in 1 .. nextId' - 1
  BY <1>1, TxnBufferAssumption
<1> HIDE DEF op
<1> QED BY <1>1, <1>2, <1>3, <1>4, BufferInv

LEMMA TxnChangeInv ==
  ASSUME IInv, NEW op \in Op, op.kind # "insert", Buffer(op), UNCHANGED nextId
  PROVE  IInv'
<1>1. OverlayTakes(catalog, Overlay, op)
  BY DEF Buffer
<1>2. ViewHas(catalog, Overlay, op.id)
  BY <1>1, OpsAre DEF OverlayTakes
<1>3. op.id \in Live(catalog) \cup Written(log)
  BY <1>2 DEF ViewHas, IInv, TypeInv, Touched
<1>4. nextId' \in nextId .. MaxId + 1 /\ op.id \in 1 .. nextId' - 1
  BY <1>3 DEF IInv, TypeInv
<1> QED BY <1>4, BufferInv

LEMMA RivalInsertInv ==
  ASSUME IInv, NEW n \in Name, RivalInsert(n)
  PROVE  IInv'
<1> DEFINE op == [kind |-> "insert", id |-> nextId, rec |-> [name |-> n, parts |-> {}]]
<1>1. nextId \in 1 .. MaxId /\ nextId' = nextId + 1
  BY TxnBufferAssumption DEF IInv, TypeInv, RivalInsert
<1>2. op \in Op
  BY <1>1 DEF Op, Id, Rec
<1>3. RivalChanges(op.id, Replayed(catalog, op))
  BY DEF RivalInsert, Replayed
<1>4. op.id = nextId /\ nextId' \in nextId .. MaxId + 1
  BY <1>1, TxnBufferAssumption
<1> HIDE DEF op
<1> QED BY <1>1, <1>2, <1>3, <1>4, RivalInv

LEMMA RivalChangeInv ==
  ASSUME IInv, NEW op \in Op, op.kind # "insert",
         RivalChanges(op.id, Replayed(catalog, op)), UNCHANGED nextId
  PROVE  IInv'
<1>1. nextId' \in nextId .. MaxId + 1
  BY DEF IInv, TypeInv
<1> QED BY <1>1, RivalInv

LEMMA ChangesAreOps ==
  /\ \A id \in Id, d \in Delta : [kind |-> "update", id |-> id, delta |-> d] \in Op
  /\ \A id \in Id : [kind |-> "erase", id |-> id] \in Op
BY DEF Op

LEMMA NextInv ==
  ASSUME IInv, [Next]_vars
  PROVE  IInv'
<1>1. CASE \E n \in Name : TxnInsert(n)
  BY <1>1, TxnInsertInv
<1>2. ASSUME NEW id \in Id, NEW d \in Delta, TxnUpdate(id, d) PROVE IInv'
  <2> DEFINE op == [kind |-> "update", id |-> id, delta |-> d]
  <2>1. op \in Op /\ op.kind # "insert" /\ Buffer(op) /\ UNCHANGED nextId
    BY <1>2, ChangesAreOps DEF TxnUpdate
  <2> HIDE DEF op
  <2> QED BY <2>1, TxnChangeInv
<1>3. ASSUME NEW id \in Id, TxnErase(id) PROVE IInv'
  <2> DEFINE op == [kind |-> "erase", id |-> id]
  <2>1. op \in Op /\ op.kind # "insert" /\ Buffer(op) /\ UNCHANGED nextId
    BY <1>3, ChangesAreOps DEF TxnErase
  <2> HIDE DEF op
  <2> QED BY <2>1, TxnChangeInv
<1>4. CASE \E m \in 0 .. Len(log) : RollbackTo(m)
  BY <1>4, RollbackInv
<1>5. CASE Discard
  BY <1>5, DiscardInv
<1>6. CASE BeginPublish
  BY <1>6, BeginPublishInv
<1>7. CASE PublishOp
  BY <1>7, PublishOpInv
<1>8. CASE EndPublish
  BY <1>8, EndPublishInv
<1>9. CASE \E n \in Name : RivalInsert(n)
  BY <1>9, RivalInsertInv
<1>10. ASSUME NEW id \in Id, NEW d \in Delta, RivalUpdate(id, d) PROVE IInv'
  <2> DEFINE op == [kind |-> "update", id |-> id, delta |-> d]
  <2>1. /\ op \in Op /\ op.kind # "insert" /\ UNCHANGED nextId
        /\ RivalChanges(op.id, Replayed(catalog, op))
    BY <1>10, ChangesAreOps DEF RivalUpdate, Replayed
  <2> HIDE DEF op
  <2> QED BY <2>1, RivalChangeInv
<1>11. ASSUME NEW id \in Id, RivalErase(id) PROVE IInv'
  <2> DEFINE op == [kind |-> "erase", id |-> id]
  <2>1. /\ op \in Op /\ op.kind # "insert" /\ UNCHANGED nextId
        /\ RivalChanges(op.id, Replayed(catalog, op))
    BY <1>11, ChangesAreOps DEF RivalErase, Replayed
  <2> HIDE DEF op
  <2> QED BY <2>1, RivalChangeInv
<1>12. CASE UNCHANGED vars
  <2>1. UNCHANGED << catalog, nextId, log, local, erased, left, clash, seen >>
    BY <1>12 DEF vars, buffer
  <2>2. TypeInv'
    BY <2>1 DEF IInv, TypeInv, Overlay
  <2>3. ViewInv'
    BY <2>1 DEF IInv, ViewInv, Overlay, Publishing
  <2>4. PublishesWhatWasSeen'
    BY <2>1 DEF IInv, PublishesWhatWasSeen, Publishing
  <2> QED BY <2>2, <2>3, <2>4 DEF IInv
<1> QED
  BY <1>1, <1>2, <1>3, <1>4, <1>5, <1>6, <1>7, <1>8, <1>9, <1>10, <1>11, <1>12 DEF Next

\* The inductive invariant of the open transaction and of its COMMIT.
THEOREM IInvInvariant == Spec => []IInv
BY InitInv, NextInv, PTL DEF Spec

-----------------------------------------------------------------------------
(* The properties.                                                           *)

LEMMA SnapshotIsLive ==
  ASSUME NEW c, Consistent(c)
  PROVE  SnapshotIds(c) = Live(c)
<1>1. DOMAIN c.sampling = 1 .. Len(c.sampling)
  BY DEF Consistent, CatalogType
<1>2. \A x \in SnapshotIds(c) : x \in Live(c)
  BY <1>1 DEF SnapshotIds, Consistent, Sampled
<1>3. \A x \in Live(c) : x \in SnapshotIds(c)
  BY <1>1 DEF SnapshotIds, Consistent, Sampled
<1> QED BY <1>2, <1>3

LEMMA TheReadsAgree ==
  ASSUME TypeInv
  PROVE  ReadsAgree
<1> DEFINE o == Overlay
<1>1. /\ Consistent(catalog) /\ IsOverlay(o)
  BY DEF TypeInv
<1> HIDE DEF o
<1>2. ASSUME NEW n \in Name, NEW id \in ViewByName(catalog, o, n)
      PROVE  ViewHas(catalog, o, id) /\ ViewRec(catalog, o, id).name = n
  <2>1. CASE {x \in DOMAIN o.local : o.local[x].name = n} # {}
    <3>1. id \in DOMAIN o.local /\ o.local[id].name = n
      BY <1>2, <2>1 DEF ViewByName
    <3> QED BY <1>1, <3>1 DEF IsOverlay, ViewHas, ViewRec
  <2>2. CASE {x \in DOMAIN o.local : o.local[x].name = n} = {}
    <3>1. n \in DOMAIN catalog.names /\ id = catalog.names[n]
          /\ id \notin o.erased /\ id \notin DOMAIN o.local
      BY <1>2, <2>2 DEF ViewByName
    <3>2. id \in Live(catalog) /\ RecOf(catalog, id).name = n
      BY <1>1, <3>1 DEF Consistent, Named, RecOf
    <3> QED BY <3>1, <3>2 DEF ViewHas, ViewRec
  <2> QED BY <2>1, <2>2
<1>3. ASSUME NEW id
      PROVE  id \in ViewIds(catalog, o) <=> ViewHas(catalog, o, id)
  BY <1>1, SnapshotIsLive DEF IsOverlay, ViewIds, ViewHas
<1> QED BY <1>2, <1>3 DEF ReadsAgree, o

\* The open transaction's merged view (TxnBuffer, CatalogView) shows what a
\* COMMIT at this moment would publish, for every object nobody else changed
\* behind its back; and its reads by id, by name and of all agree.
THEOREM TheViewIsReplay == Spec => []ViewIsReplay
<1>1. IInv => ViewIsReplay
  BY TheReadsAgree DEF IInv, ViewInv, ViewIsReplay
<1> QED BY <1>1, IInvInvariant, PTL

\* publishAll() delivers what the transaction saw when it committed, whatever
\* the other workers change between two of its ops.
THEOREM WhatWasSeenIsPublished == Spec => []PublishesWhatWasSeen
<1>1. IInv => PublishesWhatWasSeen
  BY DEF IInv
<1> QED BY <1>1, IInvInvariant, PTL
=============================================================================

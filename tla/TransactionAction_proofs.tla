---------------------- MODULE TransactionAction_proofs ----------------------
(***************************************************************************)
(* Proofs about TransactionAction: for both server families and any number *)
(* of transactions and sub-actions, the op-log mirrors the server's open   *)
(* transaction, the catalog shows only what is durable, no commit in part  *)
(* but while it is being published, and each outcome is truthful.          *)
(***************************************************************************)
EXTENDS TransactionAction, SequenceTheorems, TLAPS

-----------------------------------------------------------------------------
(* Sequences. *)

LEMMA RangeOfAppend ==
  ASSUME NEW S, NEW s \in Seq(S), NEW e \in S
  PROVE  /\ Append(s, e) \in Seq(S)
         /\ Range(Append(s, e)) = Range(s) \cup {e}
<1> DEFINE t == Append(s, e)
<1>1. /\ t \in Seq(S) /\ DOMAIN s = 1 .. Len(s) /\ Len(s) \in Nat
      /\ DOMAIN t = 1 .. Len(s) + 1 /\ t[Len(s) + 1] = e
      /\ \A i \in 1 .. Len(s) : t[i] = s[i]
  OBVIOUS
<1> HIDE DEF t
<1>2. /\ Len(s) + 1 \in DOMAIN t /\ DOMAIN s \subseteq DOMAIN t
      /\ \A i \in DOMAIN t : i \in DOMAIN s \/ i = Len(s) + 1
  BY <1>1
<1>3. Range(t) = Range(s) \cup {e}
  BY <1>1, <1>2 DEF Range
<1>4. QED
  BY <1>1, <1>3 DEF t

LEMMA RangeOfConcat ==
  ASSUME NEW S, NEW s \in Seq(S), NEW t \in Seq(S)
  PROVE  /\ s \o t \in Seq(S)
         /\ Range(s \o t) = Range(s) \cup Range(t)
<1>1. s \o t \in Seq(S) /\ Len(s \o t) = Len(s) + Len(t)
  OBVIOUS
<1>2. \A i \in 1 .. Len(s) : (s \o t)[i] = s[i]
  OBVIOUS
<1>3. \A i \in 1 .. Len(t) : (s \o t)[Len(s) + i] = t[i]
  OBVIOUS
<1>4. \A i \in 1 .. Len(s \o t) \ 1 .. Len(s) : i - Len(s) \in 1 .. Len(t)
  BY <1>1
<1>5. Range(s \o t) \subseteq Range(s) \cup Range(t)
  <2> SUFFICES ASSUME NEW i \in 1 .. Len(s \o t)
               PROVE  (s \o t)[i] \in Range(s) \cup Range(t)
    BY <1>1 DEF Range
  <2>1. CASE i \in 1 .. Len(s)
    BY <2>1, <1>2 DEF Range
  <2>2. CASE i \notin 1 .. Len(s)
    BY <2>2, <1>1, <1>3, <1>4 DEF Range
  <2>3. QED
    BY <2>1, <2>2
<1>6. Range(s) \cup Range(t) \subseteq Range(s \o t)
  <2>1. ASSUME NEW i \in 1 .. Len(s)
        PROVE  s[i] \in Range(s \o t)
    BY <1>1, <1>2 DEF Range
  <2>2. ASSUME NEW i \in 1 .. Len(t)
        PROVE  t[i] \in Range(s \o t)
    <3>1. Len(s) + i \in 1 .. Len(s \o t)
      BY <1>1
    <3>2. QED
      BY <3>1, <1>1, <1>3 DEF Range
  <2>3. QED
    <3> SUFFICES ASSUME NEW e \in Range(s) \cup Range(t)
                 PROVE  e \in Range(s \o t)
      OBVIOUS
    <3>1. CASE e \in Range(s)
      <4>1. PICK i \in 1 .. Len(s) : e = s[i]
        BY <3>1 DEF Range
      <4>2. QED
        BY <4>1, <2>1
    <3>2. CASE e \in Range(t)
      <4>1. PICK i \in 1 .. Len(t) : e = t[i]
        BY <3>2 DEF Range
      <4>2. QED
        BY <4>1, <2>2
    <3>3. QED
      BY <3>1, <3>2
<1>7. QED
  BY <1>1, <1>5, <1>6

LEMMA PrefixTyped ==
  ASSUME NEW S, NEW s \in Seq(S), NEW n \in Nat, n <= Len(s)
  PROVE  /\ SubSeq(s, 1, n) \in Seq(S) /\ Len(SubSeq(s, 1, n)) = n
         /\ \A i \in 1 .. n : SubSeq(s, 1, n)[i] = s[i]
         /\ Range(SubSeq(s, 1, n)) \subseteq Range(s)
<1>1. /\ SubSeq(s, 1, n) \in Seq(S) /\ Len(SubSeq(s, 1, n)) = n
      /\ \A i \in 1 .. n : SubSeq(s, 1, n)[i] = s[i]
  OBVIOUS
<1>2. QED
  BY <1>1 DEF Range

LEMMA PrefixOfPrefix ==
  ASSUME NEW S, NEW s \in Seq(S), NEW n \in Nat, n <= Len(s),
         NEW m \in Nat, m <= n
  PROVE  SubSeq(SubSeq(s, 1, n), 1, m) = SubSeq(s, 1, m)
OBVIOUS

LEMMA PrefixOfConcat ==
  ASSUME NEW S, NEW s \in Seq(S), NEW t \in Seq(S), NEW n \in Nat, n <= Len(s)
  PROVE  SubSeq(s \o t, 1, n) = SubSeq(s, 1, n)
<1>1. /\ s \o t \in Seq(S) /\ Len(s \o t) = Len(s) + Len(t)
      /\ \A i \in 1 .. n : (s \o t)[i] = s[i]
  OBVIOUS
<1>2. QED
  BY <1>1

LEMMA PrefixOfAppend ==
  ASSUME NEW S, NEW s \in Seq(S), NEW e \in S, NEW n \in Nat, n <= Len(s)
  PROVE  SubSeq(Append(s, e), 1, n) = SubSeq(s, 1, n)
OBVIOUS

LEMMA EmptyRange == Range(<< >>) = {}
BY DEF Range

-----------------------------------------------------------------------------
(* The inductive invariant, by what its parts are about. *)

Statements == {"table", "index", "part", "write", "row", "set", "reset",
               "begin", "commit", "raise", "throw"}
Ends      == {"committed", "rolledBackError", "rolledBackIntentional"}
Answers   == {"ok", "gone", "error", "aborted"}
Savepoint == [name : Nat, mark : Nat]
Session   == [up : BOOLEAN, tx : {"none", "open", "failed"}, work : Seq(Item),
              sps : Seq(Savepoint)]

\* Where execute() is between BEGIN and its ways out.
Body == {"draw", "savepoint", "run", "ownRollback", "caught", "rewind",
         "implicit", "closeDdl"}

ServerTypes ==
  /\ session \in Session /\ commits \in SUBSET SUBSET Item
  /\ catalog \in SUBSET Item /\ mine \in SUBSET Item
  /\ items \in Nat /\ lost \in BOOLEAN

ClientTypes ==
  /\ config \in Config
  /\ pc \in Body \cup {"loop", "publish", "leave"}
  /\ inTrx \in BOOLEAN /\ armed \in BOOLEAN
  /\ log \in Seq(Item) /\ savepoints \in Seq(Savepoint)
  /\ spCounter \in Nat /\ subsLeft \in Nat
  /\ branch \in {"none", "mirror", "tail", "savepoint", "abort"}
  /\ prog \in Seq(Statements) /\ made \in Seq(Item) /\ Len(made) <= 1
  /\ ownGuard \in BOOLEAN /\ sent \in BOOLEAN
  /\ exc \in (Answers \ {"ok"}) \cup {"none", "action", "other"}
  /\ end \in Ends /\ outcomes \in Seq(Ends) /\ begun \in Nat

TypeInv == ServerTypes /\ ClientTypes

\* A session without a transaction holds no work, and a lost one nothing.
SessionInv ==
  /\ session.tx = "none" => session.work = << >> /\ session.sps = << >>
  /\ ~session.up => session.tx = "none" /\ lost
  /\ session.tx = "failed" => TransactionalDDL

-----------------------------------------------------------------------------
(* What the server's answers mean. *)

Untouched == session' = session /\ commits' = commits
Poisoned  == /\ TransactionalDDL /\ session.tx = "open" /\ commits' = commits
             /\ session' = [session EXCEPT !.tx = "failed"]
Cancelled == session' = NewSession /\ commits' = commits
Kept      == /\ session.tx = "open" /\ session' = NewSession
             /\ commits' = Committed(commits)
Dies      == session' = DeadSession /\ lost'

LEMMA TakenTyped ==
  ASSUME ServerTypes, NEW r, Takes(r)
  PROVE  /\ session' = r.session /\ commits' = r.commits
         /\ r.answer = "gone" => lost'
         /\ r.answer # "gone" => lost' = lost
BY DEF ServerTypes, Takes

LEMMA RefusedMeans ==
  ASSUME ServerTypes, NEW r \in Refused, Takes(r)
  PROVE  /\ r.answer \in {"error", "aborted"} /\ lost' = lost
         /\ \/ Untouched /\ (session.tx = "open" => ~TransactionalDDL)
            \/ Poisoned
BY TakenTyped DEF ServerTypes, Session, Refused, Result, Untouched, Poisoned

LEMMA ServedMeans ==
  ASSUME ServerTypes, NEW R, NEW r \in Served(R), Takes(r)
  PROVE  \/ session.up /\ r \in R
         \/ r.answer = "gone" /\ Dies /\ commits' = commits
BY TakenTyped DEF ServerTypes, Session, Served, Gone, Result, Dies

LEMMA CommitMeans ==
  ASSUME ServerTypes, NEW r \in CommitResults, Takes(r)
  PROVE  \/ session.up /\ r.answer = "ok" /\ lost' = lost
              /\ IF session.tx = "open" THEN Kept ELSE Cancelled
         \/ session.up /\ r.answer = "error" /\ lost' = lost /\ Cancelled
              /\ session.tx = "open"
         \/ r.answer = "gone" /\ Dies
              /\ commits' \in {commits, Committed(commits)}
<1>1. CASE session.tx = "open"
  BY <1>1, TakenTyped, ServedMeans
     DEF CommitResults, Gone, Result, Kept, Cancelled, Dies
<1>2. CASE session.tx # "open"
  BY <1>2, TakenTyped, ServedMeans
     DEF CommitResults, Gone, Result, Kept, Cancelled, Dies
<1>3. QED
  BY <1>1, <1>2

LEMMA RollbackMeans ==
  ASSUME ServerTypes, NEW r \in RollbackResults, Takes(r)
  PROVE  \/ session.up /\ r.answer = "ok" /\ lost' = lost /\ Cancelled
         \/ r.answer = "gone" /\ Dies /\ commits' = commits
BY TakenTyped, ServedMeans DEF RollbackResults, Result, Cancelled, Dies

LEMMA SetMeans ==
  ASSUME ServerTypes, NEW r \in SetResults, Takes(r)
  PROVE  \/ session.up /\ r.answer = "ok" /\ lost' = lost /\ Untouched
              /\ session.tx # "failed"
         \/ session.up /\ session.tx = "failed" /\ r.answer \in {"error", "aborted"}
              /\ lost' = lost /\ Untouched
         \/ r.answer = "gone" /\ Dies /\ commits' = commits
<1>1. CASE session.tx = "failed"
  BY <1>1, TakenTyped, ServedMeans, RefusedMeans DEF SetResults, Poisoned
<1>2. CASE session.tx # "failed"
  BY <1>2, TakenTyped, ServedMeans DEF SetResults, Result, Untouched
<1>3. QED
  BY <1>1, <1>2

LEMMA PartMeans ==
  ASSUME ServerTypes, NEW r \in PartResults, Takes(r)
  PROVE  \/ session.up /\ r.answer = "ok" /\ lost' = lost /\ Untouched
              /\ session.tx # "failed"
         \/ session.up /\ r.answer \in {"error", "aborted"} /\ lost' = lost
              /\ (Untouched \/ Poisoned)
         \/ r.answer = "gone" /\ Dies /\ commits' = commits
<1>1. CASE session.tx = "failed"
  BY <1>1, TakenTyped, ServedMeans, RefusedMeans DEF When, PartResults, Poisoned
<1>2. CASE session.tx # "failed"
  BY <1>2, TakenTyped, ServedMeans, RefusedMeans DEF When, PartResults, Result, Untouched
<1>3. QED
  BY <1>1, <1>2

\* Works(item): the statement's work joins the transaction's.
Works(item) == /\ session.tx = "open" /\ commits' = commits
               /\ session' = [session EXCEPT !.work = Append(@, item)]
\* Alone(item): it is a transaction of its own.
Alone(item) == /\ session.tx = "none" /\ session' = session
               /\ commits' = commits \cup {{item}}

LEMMA RowMeans ==
  ASSUME ServerTypes, NEW item, NEW r \in RowResults(item), Takes(r)
  PROVE  \/ session.up /\ r.answer = "ok" /\ lost' = lost
              /\ (Works(item) \/ Alone(item))
         \/ session.up /\ r.answer \in {"error", "aborted"} /\ lost' = lost
              /\ (Untouched \/ Poisoned \/ (Cancelled /\ ~TransactionalDDL))
         \/ r.answer = "gone" /\ Dies
              /\ \/ commits' = commits
                 \/ session.tx = "none" /\ commits' = commits \cup {{item}}
<1>1. CASE session.tx = "open"
  BY <1>1, TakenTyped, ServedMeans, RefusedMeans
     DEF When, RowResults, Result, Works, Cancelled
<1>2. CASE session.tx = "none"
  BY <1>2, TakenTyped, ServedMeans, RefusedMeans
     DEF When, RowResults, Result, Gone, Alone, Dies
<1>3. CASE session.tx \notin {"open", "none"}
  BY <1>3, TakenTyped, ServedMeans, RefusedMeans DEF When, RowResults
<1>4. QED
  BY <1>1, <1>2, <1>3

LEMMA TableMeans ==
  ASSUME ServerTypes, NEW item, NEW r \in TableResults(item), Takes(r)
  PROVE  \/ session.up /\ r.answer = "ok" /\ lost' = lost
              /\ IF TransactionalDDL THEN Works(item) \/ Alone(item)
                 ELSE /\ session' = NewSession
                      /\ commits' = Committed(commits) \cup {{item}}
         \/ session.up /\ r.answer \in {"error", "aborted"} /\ lost' = lost
              /\ \/ Untouched \/ Poisoned
                 \/ /\ ~TransactionalDDL /\ session' = NewSession
                    /\ commits' = Committed(commits)
         \/ r.answer = "gone" /\ Dies
              /\ \/ commits' = commits
                 \/ session.tx = "none" /\ commits' = commits \cup {{item}}
                 \/ /\ ~TransactionalDDL
                    /\ commits' \in {Committed(commits),
                                     Committed(commits) \cup {{item}}}
<1>1. CASE TransactionalDDL
  BY <1>1, RowMeans DEF TableResults
<1>2. CASE ~TransactionalDDL
  BY <1>2, TakenTyped, ServedMeans, RefusedMeans
     DEF TableResults, Result, Gone, Dies
<1>3. QED
  BY <1>1, <1>2

LEMMA BeginMeans ==
  ASSUME ServerTypes, session.tx = "none", NEW r \in BeginResults, Takes(r)
  PROVE  \/ session.up /\ r.answer = "ok" /\ lost' = lost /\ commits' = commits
              /\ session' = Opened
         \/ session.up /\ r.answer \in {"error", "aborted"} /\ lost' = lost
              /\ Untouched
         \/ r.answer = "gone" /\ Dies /\ commits' = commits
BY TakenTyped, ServedMeans, RefusedMeans DEF When, BeginResults, Result, Poisoned

LEMMA SavepointMeans ==
  ASSUME ServerTypes, NEW name, NEW r \in SavepointResults(name), Takes(r)
  PROVE  \/ session.up /\ session.tx = "open" /\ r.answer = "ok" /\ lost' = lost
              /\ commits' = commits
              /\ session' = [session EXCEPT !.sps =
                   Append(@, [name |-> name, mark |-> Len(session.work)])]
         \/ session.up /\ r.answer \in {"error", "aborted"} /\ lost' = lost
              /\ session.tx # "open" /\ Untouched
         \/ r.answer = "gone" /\ Dies /\ commits' = commits
<1>1. CASE session.tx = "open"
  BY <1>1, TakenTyped, ServedMeans DEF SavepointResults, Result
<1>2. CASE session.tx # "open"
  BY <1>2, TakenTyped, ServedMeans, RefusedMeans DEF SavepointResults, Poisoned
<1>3. QED
  BY <1>1, <1>2

\* BackTo(i): the session is back at its i-th savepoint.
BackTo(i) == /\ commits' = commits
             /\ session' = [up   |-> TRUE,
                            tx   |-> "open",
                            work |-> SubSeq(session.work, 1, session.sps[i].mark),
                            sps  |-> SubSeq(session.sps, 1, i)]

LEMMA RollbackToMeans ==
  ASSUME ServerTypes, NEW name, NEW r \in RollbackToResults(name), Takes(r)
  PROVE  \/ session.up /\ r.answer = "ok" /\ lost' = lost
              /\ \E i \in DOMAIN session.sps :
                   session.sps[i].name = name /\ BackTo(i)
         \/ /\ session.up /\ r.answer \in {"error", "aborted"} /\ lost' = lost
            /\ \A i \in DOMAIN session.sps : session.sps[i].name # name
            /\ Untouched \/ Poisoned
         \/ r.answer = "gone" /\ Dies /\ commits' = commits
<1>1. CASE \E i \in DOMAIN session.sps : session.sps[i].name = name
  <2> DEFINE i == CHOOSE j \in DOMAIN session.sps : session.sps[j].name = name
  <2>1. i \in DOMAIN session.sps /\ session.sps[i].name = name
    BY <1>1
  <2>2. \/ session.up /\ r = Result("ok",
                               [up   |-> TRUE,
                                tx   |-> "open",
                                work |-> SubSeq(session.work, 1,
                                                session.sps[i].mark),
                                sps  |-> SubSeq(session.sps, 1, i)], commits)
        \/ r.answer = "gone" /\ Dies /\ commits' = commits
    BY <1>1, ServedMeans DEF RollbackToResults
  <2> HIDE DEF i
  <2>3. QED
    BY <2>1, <2>2, TakenTyped DEF Result, BackTo
<1>2. CASE ~\E i \in DOMAIN session.sps : session.sps[i].name = name
  BY <1>2, ServedMeans, RefusedMeans DEF RollbackToResults
<1>3. QED
  BY <1>1, <1>2

-----------------------------------------------------------------------------
(* What every statement keeps. *)

\* Statements add at most the work S to what the server holds or has committed.
Serves(S) ==
  /\ session' \in Session /\ commits' \in SUBSET SUBSET Item
  /\ commits \subseteq commits' /\ Durable \subseteq Durable'
  /\ Durable' \subseteq Durable \cup Range(session.work) \cup S
  /\ Range(session'.work) \subseteq Range(session.work) \cup S
  /\ Range(session'.work) \cap Durable' = {}
  /\ session'.tx = "none" => session'.work = << >> /\ session'.sps = << >>
  /\ ~session'.up => session'.tx = "none" /\ lost'
  /\ session'.tx = "failed" => TransactionalDDL
  /\ lost' \in BOOLEAN /\ (lost => lost')

ServerInv ==
  ServerTypes /\ SessionInv /\ Range(session.work) \cap Durable = {}

LEMMA SessionsTyped ==
  /\ NewSession \in Session /\ DeadSession \in Session /\ Opened \in Session
  /\ NewSession.up /\ ~DeadSession.up /\ Opened.up
  /\ NewSession.tx = "none" /\ DeadSession.tx = "none" /\ Opened.tx = "open"
  /\ \A s \in {NewSession, DeadSession, Opened} : s.work = << >> /\ s.sps = << >>
<1>1. << >> \in Seq(Item) /\ << >> \in Seq(Savepoint)
  OBVIOUS
<1>2. QED
  BY <1>1 DEF NewSession, DeadSession, Opened, Session

LEMMA CommittedAdds ==
  ASSUME ServerTypes
  PROVE  /\ Committed(commits) \in SUBSET SUBSET Item
         /\ commits \subseteq Committed(commits)
         /\ UNION Committed(commits) = Durable \cup Range(session.work)
         /\ session.work # << >> => Range(session.work) \in Committed(commits)
<1>1. session.work \in Seq(Item)
  BY DEF ServerTypes, Session
<1>2. Range(session.work) \subseteq Item
  BY <1>1 DEF Range
<1>3. CASE session.work = << >>
  BY <1>3, EmptyRange DEF Committed, Durable, ServerTypes
<1>4. CASE session.work # << >>
  BY <1>2, <1>4 DEF Committed, Durable, ServerTypes
<1>5. QED
  BY <1>3, <1>4

LEMMA UntouchedServes ==
  ASSUME ServerInv, lost' = lost, Untouched \/ Poisoned
  PROVE  Serves({})
<1>1. session' \in Session /\ session'.work = session.work
      /\ session'.sps = session.sps /\ session'.up = session.up
      /\ (session'.tx = session.tx \/ (session'.tx = "failed" /\ TransactionalDDL
                                        /\ session.tx = "open"))
  BY DEF ServerInv, ServerTypes, Session, Untouched, Poisoned
<1>2. commits' = commits
  BY DEF Untouched, Poisoned
<1>3. QED
  BY <1>1, <1>2 DEF Serves, ServerInv, ServerTypes, SessionInv, Durable

LEMMA FreshServes ==
  ASSUME ServerInv, session' \in {NewSession, Opened}, lost' = lost,
         NEW S \in SUBSET Item,
         commits' \in SUBSET SUBSET Item, commits \subseteq commits',
         Durable' \subseteq Durable \cup Range(session.work) \cup S
  PROVE  Serves(S)
<1>1. /\ session' \in Session /\ session'.work = << >> /\ session'.sps = << >>
      /\ session'.tx # "failed" /\ session'.up
  BY SessionsTyped
<1>2. QED
  BY <1>1, EmptyRange DEF Serves, ServerInv, ServerTypes, Durable

LEMMA DiesServes ==
  ASSUME ServerInv, Dies, NEW S \in SUBSET Item,
         commits' \in SUBSET SUBSET Item, commits \subseteq commits',
         Durable' \subseteq Durable \cup Range(session.work) \cup S
  PROVE  Serves(S)
<1>1. /\ session' \in Session /\ session'.work = << >> /\ session'.sps = << >>
      /\ session'.tx = "none" /\ ~session'.up
  BY SessionsTyped DEF Dies
<1>2. QED
  BY <1>1, EmptyRange DEF Serves, ServerInv, ServerTypes, Durable, Dies

LEMMA WorksServes ==
  ASSUME ServerInv, lost' = lost, NEW item \in Item, Works(item),
         item \notin Durable
  PROVE  Serves({item})
<1>1. session.work \in Seq(Item)
  BY DEF ServerInv, ServerTypes, Session
<1>2. Append(session.work, item) \in Seq(Item)
      /\ Range(Append(session.work, item)) = Range(session.work) \cup {item}
  BY <1>1, RangeOfAppend
<1>3. /\ session' \in Session /\ session'.tx = session.tx
      /\ session'.up = session.up /\ session'.sps = session.sps
      /\ session'.work = Append(session.work, item)
      /\ commits' = commits /\ session.tx = "open"
  BY <1>2 DEF ServerInv, ServerTypes, Session, Works
<1>4. QED
  BY <1>2, <1>3 DEF Serves, ServerInv, ServerTypes, SessionInv, Durable

LEMMA AddedItem ==
  ASSUME NEW item \in Item, NEW c \in SUBSET SUBSET Item
  PROVE  /\ c \cup {{item}} \in SUBSET SUBSET Item
         /\ UNION (c \cup {{item}}) = (UNION c) \cup {item}
OBVIOUS

LEMMA AloneServes ==
  ASSUME ServerInv, lost' = lost, NEW item \in Item, Alone(item)
  PROVE  Serves({item})
<1>1. commits' \in SUBSET SUBSET Item /\ Durable' = Durable \cup {item}
  <2>1. commits' = commits \cup {{item}} /\ commits \in SUBSET SUBSET Item
    BY DEF ServerInv, ServerTypes, Alone
  <2>2. QED
    <3>1. /\ commits \cup {{item}} \in SUBSET SUBSET Item
          /\ UNION (commits \cup {{item}}) = (UNION commits) \cup {item}
      BY <2>1, AddedItem DEF ServerInv
    <3>2. QED
      BY <2>1, <3>1 DEF Durable
<1>2. session.work = << >>
  BY DEF ServerInv, SessionInv, Alone
<1>3. QED
  BY <1>1, <1>2, EmptyRange DEF Serves, ServerInv, ServerTypes, SessionInv, Alone

LEMMA BackServes ==
  ASSUME ServerInv, lost' = lost, NEW i \in DOMAIN session.sps, BackTo(i),
         session.up, session.sps[i].mark <= Len(session.work)
  PROVE  Serves({})
<1>1. /\ session.work \in Seq(Item) /\ session.sps \in Seq(Savepoint)
      /\ session.sps[i].mark \in Nat /\ i \in Nat /\ i <= Len(session.sps)
  <2>1. session.work \in Seq(Item) /\ session.sps \in Seq(Savepoint)
    BY DEF ServerInv, ServerTypes, Session
  <2>2. session.sps[i] \in Savepoint /\ i \in 1 .. Len(session.sps)
    BY <2>1
  <2>3. QED
    BY <2>1, <2>2 DEF Savepoint
<1>2. /\ SubSeq(session.work, 1, session.sps[i].mark) \in Seq(Item)
      /\ Range(SubSeq(session.work, 1, session.sps[i].mark))
           \subseteq Range(session.work)
  BY <1>1, PrefixTyped
<1>3. SubSeq(session.sps, 1, i) \in Seq(Savepoint)
  BY <1>1, PrefixTyped
<1>4. /\ session' \in Session /\ session'.tx = "open" /\ session'.up
      /\ session'.work = SubSeq(session.work, 1, session.sps[i].mark)
      /\ commits' = commits
  BY <1>2, <1>3 DEF Session, BackTo
<1>5. QED
  BY <1>2, <1>4 DEF Serves, ServerInv, ServerTypes, Durable

LEMMA CancelledServes ==
  ASSUME ServerInv, lost' = lost, Cancelled \/ Kept
  PROVE  Serves({})
<1>1. CASE Cancelled
  BY <1>1, FreshServes DEF Cancelled, ServerInv, ServerTypes, Durable
<1>2. CASE Kept
  BY <1>2, FreshServes, CommittedAdds DEF Kept, ServerInv, Durable
<1>3. QED
  BY <1>1, <1>2

LEMMA LossServes ==
  ASSUME ServerInv, Dies, commits' \in {commits, Committed(commits)}
  PROVE  Serves({})
BY DiesServes, CommittedAdds DEF ServerInv, ServerTypes, Durable

LEMMA CommitServes ==
  ASSUME ServerInv, NEW r \in CommitResults, Takes(r)
  PROVE  Serves({})
BY CommitMeans, CancelledServes, LossServes DEF ServerInv

LEMMA RollbackServes ==
  ASSUME ServerInv, NEW r \in RollbackResults, Takes(r)
  PROVE  Serves({})
BY RollbackMeans, CancelledServes, LossServes DEF ServerInv

LEMMA SetServes ==
  ASSUME ServerInv, NEW r \in SetResults, Takes(r)
  PROVE  Serves({})
BY SetMeans, UntouchedServes, LossServes DEF ServerInv

LEMMA PartServes ==
  ASSUME ServerInv, NEW r \in PartResults, Takes(r)
  PROVE  Serves({})
BY PartMeans, UntouchedServes, LossServes DEF ServerInv

LEMMA BeginServes ==
  ASSUME ServerInv, session.tx = "none", NEW r \in BeginResults, Takes(r)
  PROVE  Serves({})
<1>1. CASE commits' = commits /\ session' = Opened /\ lost' = lost
  BY <1>1, FreshServes DEF ServerInv, ServerTypes, Durable
<1>2. QED
  BY <1>1, BeginMeans, UntouchedServes, LossServes DEF ServerInv

LEMMA SavepointServes ==
  ASSUME ServerInv, NEW name \in Nat, NEW r \in SavepointResults(name), Takes(r)
  PROVE  Serves({})
<1>1. CASE /\ session.up /\ session.tx = "open" /\ lost' = lost
           /\ commits' = commits
           /\ session' = [session EXCEPT !.sps =
                Append(@, [name |-> name, mark |-> Len(session.work)])]
  <2>1. session.work \in Seq(Item) /\ session.sps \in Seq(Savepoint)
    BY DEF ServerInv, ServerTypes, Session
  <2>2. Append(session.sps, [name |-> name, mark |-> Len(session.work)])
          \in Seq(Savepoint)
    BY <2>1 DEF Savepoint
  <2>3. /\ session' \in Session /\ session'.work = session.work
        /\ session'.up /\ session'.tx = "open"
    BY <1>1, <2>2 DEF ServerInv, ServerTypes, Session
  <2>4. QED
    BY <1>1, <2>3 DEF Serves, ServerInv, ServerTypes, Durable
<1>2. QED
  BY <1>1, SavepointMeans, UntouchedServes, LossServes DEF ServerInv

LEMMA RollbackToServes ==
  ASSUME ServerInv, NEW name, NEW r \in RollbackToResults(name), Takes(r),
         \A i \in DOMAIN session.sps : session.sps[i].mark <= Len(session.work)
  PROVE  Serves({})
<1>1. CASE session.up /\ lost' = lost /\ \E i \in DOMAIN session.sps : BackTo(i)
  BY <1>1, BackServes
<1>2. QED
  BY <1>1, RollbackToMeans, UntouchedServes, LossServes DEF ServerInv

LEMMA MoreItems ==
  ASSUME Serves({}), NEW S
  PROVE  Serves(S)
BY DEF Serves

LEMMA RowServes ==
  ASSUME ServerInv, NEW item \in Item, item \notin Durable,
         NEW r \in RowResults(item), Takes(r)
  PROVE  Serves({item})
<1>1. CASE lost' = lost /\ (Works(item) \/ Alone(item))
  BY <1>1, WorksServes, AloneServes
<1>2. CASE lost' = lost /\ (Untouched \/ Poisoned \/ Cancelled)
  BY <1>2, UntouchedServes, CancelledServes, MoreItems
<1>3. CASE Dies /\ commits' = commits
  BY <1>3, LossServes, MoreItems
<1>4. CASE Dies /\ commits' = commits \cup {{item}}
  <2>1. /\ commits' \in SUBSET SUBSET Item /\ commits \subseteq commits'
        /\ Durable' = Durable \cup {item}
    BY <1>4, AddedItem DEF ServerInv, ServerTypes, Durable
  <2>2. QED
    BY <1>4, <2>1, DiesServes
<1>5. QED
  BY <1>1, <1>2, <1>3, <1>4, RowMeans DEF ServerInv

LEMMA TableServes ==
  ASSUME ServerInv, NEW item \in Item, item \notin Durable,
         NEW r \in TableResults(item), Takes(r)
  PROVE  Serves({item})
<1> DEFINE both == Committed(commits) \cup {{item}}
<1>1. /\ both \in SUBSET SUBSET Item /\ commits \subseteq both
      /\ UNION both = Durable \cup Range(session.work) \cup {item}
  BY CommittedAdds, AddedItem DEF ServerInv
<1> HIDE DEF both
<1>2. CASE lost' = lost /\ (Works(item) \/ Alone(item))
  BY <1>2, WorksServes, AloneServes
<1>3. CASE lost' = lost /\ session' = NewSession /\ commits' = both
  BY <1>1, <1>3, FreshServes DEF Durable
<1>4. CASE lost' = lost /\ (Untouched \/ Poisoned)
  BY <1>4, UntouchedServes, MoreItems
<1>5. CASE lost' = lost /\ session' = NewSession /\ commits' = Committed(commits)
  BY <1>5, FreshServes, CommittedAdds DEF ServerInv, Durable
<1>6. CASE Dies /\ commits' \in {commits, Committed(commits)}
  BY <1>6, LossServes, MoreItems
<1>7. CASE Dies /\ commits' = both
  BY <1>1, <1>7, DiesServes DEF Durable
<1>8. CASE Dies /\ commits' = commits \cup {{item}}
  <2>1. /\ commits' \in SUBSET SUBSET Item /\ commits \subseteq commits'
        /\ Durable' = Durable \cup {item}
    BY <1>8, AddedItem DEF ServerInv, ServerTypes, Durable
  <2>2. QED
    BY <1>8, <2>1, DiesServes
<1>9. QED
  BY <1>2, <1>3, <1>4, <1>5, <1>6, <1>7, <1>8, TableMeans DEF ServerInv, both

-----------------------------------------------------------------------------
(* Savepoints: those that execute() remembers and the server's cut the op-log *)
(* l and the work w at the same tables.                                       *)

Cut(l, m, w, n) == Range(SubSeq(l, 1, m)) = Tables(Range(SubSeq(w, 1, n)))

Cuts(l, saves, w, sps, last) ==
  /\ Len(saves) = Len(sps)
  /\ \A i \in 1 .. Len(saves) :
       /\ saves[i].name = sps[i].name /\ saves[i].name <= last
       /\ saves[i].mark <= Len(l) /\ sps[i].mark <= Len(w)
       /\ Cut(l, saves[i].mark, w, sps[i].mark)
  /\ \A i, j \in 1 .. Len(saves) : i < j =>
       /\ saves[i].name < saves[j].name
       /\ saves[i].mark <= saves[j].mark /\ sps[i].mark <= sps[j].mark

LEMMA SavepointTyped ==
  ASSUME NEW saves \in Seq(Savepoint), NEW i \in 1 .. Len(saves)
  PROVE  saves[i].name \in Nat /\ saves[i].mark \in Nat
<1>1. saves[i] \in Savepoint
  OBVIOUS
<1>2. QED
  BY <1>1 DEF Savepoint

LEMMA CutsNothing ==
  ASSUME NEW l, NEW w, NEW last
  PROVE  Cuts(l, << >>, w, << >>, last)
BY DEF Cuts

LEMMA CutsMoreLog ==
  ASSUME NEW l \in Seq(Item), NEW w \in Seq(Item), NEW m \in Seq(Item),
         NEW saves \in Seq(Savepoint), NEW sps, NEW last,
         Cuts(l, saves, w, sps, last)
  PROVE  Cuts(l \o m, saves, w, sps, last)
<1>1. ASSUME NEW i \in 1 .. Len(saves)
      PROVE  /\ saves[i].mark <= Len(l \o m)
             /\ Cut(l \o m, saves[i].mark, w, sps[i].mark)
  <2>1. saves[i].mark \in Nat /\ saves[i].mark <= Len(l)
        /\ Cut(l, saves[i].mark, w, sps[i].mark)
    BY SavepointTyped DEF Cuts
  <2>2. SubSeq(l \o m, 1, saves[i].mark) = SubSeq(l, 1, saves[i].mark)
    BY <2>1, PrefixOfConcat
  <2>3. Len(l \o m) = Len(l) + Len(m) /\ Len(l) \in Nat /\ Len(m) \in Nat
    OBVIOUS
  <2>4. saves[i].mark <= Len(l \o m)
    BY <2>1, <2>3
  <2>5. Cut(l \o m, saves[i].mark, w, sps[i].mark)
    BY <2>1, <2>2 DEF Cut
  <2>6. QED
    BY <2>4, <2>5
<1>2. QED
  BY <1>1 DEF Cuts

LEMMA CutsMoreWork ==
  ASSUME NEW l \in Seq(Item), NEW w \in Seq(Item), NEW e \in Item,
         NEW saves \in Seq(Savepoint), NEW sps \in Seq(Savepoint), NEW last,
         Cuts(l, saves, w, sps, last)
  PROVE  Cuts(l, saves, Append(w, e), sps, last)
<1>1. ASSUME NEW i \in 1 .. Len(saves)
      PROVE  /\ sps[i].mark <= Len(Append(w, e))
             /\ Cut(l, saves[i].mark, Append(w, e), sps[i].mark)
  <2>1. i \in 1 .. Len(sps)
    BY DEF Cuts
  <2>2. sps[i].mark \in Nat /\ sps[i].mark <= Len(w)
        /\ Cut(l, saves[i].mark, w, sps[i].mark)
    BY <2>1, SavepointTyped DEF Cuts
  <2>3. SubSeq(Append(w, e), 1, sps[i].mark) = SubSeq(w, 1, sps[i].mark)
    BY <2>2, PrefixOfAppend
  <2>4. Len(Append(w, e)) = Len(w) + 1 /\ Len(w) \in Nat
    OBVIOUS
  <2>5. sps[i].mark <= Len(Append(w, e))
    BY <2>2, <2>4
  <2>6. Cut(l, saves[i].mark, Append(w, e), sps[i].mark)
    BY <2>2, <2>3 DEF Cut
  <2>7. QED
    BY <2>5, <2>6
<1>2. QED
  BY <1>1 DEF Cuts

LEMMA CutsBack ==
  ASSUME NEW l \in Seq(Item), NEW w \in Seq(Item),
         NEW saves \in Seq(Savepoint), NEW sps \in Seq(Savepoint),
         NEW last \in Nat, Cuts(l, saves, w, sps, last),
         NEW k \in 1 .. Len(saves)
  PROVE  LET l2 == SubSeq(l, 1, saves[k].mark)
             w2 == SubSeq(w, 1, sps[k].mark)
         IN  /\ l2 \in Seq(Item) /\ w2 \in Seq(Item)
             /\ Range(l2) \subseteq Range(l) /\ Range(w2) \subseteq Range(w)
             /\ Range(l2) = Tables(Range(w2))
             /\ Cuts(l2, SubSeq(saves, 1, k), w2, SubSeq(sps, 1, k), last)
<1> DEFINE l2 == SubSeq(l, 1, saves[k].mark)
           w2 == SubSeq(w, 1, sps[k].mark)
           saves2 == SubSeq(saves, 1, k)
           sps2 == SubSeq(sps, 1, k)
<1>1. /\ Len(saves) = Len(sps) /\ k \in 1 .. Len(sps) /\ k \in Nat
      /\ saves[k].mark \in Nat /\ saves[k].mark <= Len(l)
      /\ sps[k].mark \in Nat /\ sps[k].mark <= Len(w)
  BY SavepointTyped DEF Cuts
<1>2. /\ l2 \in Seq(Item) /\ Len(l2) = saves[k].mark
      /\ Range(l2) \subseteq Range(l)
  BY <1>1, PrefixTyped
<1>3. /\ w2 \in Seq(Item) /\ Len(w2) = sps[k].mark
      /\ Range(w2) \subseteq Range(w)
  BY <1>1, PrefixTyped
<1>4. /\ Len(saves2) = k /\ Len(sps2) = k
      /\ \A i \in 1 .. k : saves2[i] = saves[i] /\ sps2[i] = sps[i]
  BY <1>1, PrefixTyped
<1>5. Range(l2) = Tables(Range(w2))
  BY DEF Cuts, Cut
<1>6. ASSUME NEW i \in 1 .. k
      PROVE  /\ saves[i].name = sps[i].name /\ saves[i].name <= last
             /\ saves[i].mark <= saves[k].mark /\ sps[i].mark <= sps[k].mark
             /\ Cut(l2, saves[i].mark, w2, sps[i].mark)
  <2>1. i \in 1 .. Len(saves) /\ i \in 1 .. Len(sps)
    BY <1>1
  <2>2. saves[i].mark \in Nat /\ sps[i].mark \in Nat
    BY <2>1, SavepointTyped
  <2>3. /\ saves[i].name = sps[i].name /\ saves[i].name <= last
        /\ Cut(l, saves[i].mark, w, sps[i].mark)
    BY <2>1 DEF Cuts
  <2>4. saves[i].mark <= saves[k].mark /\ sps[i].mark <= sps[k].mark
    <3>1. CASE i = k
      BY <3>1, <1>1
    <3>2. CASE i < k
      BY <3>2, <2>1 DEF Cuts
    <3>3. QED
      BY <3>1, <3>2, <1>1
  <2>5. SubSeq(l2, 1, saves[i].mark) = SubSeq(l, 1, saves[i].mark)
    BY <1>1, <2>2, <2>4, PrefixOfPrefix
  <2>6. SubSeq(w2, 1, sps[i].mark) = SubSeq(w, 1, sps[i].mark)
    BY <1>1, <2>2, <2>4, PrefixOfPrefix
  <2>7. QED
    BY <2>3, <2>4, <2>5, <2>6 DEF Cut
<1> HIDE DEF l2, w2, saves2, sps2
<1>7. Cuts(l2, saves2, w2, sps2, last)
  <2>1. \A i, j \in 1 .. k : i < j =>
          /\ saves[i].name < saves[j].name
          /\ saves[i].mark <= saves[j].mark /\ sps[i].mark <= sps[j].mark
    BY <1>1 DEF Cuts
  <2>2. QED
    BY <1>2, <1>3, <1>4, <1>6, <2>1 DEF Cuts
<1>8. QED
  BY <1>2, <1>3, <1>5, <1>7 DEF l2, w2, saves2, sps2

LEMMA CutsTake ==
  ASSUME NEW l \in Seq(Item), NEW w \in Seq(Item),
         NEW saves \in Seq(Savepoint), NEW sps \in Seq(Savepoint),
         NEW last \in Nat, Cuts(l, saves, w, sps, last),
         Range(l) = Tables(Range(w))
  PROVE  Cuts(l, Append(saves, [name |-> last + 1, mark |-> Len(l)]),
              w, Append(sps, [name |-> last + 1, mark |-> Len(w)]), last + 1)
<1> DEFINE new == [name |-> last + 1, mark |-> Len(l)]
           snew == [name |-> last + 1, mark |-> Len(w)]
           saves2 == Append(saves, new)
           sps2 == Append(sps, snew)
           k == Len(saves) + 1
<1>1. Len(saves) = Len(sps) /\ Len(saves) \in Nat
  BY DEF Cuts
<1>2. /\ Len(saves2) = k /\ saves2[k] = new
      /\ \A i \in 1 .. Len(saves) : saves2[i] = saves[i]
  OBVIOUS
<1>3. /\ Len(sps2) = k /\ sps2[k] = snew
      /\ \A i \in 1 .. Len(saves) : sps2[i] = sps[i]
  BY <1>1
<1>4. /\ new.name = last + 1 /\ new.mark = Len(l)
      /\ snew.name = last + 1 /\ snew.mark = Len(w)
  OBVIOUS
<1>5. SubSeq(l, 1, Len(l)) = l /\ SubSeq(w, 1, Len(w)) = w
  OBVIOUS
<1>6. Cut(l, new.mark, w, snew.mark)
  BY <1>4, <1>5 DEF Cut
<1> HIDE DEF new, snew, saves2, sps2
<1>7. Len(l) \in Nat /\ Len(w) \in Nat
  OBVIOUS
<1>8. ASSUME NEW i \in 1 .. Len(saves)
      PROVE  /\ saves[i].name = sps[i].name /\ saves[i].name <= last
             /\ saves[i].name \in Nat
             /\ saves[i].mark <= Len(l) /\ sps[i].mark <= Len(w)
             /\ Cut(l, saves[i].mark, w, sps[i].mark)
  BY SavepointTyped DEF Cuts
<1>9. ASSUME NEW i \in 1 .. k
      PROVE  /\ saves2[i].name = sps2[i].name /\ saves2[i].name <= last + 1
             /\ saves2[i].mark <= Len(l) /\ sps2[i].mark <= Len(w)
             /\ Cut(l, saves2[i].mark, w, sps2[i].mark)
  <2>1. CASE i = k
    BY <2>1, <1>2, <1>3, <1>4, <1>6, <1>7
  <2>2. CASE i \in 1 .. Len(saves)
    BY <2>2, <1>2, <1>3, <1>8
  <2>3. QED
    BY <2>1, <2>2, <1>1
<1>10. ASSUME NEW i \in 1 .. k, NEW j \in 1 .. k, i < j
       PROVE  /\ saves2[i].name < saves2[j].name
              /\ saves2[i].mark <= saves2[j].mark
              /\ sps2[i].mark <= sps2[j].mark
  <2>1. i \in 1 .. Len(saves)
    BY <1>1, <1>10
  <2>2. saves2[i] = saves[i] /\ sps2[i] = sps[i]
    BY <2>1, <1>2, <1>3
  <2>3. CASE j = k
    <3>1. saves2[j] = new /\ sps2[j] = snew
      BY <2>3, <1>2, <1>3
    <3>2. saves[i].name <= last /\ saves[i].name \in Nat
      BY <2>1, <1>8
    <3>3. saves[i].mark <= Len(l) /\ sps[i].mark <= Len(w)
      BY <2>1, <1>8
    <3>4. QED
      BY <2>2, <3>1, <3>2, <3>3, <1>4
  <2>4. CASE j \in 1 .. Len(saves)
    BY <2>1, <2>2, <2>4, <1>2, <1>3, <1>10 DEF Cuts
  <2>5. QED
    BY <2>3, <2>4, <1>1
<1>11. Cuts(l, saves2, w, sps2, last + 1)
  BY <1>2, <1>3, <1>9, <1>10 DEF Cuts
<1>12. QED
  BY <1>11 DEF new, snew, saves2, sps2

\* A name finds the same savepoint on both sides.
LEMMA CutsNames ==
  ASSUME NEW l, NEW w, NEW last,
         NEW saves \in Seq(Savepoint), NEW sps \in Seq(Savepoint),
         Cuts(l, saves, w, sps, last),
         NEW i \in 1 .. Len(saves), NEW j \in 1 .. Len(sps),
         saves[i].name = sps[j].name
  PROVE  i = j
<1>1. j \in 1 .. Len(saves) /\ sps[j].name = saves[j].name
  BY DEF Cuts
<1>2. saves[i].name \in Nat /\ saves[j].name \in Nat
  BY <1>1, SavepointTyped
<1>3. QED
  BY <1>1, <1>2 DEF Cuts

-----------------------------------------------------------------------------
(* The rest of the invariant. *)

Mirrored == branch = "mirror" /\ pc \in {"run", "caught", "closeDdl", "implicit"}

\* Where execute() is, and the locals that go with it.
ControlInv ==
  /\ pc \in {"savepoint", "rewind"} => branch = "savepoint"
  /\ pc \in {"closeDdl", "implicit"} => branch = "mirror"
  /\ pc = "ownRollback" => ownGuard
  /\ ownGuard => branch = "tail" /\ pc \in {"run", "ownRollback"}
  /\ pc \in Body \ {"draw"} =>
       /\ branch # "none" /\ (inTrx <=> branch # "tail")
       /\ branch \in {"mirror", "tail"} => ~TransactionalDDL
  /\ pc \in Body => (armed <=> inTrx) /\ (inTrx => end # "committed")
  /\ pc \in Body /\ ~inTrx =>
       /\ ~TransactionalDDL /\ end = "committed"
       /\ log = << >> /\ savepoints = << >>
  /\ branch = "mirror" /\ pc \in {"caught", "closeDdl"} => sent
  /\ branch = "mirror" /\ pc = "caught" => exc \in {"error", "aborted", "gone"}
  /\ branch = "savepoint" /\ pc \in {"run", "caught", "rewind"} =>
       savepoints # << >>
  /\ exc = "gone" => ~session.up

WriteAt(p, i) == i \in 1 .. Len(p) /\ p[i] = "write"

\* What the programs of a branch have in common; pg stands for TransactionalDDL.
Fits(p, pg, b) ==
  \A i \in 1 .. Len(p) :
    /\ p[i] \in {"table", "index"} =>
         \/ WriteAt(p, i + 1)
         \/ i + 1 \in 1 .. Len(p) /\ p[i + 1] \in {"part", "set"}
              /\ WriteAt(p, i + 2)
    /\ p[i] = "part" => pg /\ p[Len(p)] = "row"
    /\ p[i] = "begin" => b = "tail" /\ i = 1 /\ Len(p) = 3 /\ p[3] = "commit"
    /\ p[i] = "commit" => /\ b = "tail" /\ i = Len(p) /\ Len(p) <= 3
                          /\ Len(p) = 3 => p[1] = "begin"
                          /\ i > 1 => p[i - 1] = "row"
    /\ p[i] = "index" => ~pg
    /\ b = "mirror" => p[i] \in {"table", "index", "set", "write", "row"}
    /\ b \in {"savepoint", "abort"} =>
         /\ ~pg => p[i] \notin {"table", "index", "write", "part"}
         /\ pg /\ p[i] = "set" => ~WriteAt(p, i + 1)

\* The program of an action within its own transaction.
Owns(p) == Len(p) \in 1 .. 2 /\ p[Len(p)] = "commit"

\* A catalog delta is about to follow.
WriteSoon(p) ==
  \/ Len(p) >= 1 /\ p[1] = "write"
  \/ Len(p) >= 2 /\ p[1] \in {"part", "set"} /\ p[2] = "write"

\* A mirrored action that has not sent its DDL yet.
Unsent(p) == /\ Len(p) >= 1
             /\ \/ p[1] \in {"table", "index"}
                \/ Len(p) >= 2 /\ p[1] = "set" /\ p[2] = "table"

ProgramInv ==
  /\ pc \in {"savepoint", "run"} =>
       /\ Fits(prog, TransactionalDDL, branch)
       /\ ownGuard <=> Owns(prog)
       /\ made # << >> => pc = "run" /\ WriteSoon(prog)
  /\ pc = "run" =>
    /\ branch = "mirror" /\ sent => session.up
    /\ branch = "mirror" /\ session.tx = "open" =>
         (prog = << >> /\ ~sent) \/ Unsent(prog)
    /\ session.tx = "failed" => Len(prog) >= 1 /\ prog[Len(prog)] = "row"

\* The server's transaction, by where execute() is.
TransactionInv ==
  /\ session.up /\ inTrx /\ pc \in {"draw", "savepoint", "rewind"} =>
       session.tx = "open"
  /\ session.up /\ pc = "run" /\ Buffered => session.tx # "none"
  /\ branch = "tail" /\ (pc = "caught" \/ (pc = "run" /\ ~ownGuard)) =>
       session.tx = "none"
  /\ pc = "draw" /\ ~inTrx => session.tx = "none"
  /\ pc = "implicit" /\ sent => session.up /\ session.tx = "none"
  /\ branch = "mirror" /\ pc \in {"run", "implicit"} /\ ~sent /\ session.up =>
       session.tx = "open"
  /\ pc = "leave" /\ ~armed => session.tx = "none"
  /\ pc \in {"publish", "loop"} => session.tx = "none" /\ ~armed

Below(S, n) == \A i \in S : i.no <= n

\* Work is numbered as it is done, and the deltas follow it in that order.
NumbersInv ==
  /\ Below(Durable, items) /\ Below(Range(session.work), items)
  /\ Below(Range(log), items) /\ Below(Range(made), items) /\ Below(mine, items)
  /\ Range(session.work) \cap Durable = {}
  /\ InOrder(log)
  /\ pc = "run" => \A i \in DOMAIN log, k \in DOMAIN made :
                     log[i].no < made[k].no

\* While a transaction is open, log and savepoints follow the server's work.
MirrorInv ==
  session.tx # "none" =>
    /\ Cuts(log, savepoints, session.work, session.sps, spCounter)
    /\ pc \in {"draw", "savepoint", "rewind", "run"} \/ Mirrored =>
         Tables(Range(session.work)) =
           Range(log) \cup (IF pc = "run" THEN Range(made) ELSE {})

\* A mirrored DDL statement has committed the transaction.
MirrorDone == Mirrored /\ session.up /\ session.tx = "none"

\* What became of this transaction's work.
MineInv ==
  /\ end = "committed" => mine \subseteq Durable
  /\ session.tx # "none" /\ inTrx /\ pc \in Body => mine \subseteq Range(session.work)
  /\ MirrorDone => mine \subseteq Durable
  /\ end # "committed" /\ ~lost => MirrorDone \/ mine \cap Durable = {}

\* Every unit of work of S is in one of the commits c.
Within(S, c) == S \subseteq UNION c

\* What the server has committed and the catalog has still to learn.
Owed == (IF pc = "publish" \/ MirrorDone THEN Range(log) ELSE {})
          \cup (IF pc = "run" /\ ~Buffered THEN Range(made) ELSE {})

DurableInv ==
  /\ catalog \subseteq Durable
  /\ pc = "publish" \/ MirrorDone => Within(Range(log), commits)
  /\ pc = "run" /\ ~Buffered => Within(Range(made), commits)
  /\ ~lost => Tables(Durable) = catalog \cup Owed

\* The commit whose tables are in the op-log, still to be published.
DueLog == pc = "publish" \/ MirrorDone
Due == IF DueLog THEN Range(log) ELSE {}

Precede(S, T) == \A shown \in S, due \in T : shown.no < due.no

\* G is all published, all missing and none of it due, or it is what is due:
\* in the order of the work, and in part only while publishAll() runs.
Settled(G) == Missing(G) \in {{}, Tables(G)} /\ Due \cap G = {}
UnderWay(G) == /\ Missing(G) = Due
               /\ Publishing \/ Missing(G) = Tables(G)
               /\ Precede(Tables(G) \ Missing(G), Missing(G))

GroupsInv == \A G \in commits : Settled(G) \/ UnderWay(G)

\* A change that goes straight into the catalog is a commit of its own.
MadeInv == pc = "run" /\ ~Buffered =>
             \A G \in commits : Range(made) \cap G # {} => Tables(G) = Range(made)

PublishInv == GroupsInv /\ MadeInv

OutcomeInv ==
  /\ Len(outcomes) = IF pc = "loop" THEN begun ELSE begun - 1
  /\ pc # "loop" => begun > 0
  /\ pc = "loop" /\ begun > 0 => outcomes[begun] = end

IInv == /\ TypeInv /\ SessionInv /\ ControlInv /\ ProgramInv /\ TransactionInv
        /\ NumbersInv /\ MirrorInv /\ MineInv /\ DurableInv /\ PublishInv
        /\ OutcomeInv

-----------------------------------------------------------------------------
(* publishAll(), one op. *)

LEMMA RangeOfTail ==
  ASSUME NEW s \in Seq(Item), s # << >>, InOrder(s)
  PROVE  /\ Tail(s) \in Seq(Item) /\ Head(s) \in Item
         /\ Range(s) = {Head(s)} \cup Range(Tail(s))
         /\ \A e \in Range(Tail(s)) : e \in Item /\ Head(s).no < e.no
         /\ InOrder(Tail(s))
<1>1. /\ Tail(s) \in Seq(Item) /\ DOMAIN s = 1 .. Len(s) /\ Len(s) \in Nat \ {0}
      /\ DOMAIN Tail(s) = 1 .. Len(s) - 1 /\ Head(s) = s[1]
      /\ \A i \in 1 .. Len(s) - 1 : Tail(s)[i] = s[i + 1]
      /\ \A i \in 1 .. Len(s) : s[i] \in Item
  OBVIOUS
<1> DEFINE t == Tail(s)
<1> HIDE DEF t
<1>2. \A i \in DOMAIN t : t[i] = s[i + 1] /\ i + 1 \in DOMAIN s /\ 1 < i + 1
  BY <1>1 DEF t
<1>3. \A i \in DOMAIN s : i = 1 \/ (i - 1 \in DOMAIN t /\ t[i - 1] = s[i])
  BY <1>1 DEF t
<1>4. 1 \in DOMAIN s
  BY <1>1
<1>5. \A e \in Range(t) : e \in Item /\ s[1].no < e.no
  BY <1>1, <1>2, <1>4 DEF Range, InOrder
<1>6. Range(s) = {s[1]} \cup Range(t)
  BY <1>2, <1>3, <1>4 DEF Range
<1>7. InOrder(t)
  <2> SUFFICES ASSUME NEW i \in DOMAIN t, NEW j \in DOMAIN t, i < j
               PROVE  t[i].no < t[j].no
    BY DEF InOrder
  <2>1. /\ i + 1 \in DOMAIN s /\ j + 1 \in DOMAIN s /\ i + 1 < j + 1
    BY <1>1, <1>2 DEF t
  <2>2. s[i + 1].no < s[j + 1].no
    BY <2>1 DEF InOrder
  <2>3. QED
    BY <1>2, <2>2
<1>8. QED
  BY <1>1, <1>5, <1>6, <1>7 DEF t

LEMMA OpFrame ==
  ASSUME PublishOp
  PROVE  /\ catalog' = catalog \cup {Head(log)} /\ log' = Tail(log) /\ log # << >>
         /\ Publishing
         /\ config' = config /\ session' = session /\ commits' = commits
         /\ pc' = pc /\ inTrx' = inTrx /\ armed' = armed
         /\ savepoints' = savepoints /\ spCounter' = spCounter
         /\ subsLeft' = subsLeft /\ branch' = branch /\ end' = end
         /\ prog' = prog /\ made' = made /\ ownGuard' = ownGuard /\ sent' = sent
         /\ exc' = exc /\ outcomes' = outcomes /\ begun' = begun
         /\ items' = items /\ mine' = mine /\ lost' = lost
BY DEF PublishOp, server, subvars, history

\* An op is published between two transactions of the server.
LEMMA OpAlone ==
  ASSUME IInv, PublishOp
  PROVE  /\ session.tx = "none" /\ DueLog
         /\ pc = "publish" \/ (pc = "implicit" /\ branch = "mirror" /\ inTrx)
<1>1. CASE pc = "publish"
  BY <1>1 DEF IInv, TransactionInv, DueLog
<1>2. CASE pc = "implicit" /\ sent
  BY <1>2 DEF IInv, TransactionInv, ControlInv, DueLog, MirrorDone, Mirrored, Body
<1>3. QED
  BY <1>1, <1>2 DEF PublishOp, Publishing, ImplicitlyCommitted

LEMMA OpPublished ==
  ASSUME IInv, PublishOp
  PROVE  /\ log' \in Seq(Item) /\ Head(log) \in Item
         /\ Range(log) = {Head(log)} \cup Range(log')
         /\ \A e \in Range(log') : e \in Item /\ Head(log).no < e.no
         /\ InOrder(log')
BY RangeOfTail, OpFrame DEF IInv, TypeInv, ClientTypes, NumbersInv

-----------------------------------------------------------------------------
(* What every step keeps. *)

LEMMA ConfigKept ==
  ASSUME [Next]_vars
  PROVE  config' = config /\ (TransactionalDDL' <=> TransactionalDDL)
<1>1. config' = config
  <2>1. CASE Reconnect
    BY <2>1 DEF Reconnect
  <2>2. CASE Begin
    BY <2>2 DEF Begin
  <2>3. CASE Draw
    BY <2>3 DEF Draw
  <2>4. CASE TakeSavepoint
    BY <2>4 DEF TakeSavepoint
  <2>5. CASE RunTable
    BY <2>5 DEF RunTable
  <2>6. CASE RunRow
    BY <2>6 DEF RunRow
  <2>7. CASE RunSet
    BY <2>7 DEF RunSet
  <2>8. CASE RunUnchecked
    BY <2>8 DEF RunUnchecked
  <2>9. CASE RunWrite
    BY <2>9 DEF RunWrite
  <2>10. CASE RunRaise
    BY <2>10 DEF RunRaise
  <2>11. CASE RunOwnBegin
    BY <2>11 DEF RunOwnBegin
  <2>12. CASE RunOwnCommit
    BY <2>12 DEF RunOwnCommit
  <2>13. CASE OwnRollback
    BY <2>13 DEF OwnRollback
  <2>14. CASE SubReturns
    BY <2>14 DEF SubReturns
  <2>15. CASE Rewind
    BY <2>15 DEF Rewind
  <2>16. CASE NoRewind
    BY <2>16 DEF NoRewind
  <2>17. CASE RecoverSavepoint
    BY <2>17 DEF RecoverSavepoint
  <2>18. CASE CountFailure
    BY <2>18 DEF CountFailure
  <2>19. CASE Rethrow
    BY <2>19 DEF Rethrow
  <2>20. CASE CloseDdl
    BY <2>20 DEF CloseDdl
  <2>21. CASE ImplicitCommit
    BY <2>21 DEF ImplicitCommit
  <2>22. CASE Commit
    BY <2>22 DEF Commit
  <2>p. CASE PublishOp
    BY <2>p DEF PublishOp
  <2>23. CASE EndPublish
    BY <2>23 DEF EndPublish
  <2>24. CASE Rollback
    BY <2>24 DEF Rollback
  <2>25. CASE EndTail
    BY <2>25 DEF EndTail
  <2>26. CASE Leave
    BY <2>26 DEF Leave
  <2>27. CASE UNCHANGED vars
    BY <2>27 DEF vars
  <2>28. QED
    BY <2>p, <2>1, <2>2, <2>3, <2>4, <2>5, <2>6, <2>7, <2>8, <2>9, <2>10, <2>11,
       <2>12, <2>13, <2>14, <2>15, <2>16, <2>17, <2>18, <2>19, <2>20, <2>21,
       <2>22, <2>23, <2>24, <2>25, <2>26, <2>27
       DEF Next, Execute, Stop
<1>2. QED
  BY <1>1 DEF TransactionalDDL

LEMMA ServerKnown ==
  ASSUME IInv
  PROVE  /\ ServerInv /\ items \in Nat
         /\ \A i \in DOMAIN session.sps :
              session.sps[i].mark <= Len(session.work)
<1>1. ServerInv /\ items \in Nat
  BY DEF IInv, TypeInv, ServerTypes, NumbersInv, ServerInv
<1>2. CASE session.tx = "none"
  BY <1>1, <1>2 DEF IInv, SessionInv
<1>3. CASE session.tx # "none"
  <2>1. session.sps \in Seq(Savepoint)
    BY <1>1 DEF ServerInv, ServerTypes, Session
  <2>2. QED
    BY <1>1, <1>3, <2>1 DEF IInv, MirrorInv, Cuts
<1>4. QED
  BY <1>2, <1>3

LEMMA NewItem ==
  ASSUME IInv, NEW kind \in {"table", "row"}
  PROVE  LET item == [kind |-> kind, no |-> items + 1]
         IN  item \in Item /\ item \notin Durable
<1>1. items \in Nat /\ Below(Durable, items)
  BY ServerKnown DEF IInv, NumbersInv
<1>2. QED
  BY <1>1 DEF Item, Below

\* No BEGIN is sent inside a transaction.
LEMMA BeginAlone ==
  ASSUME IInv, Begin \/ RunOwnBegin
  PROVE  session.tx = "none" /\ (RunOwnBegin => branch = "tail" /\ ~ownGuard)
<1>1. Begin => session.tx = "none"
  BY DEF IInv, TransactionInv, Begin
<1>2. RunOwnBegin => session.tx = "none" /\ branch = "tail" /\ ~ownGuard
  <2> SUFFICES ASSUME RunOwnBegin
               PROVE  session.tx = "none" /\ branch = "tail" /\ ~ownGuard
    OBVIOUS
  <2>1. pc = "run" /\ 1 \in 1 .. Len(prog) /\ prog[1] = "begin"
    BY DEF IInv, TypeInv, ClientTypes, RunOwnBegin, Step
  <2>2. branch = "tail" /\ Len(prog) = 3
    BY <2>1 DEF IInv, ProgramInv, Fits
  <2>3. ~ownGuard
    BY <2>1, <2>2 DEF IInv, ProgramInv, Owns
  <2>4. QED
    BY <2>1, <2>2, <2>3 DEF IInv, TransactionInv
<1>3. QED
  BY <1>1, <1>2 DEF Begin, RunOwnBegin, Step

\* A step that adds no work of its own.
LEMMA PlainStep ==
  ASSUME IInv, [Next]_vars, ~RunTable, ~RunRow
  PROVE  Serves({}) /\ items' = items
<1>1. ServerInv /\ \A i \in DOMAIN session.sps :
                     session.sps[i].mark <= Len(session.work)
  BY ServerKnown
<1>2. ASSUME UNCHANGED <<session, commits, lost>>
      PROVE  Serves({})
  BY <1>1, <1>2, UntouchedServes DEF Untouched
<1>3. /\ Begin \/ RunOwnBegin => session.tx = "none"
      /\ spCounter + 1 \in Nat
  BY BeginAlone DEF IInv, TypeInv, ClientTypes
<1>4. CASE Reconnect
  BY <1>4, <1>1, CancelledServes
     DEF Reconnect, client, history, subvars, Cancelled
<1>5. CASE Begin
  BY <1>5, <1>1, BeginServes, <1>3
     DEF Begin, client, subvars
<1>6. CASE Draw
  BY <1>6, <1>2
     DEF Draw, history, server
<1>7. CASE TakeSavepoint
  BY <1>7, <1>1, SavepointServes, <1>3
     DEF TakeSavepoint, subvars
<1>8. CASE RunTable
  BY <1>8
<1>9. CASE RunRow
  BY <1>9
<1>10. CASE RunSet
  BY <1>10, <1>1, SetServes
     DEF RunSet, Checked, Continue, Step, Throw, client
<1>11. CASE RunUnchecked
  BY <1>11, <1>1, SetServes, PartServes
     DEF RunUnchecked, Continue, Step, client
<1>12. CASE RunWrite
  BY <1>12, <1>2
     DEF RunWrite, Continue, Step, history, server
<1>13. CASE RunRaise
  BY <1>13, <1>2
     DEF RunRaise, Step, Throw, client, history, server
<1>14. CASE RunOwnBegin
  BY <1>14, <1>1, BeginServes, <1>3
     DEF RunOwnBegin, Checked, Continue, Step, Throw, client
<1>15. CASE RunOwnCommit
  BY <1>15, <1>1, CommitServes
     DEF RunOwnCommit, Continue, Step, client
<1>16. CASE OwnRollback
  BY <1>16, <1>1, RollbackServes
     DEF OwnRollback, client
<1>17. CASE SubReturns
  BY <1>17, <1>2
     DEF SubReturns, client, history, server, subvars
<1>18. CASE Rewind
  BY <1>18, <1>1, RollbackToServes
     DEF Rewind, subvars
<1>19. CASE NoRewind
  BY <1>19, <1>2
     DEF NoRewind, client, history, server, subvars
<1>20. CASE RecoverSavepoint
  BY <1>20, <1>1, RollbackToServes
     DEF RecoverSavepoint, subvars
<1>21. CASE CountFailure
  BY <1>21, <1>2
     DEF CountFailure, client, history, server, subvars
<1>22. CASE Rethrow
  BY <1>22, <1>2
     DEF Rethrow, history, server, subvars
<1>23. CASE CloseDdl
  BY <1>23, <1>1, CommitServes
     DEF CloseDdl, client, subvars
<1>24. CASE ImplicitCommit
  BY <1>24, <1>2
     DEF ImplicitCommit, history, server, subvars
<1>25. CASE Commit
  BY <1>25, <1>1, CommitServes
     DEF Commit, subvars
<1>p. CASE PublishOp
  BY <1>p, <1>2, OpFrame
<1>26. CASE EndPublish
  BY <1>26, <1>2
     DEF EndPublish, client, history, server, subvars
<1>27. CASE Rollback
  BY <1>27, <1>1, RollbackServes
     DEF Rollback, subvars
<1>28. CASE EndTail
  BY <1>28, <1>2
     DEF EndTail, client, history, server, subvars
<1>29. CASE Leave
  BY <1>29, <1>1, RollbackServes, <1>2
     DEF Leave, server, subvars
<1>30. CASE UNCHANGED vars
  BY <1>2, <1>30 DEF vars, server, history
<1>31. QED
  BY <1>p, <1>4, <1>5, <1>6, <1>7, <1>8, <1>9, <1>10, <1>11, <1>12, <1>13, <1>14,
     <1>15, <1>16, <1>17, <1>18, <1>19, <1>20, <1>21, <1>22, <1>23, <1>24,
     <1>25, <1>26, <1>27, <1>28, <1>29, <1>30
     DEF Next, Execute, Stop

\* A step that may add a unit of work: it gets the next number if the server
\* did it.
LEMMA WorkStep ==
  ASSUME IInv, RunTable \/ RunRow
  PROVE  \E item \in Item : /\ item.no = items + 1 /\ item \notin Durable
                            /\ Serves({item}) /\ items' = Numbered(item)
<1>1. /\ ServerInv
      /\ \A kind \in {"table", "row"} :
           LET item == [kind |-> kind, no |-> items + 1]
           IN  item \in Item /\ item \notin Durable
  BY ServerKnown, NewItem
<1>2. CASE RunTable
  <2> DEFINE item == [kind |-> "table", no |-> items + 1]
  <2>1. PICK r \in TableResults(item) : Takes(r) /\ items' = Numbered(item)
    BY <1>2 DEF RunTable
  <2>2. item \in Item /\ item \notin Durable /\ item.no = items + 1
    BY <1>1
  <2> HIDE DEF item
  <2>3. Serves({item})
    BY <1>1, <2>1, <2>2, TableServes
  <2>4. QED
    BY <2>1, <2>2, <2>3
<1>3. CASE RunRow
  <2> DEFINE item == [kind |-> "row", no |-> items + 1]
  <2>1. PICK r \in RowResults(item) : Takes(r) /\ items' = Numbered(item)
    BY <1>3 DEF RunRow, Checked
  <2>2. item \in Item /\ item \notin Durable /\ item.no = items + 1
    BY <1>1
  <2> HIDE DEF item
  <2>3. Serves({item})
    BY <1>1, <2>1, <2>2, RowServes
  <2>4. QED
    BY <2>1, <2>2, <2>3
<1>4. QED
  BY <1>2, <1>3

\* What is known of the server after any step.
ServerAfter ==
  /\ session' \in Session /\ commits' \in SUBSET SUBSET Item
  /\ items' \in Nat /\ items <= items' /\ items' <= items + 1
  /\ commits \subseteq commits' /\ Durable \subseteq Durable'
  /\ Range(session'.work) \cap Durable' = {}
  /\ Below(Durable' \cup Range(session'.work), items')
  /\ lost' \in BOOLEAN /\ (lost => lost')
  /\ SessionInv'

LEMMA ServerStep ==
  ASSUME IInv, [Next]_vars
  PROVE  ServerAfter
<1>1. /\ ServerInv /\ items \in Nat
      /\ Below(Durable, items) /\ Below(Range(session.work), items)
  BY ServerKnown DEF IInv, NumbersInv
<1>2. ASSUME NEW S, Serves(S), items' \in Nat, items <= items',
             items' <= items + 1,
             Below(Durable' \cup Range(session'.work), items')
      PROVE  ServerAfter
  BY <1>2, ConfigKept DEF Serves, ServerAfter, SessionInv
<1>3. CASE ~RunTable /\ ~RunRow
  <2>1. Serves({}) /\ items' = items
    BY <1>3, PlainStep
  <2>2. Below(Durable' \cup Range(session'.work), items')
    BY <1>1, <2>1 DEF Serves, Below
  <2>3. QED
    BY <1>1, <1>2, <2>1, <2>2
<1>4. CASE RunTable \/ RunRow
  <2>1. PICK item \in Item : /\ item.no = items + 1 /\ item \notin Durable
                             /\ Serves({item}) /\ items' = Numbered(item)
    BY <1>4, WorkStep
  <2>2. CASE item \in Range(session'.work) \cup UNION commits'
    <3>1. items' = items + 1
      BY <2>1, <2>2 DEF Numbered
    <3>2. \A i \in Durable' \cup Range(session'.work) :
             i \in Durable \cup Range(session.work) \/ i = item
      BY <2>1 DEF Serves
    <3>3. \A i \in Durable \cup Range(session.work) : i.no <= items /\ i.no \in Nat
      <4>1. Durable \cup Range(session.work) \subseteq Item
        BY <1>1 DEF ServerInv, ServerTypes, Session, Range, Durable
      <4>2. QED
        BY <1>1, <4>1 DEF Below, Item
    <3>4. Below(Durable' \cup Range(session'.work), items')
      BY <1>1, <2>1, <3>1, <3>2, <3>3 DEF Below
    <3>5. QED
      BY <1>1, <1>2, <2>1, <3>1, <3>4
  <2>3. CASE item \notin Range(session'.work) \cup UNION commits'
    <3>1. items' = items
      BY <2>1, <2>3 DEF Numbered
    <3>2. \A i \in Durable' \cup Range(session'.work) :
             i \in Durable \cup Range(session.work)
      BY <2>1, <2>3 DEF Serves, Durable
    <3>3. Below(Durable' \cup Range(session'.work), items')
      BY <1>1, <3>1, <3>2 DEF Below
    <3>4. QED
      BY <1>1, <1>2, <2>1, <3>1, <3>3
  <2>4. QED
    BY <2>2, <2>3
<1>5. QED
  BY <1>3, <1>4

\* ROLLBACK TO the k-th savepoint takes log and server back to the same point.
LEMMA BackStep ==
  ASSUME IInv, NEW k \in DOMAIN savepoints,
         NEW r \in RollbackToResults(savepoints[k].name), Takes(r)
  PROVE  /\ r.answer = "ok" =>
              /\ session.up /\ session.tx # "none" /\ lost' = lost /\ BackTo(k)
              /\ session'.up /\ session'.tx = "open" /\ commits' = commits
              /\ LogTo(savepoints[k]) \in Seq(Item)
              /\ Range(LogTo(savepoints[k])) \subseteq Range(log)
              /\ InOrder(LogTo(savepoints[k]))
              /\ Range(session'.work) \subseteq Range(session.work)
              /\ Range(LogTo(savepoints[k])) = Tables(Range(session'.work))
              /\ Cuts(LogTo(savepoints[k]), SubSeq(savepoints, 1, k),
                      session'.work, session'.sps, spCounter)
         /\ r.answer # "ok" =>
              \/ r.answer = "gone" /\ Dies /\ commits' = commits
              \/ /\ r.answer \in {"error", "aborted"} /\ session.up /\ lost' = lost
                 /\ session.tx = "none" /\ Untouched
<1>1. /\ ServerTypes /\ savepoints \in Seq(Savepoint) /\ log \in Seq(Item)
      /\ spCounter \in Nat /\ InOrder(log)
      /\ k \in 1 .. Len(savepoints) /\ k \in Nat
  BY DEF IInv, TypeInv, ClientTypes, NumbersInv
<1>2. /\ session.work \in Seq(Item) /\ session.sps \in Seq(Savepoint)
      /\ DOMAIN session.sps = 1 .. Len(session.sps)
  BY <1>1 DEF ServerTypes, Session
<1>3. session.tx # "none" =>
         /\ Cuts(log, savepoints, session.work, session.sps, spCounter)
         /\ Len(savepoints) = Len(session.sps)
         /\ session.sps[k].name = savepoints[k].name
  BY <1>1 DEF IInv, MirrorInv, Cuts
<1>4. session.tx = "none" => session.sps = << >>
  BY DEF IInv, SessionInv
<1>5. CASE session.tx = "none"
  <2>1. DOMAIN session.sps = {}
    BY <1>2, <1>4, <1>5
  <2>2. ~Poisoned
    BY <1>5 DEF Poisoned
  <2>3. QED
    BY <1>1, <1>5, <2>1, <2>2, RollbackToMeans
<1>6. CASE session.tx # "none"
  <2>1. \/ session.up /\ r.answer = "ok" /\ lost' = lost
             /\ \E i \in DOMAIN session.sps :
                  session.sps[i].name = savepoints[k].name /\ BackTo(i)
        \/ r.answer = "gone" /\ Dies /\ commits' = commits
    BY <1>1, <1>2, <1>3, <1>6, RollbackToMeans
  <2>2. CASE r.answer = "ok"
    <3>1. PICK i \in DOMAIN session.sps :
             session.sps[i].name = savepoints[k].name /\ BackTo(i)
      BY <2>1, <2>2
    <3>2. i = k
      BY <1>1, <1>2, <1>3, <1>6, <3>1, CutsNames
    <3>3. BackTo(k) /\ session.up /\ lost' = lost
      BY <2>1, <2>2, <3>1, <3>2
    <3>4. /\ LogTo(savepoints[k]) = SubSeq(log, 1, savepoints[k].mark)
          /\ session'.work = SubSeq(session.work, 1, session.sps[k].mark)
          /\ session'.sps = SubSeq(session.sps, 1, k)
          /\ session'.up /\ session'.tx = "open" /\ commits' = commits
      BY <3>3 DEF BackTo, LogTo
    <3>5. /\ LogTo(savepoints[k]) \in Seq(Item)
          /\ Range(LogTo(savepoints[k])) \subseteq Range(log)
          /\ Range(session'.work) \subseteq Range(session.work)
          /\ Range(LogTo(savepoints[k])) = Tables(Range(session'.work))
          /\ Cuts(LogTo(savepoints[k]), SubSeq(savepoints, 1, k),
                  session'.work, session'.sps, spCounter)
      BY <1>1, <1>2, <1>3, <1>6, <3>4, CutsBack
    <3>6. InOrder(LogTo(savepoints[k]))
      <4>1. savepoints[k].mark \in Nat /\ savepoints[k].mark <= Len(log)
        BY <1>1, <1>3, <1>6, SavepointTyped DEF Cuts
      <4>2. QED
        BY <1>1, <3>4, <4>1, PrefixTyped DEF InOrder
    <3>7. QED
      BY <1>6, <2>2, <3>3, <3>4, <3>5, <3>6
  <2>3. CASE r.answer # "ok"
    BY <2>1, <2>3
  <2>4. QED
    BY <2>2, <2>3
<1>7. QED
  BY <1>5, <1>6

LEMMA ProgramsTyped ==
  ASSUME NEW p, p \in DdlPrograms \/ \E own \in BOOLEAN : p \in DmlPrograms(own)
  PROVE  p \in Seq(Statements)
<1>0. /\ "table" \in Statements /\ "write" \in Statements /\ "row" \in Statements
      /\ "part" \in Statements /\ "set" \in Statements /\ "index" \in Statements
      /\ "raise" \in Statements /\ "throw" \in Statements /\ "reset" \in Statements
      /\ "begin" \in Statements /\ "commit" \in Statements
  BY DEF Statements
<1>1. ASSUME NEW a \in Statements, NEW b \in Statements, NEW c \in Statements,
             NEW d \in Statements
      PROVE  /\ << >> \in Seq(Statements) /\ << a >> \in Seq(Statements)
             /\ << a, b >> \in Seq(Statements)
             /\ << a, b, c >> \in Seq(Statements)
             /\ << a, b, c, d >> \in Seq(Statements)
  OBVIOUS
<1>2. /\ << >> \in Seq(Statements) /\ << "table", "write" >> \in Seq(Statements)
      /\ << "table", "write", "row" >> \in Seq(Statements)
      /\ << "table", "part", "write", "row" >> \in Seq(Statements)
      /\ << "set", "table", "set", "write" >> \in Seq(Statements)
      /\ << "index", "write" >> \in Seq(Statements)
  BY <1>0, <1>1
<1>3. /\ << "raise" >> \in Seq(Statements) /\ << "throw" >> \in Seq(Statements)
      /\ << "row" >> \in Seq(Statements) /\ << "row", "raise" >> \in Seq(Statements)
      /\ << "set", "row", "reset" >> \in Seq(Statements)
      /\ << "begin", "row", "commit" >> \in Seq(Statements)
  BY <1>0, <1>1
<1>4. CASE p \in DdlPrograms
  BY <1>2, <1>4 DEF DdlPrograms
<1>5. ASSUME NEW own \in BOOLEAN, p \in DmlPrograms(own)
      PROVE  p \in Seq(Statements)
  BY <1>3, <1>5 DEF DmlPrograms
<1>6. QED
  BY <1>4, <1>5

LEMMA TailTyped ==
  ASSUME NEW S, NEW p \in Seq(S), p # << >>
  PROVE  /\ Tail(p) \in Seq(S) /\ Len(Tail(p)) = Len(p) - 1 /\ Len(p) >= 1
         /\ p[1] = Head(p) /\ p[1] \in S
         /\ \A i \in 1 .. Len(p) - 1 : Tail(p)[i] = p[i + 1]
OBVIOUS

LEMMA TypeStep ==
  ASSUME IInv, [Next]_vars
  PROVE  TypeInv'
<1>1. /\ session' \in Session /\ commits' \in SUBSET SUBSET Item
      /\ items' \in Nat /\ lost' \in BOOLEAN /\ config' = config
  BY ServerStep, ConfigKept DEF ServerAfter
<1>2. prog # << >> => Tail(prog) \in Seq(Statements)
  BY TailTyped DEF IInv, TypeInv, ClientTypes
<1>3. Range(made) \subseteq Item
  BY DEF IInv, TypeInv, ClientTypes, Range
<1>4. Range(log) \subseteq Item
  BY DEF IInv, TypeInv, ClientTypes, Range
<1>5. ASSUME NEW n \in Nat
      PROVE  Append(savepoints, [name |-> n, mark |-> Len(log)]) \in Seq(Savepoint)
  <2>1. [name |-> n, mark |-> Len(log)] \in Savepoint
    BY DEF IInv, TypeInv, ClientTypes, Savepoint
  <2>2. QED
    BY <2>1 DEF IInv, TypeInv, ClientTypes
<1>6. /\ Begin \/ RunOwnBegin => session.tx = "none"
      /\ spCounter + 1 \in Nat
  BY BeginAlone DEF IInv, TypeInv, ClientTypes
<1>7. MaxSubs \in Nat /\ \A n \in 0 .. MaxSubs : n \in Nat
  BY SetupsAssumption DEF IInv, TypeInv, ClientTypes, Config, MaxSubs
<1>8. /\ << >> \in Seq(Item) /\ << >> \in Seq(Savepoint) /\ << >> \in Seq(Statements)
      /\ Len(<< >>) = 0 /\ Append(outcomes, end) \in Seq(Ends)
  BY DEF IInv, TypeInv, ClientTypes
<1>9. CASE Reconnect
  BY <1>9, <1>1, <1>8
     DEF Reconnect, client, history, subvars, IInv, TypeInv, ClientTypes,
         ServerTypes, Body, Answers
<1>10. CASE Begin
  <2>1. PICK r \in BeginResults :
           /\ Takes(r)
           /\ IF r.answer = "ok"
              THEN /\ pc' = "draw" /\ inTrx' = TRUE /\ armed' = TRUE
                   /\ log' = << >> /\ savepoints' = << >> /\ spCounter' = 0
                   /\ \E n \in 0 .. MaxSubs : subsLeft' = n
                   /\ end' = DefaultEnd
                   /\ exc' = "none" /\ begun' = begun + 1
                   /\ mine' = {}
                   /\ UNCHANGED branch
              ELSE /\ exc' = r.answer
                   /\ UNCHANGED << pc, client, begun, mine >>
    BY <1>10 DEF Begin
  <2>2. r.answer \in Answers
    BY <1>10, <1>6, <2>1, BeginMeans DEF IInv, TypeInv, Answers
  <2>3. UNCHANGED << config, catalog, subvars, outcomes, items >>
    BY <1>10 DEF Begin
  <2>4. CASE r.answer = "ok"
    <3>1. subsLeft' \in Nat /\ begun' \in Nat
      BY <2>1, <2>4, <1>7 DEF IInv, TypeInv, ClientTypes
    <3>2. QED
      BY <1>1, <1>8, <2>1, <2>3, <2>4, <3>1
         DEF subvars, IInv, TypeInv, ClientTypes, ServerTypes, Body, Ends,
             DefaultEnd
  <2>5. CASE r.answer # "ok"
    BY <1>1, <2>1, <2>2, <2>3, <2>5
       DEF client, subvars, IInv, TypeInv, ClientTypes, ServerTypes
  <2>6. QED
    BY <2>4, <2>5
<1>11. CASE Draw
  <2>1. prog' \in Seq(Statements)
    <3>1. prog' \in DdlPrograms \/ prog' \in DmlPrograms(~inTrx)
      BY <1>11 DEF Draw
    <3>2. (~inTrx) \in BOOLEAN
      BY DEF IInv, TypeInv, ClientTypes
    <3>3. QED
      BY <3>1, <3>2, ProgramsTyped
  <2>2. branch' \in {"mirror", "tail", "savepoint", "abort"}
    BY <1>11 DEF Draw, IInv, TypeInv, ClientTypes, Config
  <2>3. subsLeft' \in Nat /\ pc' \in Body /\ made' = << >>
    BY <1>11 DEF Draw, IInv, TypeInv, ClientTypes, Body
  <2>4. UNCHANGED << config, server, catalog, inTrx, armed, log, savepoints,
                     spCounter, end, ownGuard, exc, history >>
    BY <1>11 DEF Draw
  <2>5. ServerTypes'
    BY <1>1, <2>4 DEF history, server, IInv, TypeInv, ServerTypes
  <2>6. made' \in Seq(Item) /\ Len(made') <= 1 /\ sent' \in BOOLEAN
    <3>1. sent' \in BOOLEAN
      <4>1. sent' = FALSE
        BY <1>11 DEF Draw
      <4>2. QED
        BY <4>1
    <3>2. QED
      BY <1>8, <2>3, <3>1
  <2>7. ClientTypes'
    BY <1>1, <2>1, <2>2, <2>3, <2>4, <2>6
       DEF history, IInv, TypeInv, ClientTypes, Body
  <2>8. QED
    BY <2>5, <2>7 DEF TypeInv
<1>12. CASE TakeSavepoint
  <2>1. spCounter' = spCounter + 1 /\ spCounter' \in Nat
    BY <1>12, <1>6 DEF TakeSavepoint
  <2>2. PICK r \in SavepointResults(spCounter') :
           /\ Takes(r)
           /\ IF r.answer = "ok"
              THEN /\ savepoints' =
                        Append(savepoints, [name |-> spCounter', mark |-> Len(log)])
                   /\ pc' = "run" /\ UNCHANGED exc
              ELSE pc' = "leave" /\ exc' = r.answer /\ UNCHANGED savepoints
    BY <1>12 DEF TakeSavepoint
  <2>3. r.answer \in Answers
    BY <2>1, <2>2, SavepointMeans DEF IInv, TypeInv, Answers
  <2>4. savepoints' \in Seq(Savepoint)
    BY <2>1, <2>2, <1>5 DEF IInv, TypeInv, ClientTypes
  <2>5. UNCHANGED << config, catalog, inTrx, armed, log, subsLeft, branch, end,
                     subvars, outcomes, begun, items, mine >>
    BY <1>12 DEF TakeSavepoint
  <2>6. QED
    BY <1>1, <2>1, <2>2, <2>3, <2>4, <2>5
       DEF subvars, IInv, TypeInv, ClientTypes, ServerTypes, Body, Answers
<1>13. CASE RunTable
  <2> DEFINE item == [kind |-> "table", no |-> items + 1]
  <2>1. PICK r \in TableResults(item) :
           /\ Takes(r)
           /\ \/ r.answer = "ok" /\ Continue
              \/ r.answer # "ok" /\ Throw(r.answer)
              \/ prog' = << >> /\ UNCHANGED << pc, exc >>
           /\ made' = IF r.answer = "ok" THEN << item >> ELSE << >>
           /\ mine' = IF r.answer = "ok" /\ Buffered THEN mine \cup {item} ELSE mine
    BY <1>13 DEF RunTable
  <2>2. item \in Item /\ r.answer \in Answers
    BY <2>1, NewItem, TableMeans DEF Answers, IInv, TypeInv
  <2> HIDE DEF item
  <2>3. made' \in Seq(Item) /\ Len(made') <= 1
    BY <2>1, <2>2
  <2>4. /\ UNCHANGED << config, catalog, client, ownGuard, outcomes, begun >>
        /\ sent' = TRUE /\ pc = "run" /\ prog # << >>
    BY <1>13 DEF RunTable, Step
  <2>5. prog' \in Seq(Statements)
    BY <1>2, <1>8, <2>1, <2>4 DEF Continue, Throw
  <2>6. /\ pc' \in {"run", "ownRollback", "caught"}
        /\ exc' \in (Answers \ {"ok"}) \cup {"none", "action", "other"}
    BY <2>1, <2>2, <2>4 DEF Continue, Throw, IInv, TypeInv, ClientTypes
  <2>7. mine' \in SUBSET Item
    BY <2>1, <2>2 DEF IInv, TypeInv, ServerTypes
  <2>8. QED
    BY <1>1, <2>3, <2>4, <2>5, <2>6, <2>7
       DEF client, IInv, TypeInv, ClientTypes, ServerTypes, Body
<1>14. CASE RunRow
  <2> DEFINE item == [kind |-> "row", no |-> items + 1]
  <2>1. PICK r \in RowResults(item) :
           /\ Checked(r)
           /\ mine' = IF r.answer = "ok" /\ Buffered THEN mine \cup {item} ELSE mine
    BY <1>14 DEF RunRow
  <2>2. item \in Item /\ r.answer \in Answers
    BY <2>1, NewItem, RowMeans DEF Answers, IInv, TypeInv, Checked
  <2> HIDE DEF item
  <2>3. /\ UNCHANGED << config, catalog, client, made, ownGuard, outcomes, begun >>
        /\ sent' = TRUE /\ pc = "run" /\ prog # << >>
    BY <1>14 DEF RunRow, Step
  <2>4. QED
    BY <1>1, <1>2, <2>1, <2>2, <2>3, <1>8
       DEF Checked, Continue, Throw, client, IInv, TypeInv,
           ClientTypes, ServerTypes, Body, Answers
<1>15. CASE RunSet
  BY <1>15, <1>1, <1>8, SetMeans, <1>2
     DEF RunSet, Checked, Continue, Step, Throw, client, IInv, TypeInv,
         ClientTypes, ServerTypes, Body, Answers
<1>16. CASE RunUnchecked
  BY <1>16, <1>1, <1>8, <1>2
     DEF RunUnchecked, Continue, Step, client, IInv, TypeInv, ClientTypes,
         ServerTypes, Body, Answers
<1>17. CASE RunWrite
  <2>1. log' \in Seq(Item)
    <3>1. log \in Seq(Item) /\ made \in Seq(Item)
      BY DEF IInv, TypeInv, ClientTypes
    <3>2. log \o made \in Seq(Item)
      BY <3>1, RangeOfConcat
    <3>3. QED
      BY <1>17, <3>1, <3>2 DEF RunWrite
  <2>2. catalog' \in SUBSET Item /\ prog' \in Seq(Statements) /\ made' = << >>
    BY <1>17, <1>2, <1>3
       DEF RunWrite, Step, Continue, IInv, TypeInv, ClientTypes, ServerTypes
  <2>3. /\ UNCHANGED << config, server, inTrx, armed, savepoints, spCounter,
                        subsLeft, branch, end, ownGuard, sent, history >>
        /\ UNCHANGED << pc, exc >>
    BY <1>17 DEF RunWrite, Continue
  <2>4. QED
    BY <1>1, <1>8, <2>1, <2>2, <2>3
       DEF history, server, IInv, TypeInv, ClientTypes, ServerTypes
<1>18. CASE RunRaise
  BY <1>18, <1>1, <1>8, <1>2
     DEF RunRaise, Step, Throw, client, history, server, IInv, TypeInv,
         ClientTypes, ServerTypes, Body, Answers
<1>19. CASE RunOwnBegin
  BY <1>19, <1>1, <1>8, BeginMeans, <1>2, <1>6
     DEF RunOwnBegin, Checked, Continue, Step, Throw, client, IInv, TypeInv,
         ClientTypes, ServerTypes, Body, Answers
<1>20. CASE RunOwnCommit
  BY <1>20, <1>1, <1>8, CommitMeans, <1>2
     DEF RunOwnCommit, Continue, Step, client, IInv, TypeInv, ClientTypes,
         ServerTypes, Body, Answers
<1>21. CASE OwnRollback
  BY <1>21, <1>1, <1>8
     DEF OwnRollback, client, IInv, TypeInv, ClientTypes, ServerTypes, Body,
         Answers
<1>22. CASE SubReturns
  BY <1>22, <1>1, <1>8
     DEF SubReturns, client, history, server, subvars, IInv, TypeInv,
         ClientTypes, ServerTypes, Body, Answers
<1>23. CASE Rewind
  <2>1. PICK k \in DOMAIN savepoints :
          \E r \in RollbackToResults(savepoints[k].name) :
             /\ Takes(r)
             /\ IF r.answer = "ok"
                THEN /\ Rewound(savepoints[k])
                     /\ savepoints' = SubSeq(savepoints, 1, k)
                     /\ pc' = "draw" /\ UNCHANGED exc
                ELSE /\ pc' = "caught" /\ exc' = r.answer
                     /\ UNCHANGED << log, savepoints, mine >>
    BY <1>23 DEF Rewind
  <2>2. PICK r \in RollbackToResults(savepoints[k].name) :
             /\ Takes(r)
             /\ IF r.answer = "ok"
                THEN /\ Rewound(savepoints[k])
                     /\ savepoints' = SubSeq(savepoints, 1, k)
                     /\ pc' = "draw" /\ UNCHANGED exc
                ELSE /\ pc' = "caught" /\ exc' = r.answer
                     /\ UNCHANGED << log, savepoints, mine >>
    BY <2>1
  <2>3. savepoints' \in Seq(Savepoint) /\ log' \in Seq(Item) /\ mine' \in SUBSET Item
    <3>1. k \in Nat /\ k <= Len(savepoints)
      BY DEF IInv, TypeInv, ClientTypes
    <3>2. SubSeq(savepoints, 1, k) \in Seq(Savepoint)
      BY <3>1, PrefixTyped DEF IInv, TypeInv, ClientTypes
    <3>3. QED
      BY <2>2, <3>2, BackStep DEF Rewound, IInv, TypeInv, ClientTypes, ServerTypes
  <2>4. r.answer \in Answers
    BY <2>2, BackStep DEF Answers
  <2>5. QED
    BY <1>1, <1>23, <2>2, <2>3, <2>4
       DEF Rewind, subvars, IInv, TypeInv, ClientTypes, ServerTypes, Body, Answers
<1>24. CASE NoRewind
  BY <1>24, <1>1, <1>8
     DEF NoRewind, client, history, server, subvars, IInv, TypeInv,
         ClientTypes, ServerTypes, Body, Answers
<1>25. CASE RecoverSavepoint
  <2>1. Len(savepoints) \in DOMAIN savepoints
    BY <1>25 DEF RecoverSavepoint, IInv, TypeInv, ClientTypes, ControlInv
  <2>2. PICK r \in RollbackToResults(savepoints[Len(savepoints)].name) :
           /\ Takes(r)
           /\ IF r.answer = "ok"
              THEN /\ Rewound(savepoints[Len(savepoints)])
                   /\ pc' = "draw" /\ exc' = "none"
              ELSE /\ pc' = "leave" /\ exc' = r.answer
                   /\ UNCHANGED << log, mine >>
    BY <1>25 DEF RecoverSavepoint, LastSavepoint
  <2>3. log' \in Seq(Item) /\ mine' \in SUBSET Item
    BY <2>1, <2>2, BackStep DEF Rewound, IInv, TypeInv, ClientTypes, ServerTypes
  <2>4. r.answer \in Answers
    BY <2>1, <2>2, BackStep DEF Answers
  <2>5. QED
    BY <1>1, <1>25, <2>2, <2>3, <2>4
       DEF RecoverSavepoint, subvars, IInv, TypeInv, ClientTypes, ServerTypes,
           Body, Answers
<1>26. CASE CountFailure
  <2>1. /\ pc' \in {"closeDdl", "draw"} /\ exc' = "none"
        /\ UNCHANGED << config, server, catalog, client, subvars, history >>
    BY <1>26 DEF CountFailure
  <2>2. QED
    BY <1>1, <2>1
       DEF client, history, server, subvars, IInv, TypeInv, ClientTypes,
           ServerTypes, Body
<1>27. CASE Rethrow
  BY <1>27, <1>1, <1>8
     DEF Rethrow, history, server, subvars, IInv, TypeInv, ClientTypes,
         ServerTypes, Body, Answers, ArmedOnRethrow
<1>28. CASE CloseDdl
  <2>1. PICK r \in CommitResults :
           /\ Takes(r)
           /\ IF r.answer = "ok" THEN pc' = "implicit" /\ UNCHANGED exc
              ELSE pc' = "leave" /\ exc' = r.answer
    BY <1>28 DEF CloseDdl
  <2>2. UNCHANGED << config, catalog, client, subvars, outcomes, begun, items, mine >>
    BY <1>28 DEF CloseDdl
  <2>3. r.answer \in Answers
    BY <2>1, CommitMeans DEF IInv, TypeInv, Answers
  <2>4. /\ pc' \in {"implicit", "leave"}
        /\ exc' \in (Answers \ {"ok"}) \cup {"none", "action", "other"}
    BY <2>1, <2>3 DEF IInv, TypeInv, ClientTypes
  <2>5. QED
    BY <1>1, <2>2, <2>4
       DEF client, subvars, IInv, TypeInv, ClientTypes, ServerTypes, Body
<1>29. CASE ImplicitCommit
  <2>1. /\ pc' = "draw"
        /\ UNCHANGED << config, server, spCounter, subsLeft, branch, subvars, exc,
                        history >>
    BY <1>29 DEF ImplicitCommit
  <2>2. /\ catalog' \in SUBSET Item /\ log' \in Seq(Item)
        /\ savepoints' \in Seq(Savepoint) /\ inTrx' \in BOOLEAN
        /\ armed' \in BOOLEAN /\ end' \in Ends
    BY <1>29, <1>4, <1>8
       DEF ImplicitCommit, IInv, TypeInv, ClientTypes, ServerTypes, Ends
  <2>3. QED
    BY <1>1, <2>1, <2>2
       DEF history, server, subvars, IInv, TypeInv, ClientTypes, ServerTypes, Body
<1>30. CASE Commit
  BY <1>30, <1>1, <1>8, CommitMeans
     DEF Commit, subvars, IInv, TypeInv, ClientTypes, ServerTypes, Body,
         Answers, Ends
<1>p. CASE PublishOp
  BY <1>p, OpFrame, OpPublished
     DEF IInv, TypeInv, ClientTypes, ServerTypes
<1>31. CASE EndPublish
  BY <1>31, <1>1, <1>8, <1>4, <1>8
     DEF EndPublish, client, history, server, subvars, IInv, TypeInv, ClientTypes,
         ServerTypes, Body, Answers
<1>32. CASE Rollback
  BY <1>32, <1>1, <1>8, RollbackMeans
     DEF Rollback, subvars, IInv, TypeInv, ClientTypes, ServerTypes, Body,
         Answers, Ends
<1>33. CASE EndTail
  BY <1>33, <1>1, <1>8
     DEF EndTail, client, history, server, subvars, IInv, TypeInv,
         ClientTypes, ServerTypes, Body, Answers
<1>34. CASE Leave
  BY <1>34, <1>1, <1>8, <1>8
     DEF Leave, server, subvars, IInv, TypeInv, ClientTypes, ServerTypes,
         Body, Answers
<1>35. CASE UNCHANGED vars
  BY <1>35, <1>1, <1>8 DEF vars, client, subvars, server, history, IInv, TypeInv, ClientTypes, ServerTypes, Body, Answers
<1>36. QED
  BY <1>p, <1>9, <1>10, <1>11, <1>12, <1>13, <1>14, <1>15, <1>16, <1>17, <1>18, <1>19,
     <1>20, <1>21, <1>22, <1>23, <1>24, <1>25, <1>26, <1>27, <1>28, <1>29,
     <1>30, <1>31, <1>32, <1>33, <1>34, <1>35 DEF Next, Execute, Stop

LEMMA OutcomeStep ==
  ASSUME IInv, [Next]_vars
  PROVE  OutcomeInv'
<1>1. CASE Reconnect
  BY <1>1
     DEF Reconnect, client, history, subvars, IInv, TypeInv, ClientTypes,
         OutcomeInv, Body
<1>2. CASE Begin
  BY <1>2
     DEF Begin, client, subvars, IInv, TypeInv, ClientTypes, OutcomeInv, Body
<1>3. CASE Draw
  BY <1>3
     DEF Draw, history, server, IInv, TypeInv, ClientTypes, OutcomeInv, Body
<1>4. CASE TakeSavepoint
  BY <1>4
     DEF TakeSavepoint, subvars, IInv, TypeInv, ClientTypes, OutcomeInv, Body
<1>5. CASE RunTable
  BY <1>5
     DEF RunTable, Continue, Step, Throw, client, IInv, TypeInv, ClientTypes,
         OutcomeInv, Body
<1>6. CASE RunRow
  BY <1>6
     DEF RunRow, Checked, Continue, Step, Throw, client, IInv, TypeInv,
         ClientTypes, OutcomeInv, Body
<1>7. CASE RunSet
  BY <1>7
     DEF RunSet, Checked, Continue, Step, Throw, client, IInv, TypeInv,
         ClientTypes, OutcomeInv, Body
<1>8. CASE RunUnchecked
  BY <1>8
     DEF RunUnchecked, Continue, Step, client, IInv, TypeInv, ClientTypes,
         OutcomeInv, Body
<1>9. CASE RunWrite
  BY <1>9
     DEF RunWrite, Continue, Step, history, server, IInv, TypeInv,
         ClientTypes, OutcomeInv, Body
<1>10. CASE RunRaise
  BY <1>10
     DEF RunRaise, Step, Throw, client, history, server, IInv, TypeInv,
         ClientTypes, OutcomeInv, Body
<1>11. CASE RunOwnBegin
  BY <1>11
     DEF RunOwnBegin, Checked, Continue, Step, Throw, client, IInv, TypeInv,
         ClientTypes, OutcomeInv, Body
<1>12. CASE RunOwnCommit
  BY <1>12
     DEF RunOwnCommit, Continue, Step, client, IInv, TypeInv, ClientTypes,
         OutcomeInv, Body
<1>13. CASE OwnRollback
  BY <1>13
     DEF OwnRollback, client, IInv, TypeInv, ClientTypes, OutcomeInv, Body
<1>14. CASE SubReturns
  BY <1>14
     DEF SubReturns, client, history, server, subvars, IInv, TypeInv,
         ClientTypes, OutcomeInv, Body
<1>15. CASE Rewind
  BY <1>15 DEF Rewind, subvars, IInv, TypeInv, ClientTypes, OutcomeInv, Body
<1>16. CASE NoRewind
  BY <1>16
     DEF NoRewind, client, history, server, subvars, IInv, TypeInv,
         ClientTypes, OutcomeInv, Body
<1>17. CASE RecoverSavepoint
  BY <1>17
     DEF RecoverSavepoint, subvars, IInv, TypeInv, ClientTypes, OutcomeInv,
         Body
<1>18. CASE CountFailure
  BY <1>18
     DEF CountFailure, client, history, server, subvars, IInv, TypeInv,
         ClientTypes, OutcomeInv, Body
<1>19. CASE Rethrow
  BY <1>19
     DEF Rethrow, history, server, subvars, IInv, TypeInv, ClientTypes,
         OutcomeInv, Body
<1>20. CASE CloseDdl
  BY <1>20
     DEF CloseDdl, client, subvars, IInv, TypeInv, ClientTypes, OutcomeInv,
         Body
<1>21. CASE ImplicitCommit
  BY <1>21
     DEF ImplicitCommit, history, server, subvars, IInv, TypeInv, ClientTypes,
         OutcomeInv, Body
<1>22. CASE Commit
  BY <1>22
     DEF Commit, subvars, IInv, TypeInv, ClientTypes, OutcomeInv, Body,
         Finished
<1>p. CASE PublishOp
  BY <1>p, OpFrame DEF IInv, OutcomeInv
<1>23. CASE EndPublish
  BY <1>23
     DEF EndPublish, client, history, server, subvars, IInv, TypeInv, ClientTypes,
         OutcomeInv, Body
<1>24. CASE Rollback
  BY <1>24
     DEF Rollback, subvars, IInv, TypeInv, ClientTypes, OutcomeInv, Body,
         Finished
<1>25. CASE EndTail
  BY <1>25
     DEF EndTail, client, history, server, subvars, IInv, TypeInv,
         ClientTypes, OutcomeInv, Body, Finished
<1>26. CASE Leave
  BY <1>26
     DEF Leave, server, subvars, IInv, TypeInv, ClientTypes, OutcomeInv, Body
<1>27. CASE UNCHANGED vars
  BY <1>27 DEF vars, client, subvars, server, history, IInv, TypeInv, ClientTypes, OutcomeInv, Body
<1>28. QED
  BY <1>p, <1>1, <1>2, <1>3, <1>4, <1>5, <1>6, <1>7, <1>8, <1>9, <1>10, <1>11,
     <1>12, <1>13, <1>14, <1>15, <1>16, <1>17, <1>18, <1>19, <1>20, <1>21,
     <1>22, <1>23, <1>24, <1>25, <1>26, <1>27 DEF Next, Execute, Stop

LEMMA ControlStep ==
  ASSUME IInv, [Next]_vars
  PROVE  ControlInv'
<1>1. /\ ServerTypes /\ config' = config
      /\ (TransactionalDDL' <=> TransactionalDDL)
  BY ConfigKept DEF IInv, TypeInv
<1>2. RunRaise => branch # "mirror"
  <2> SUFFICES ASSUME RunRaise
               PROVE  branch # "mirror"
    OBVIOUS
  <2>1. pc = "run" /\ 1 \in 1 .. Len(prog) /\ prog[1] \in {"raise", "throw"}
    BY DEF IInv, TypeInv, ClientTypes, RunRaise, Step
  <2>2. QED
    BY <2>1 DEF IInv, ProgramInv, Fits
<1>3. CASE Reconnect
  BY <1>3, <1>1, SessionsTyped
     DEF Reconnect, client, history, subvars, IInv, TypeInv, ClientTypes,
         SessionInv, ControlInv, ProgramInv, Body
<1>4. CASE Begin
  BY <1>4, <1>1, BeginMeans, BeginAlone, SessionsTyped
     DEF Begin, client, subvars, IInv, TypeInv, ClientTypes, SessionInv,
         ControlInv, ProgramInv, Body, Untouched, Dies, DefaultEnd
<1>5. CASE Draw
  BY <1>5, <1>1
     DEF Draw, history, server, IInv, TypeInv, ClientTypes, SessionInv,
         ControlInv, ProgramInv, Body, DdlInPool, Config
<1>6. CASE TakeSavepoint
  <2>1. spCounter' = spCounter + 1 /\ spCounter' \in Nat
    BY <1>6 DEF TakeSavepoint, IInv, TypeInv, ClientTypes
  <2>2. PICK r \in SavepointResults(spCounter') :
           /\ Takes(r)
           /\ IF r.answer = "ok"
              THEN /\ savepoints' =
                        Append(savepoints, [name |-> spCounter', mark |-> Len(log)])
                   /\ pc' = "run" /\ UNCHANGED exc
              ELSE pc' = "leave" /\ exc' = r.answer /\ UNCHANGED savepoints
    BY <1>6 DEF TakeSavepoint
  <2>3. /\ r.answer = "gone" => ~session'.up
        /\ r.answer = "ok" => session.up
    BY <1>1, <2>1, <2>2, SavepointMeans, SessionsTyped DEF Dies
  <2>4. Append(savepoints, [name |-> spCounter', mark |-> Len(log)]) # << >>
    BY DEF IInv, TypeInv, ClientTypes
  <2>5. QED
    BY <1>1, <1>6, <2>2, <2>3, <2>4
       DEF TakeSavepoint, subvars, IInv, TypeInv, ClientTypes, ControlInv, Body
<1>7. CASE RunTable
  BY <1>7, <1>1, TableMeans, SessionsTyped
     DEF RunTable, Continue, Step, Throw, client, IInv, TypeInv, ClientTypes,
         SessionInv, ControlInv, ProgramInv, Body, Untouched, Poisoned, Dies,
         Works, Alone
<1>8. CASE RunRow
  BY <1>8, <1>1, RowMeans, SessionsTyped
     DEF RunRow, Checked, Continue, Step, Throw, client, IInv, TypeInv,
         ClientTypes, SessionInv, ControlInv, ProgramInv, Body, Untouched,
         Poisoned, Dies, Works, Alone, Cancelled
<1>9. CASE RunSet
  BY <1>9, <1>1, SetMeans, SessionsTyped
     DEF RunSet, Checked, Continue, Step, Throw, client, IInv, TypeInv,
         ClientTypes, SessionInv, ControlInv, ProgramInv, Body, Untouched,
         Dies
<1>10. CASE RunUnchecked
  BY <1>10, <1>1, SetMeans, PartMeans, SessionsTyped
     DEF RunUnchecked, Continue, Step, client, IInv, TypeInv, ClientTypes,
         SessionInv, ControlInv, ProgramInv, Body, Untouched, Poisoned, Dies
<1>11. CASE RunWrite
  BY <1>11, <1>1
     DEF RunWrite, Continue, Step, history, server, IInv, TypeInv,
         ClientTypes, SessionInv, ControlInv, ProgramInv, Body, Buffered
<1>12. CASE RunRaise
  BY <1>12, <1>1, <1>2
     DEF RunRaise, Step, Throw, client, history, server, IInv, TypeInv,
         ClientTypes, SessionInv, ControlInv, ProgramInv, Body
<1>13. CASE RunOwnBegin
  BY <1>13, <1>1, BeginMeans, BeginAlone, SessionsTyped
     DEF RunOwnBegin, Checked, Continue, Step, Throw, client, IInv, TypeInv,
         ClientTypes, SessionInv, ControlInv, ProgramInv, Body, Untouched,
         Dies
<1>14. CASE RunOwnCommit
  BY <1>14, <1>1, CommitMeans, SessionsTyped
     DEF RunOwnCommit, Continue, Step, client, IInv, TypeInv, ClientTypes,
         SessionInv, ControlInv, ProgramInv, Body, Dies, Kept, Cancelled
<1>15. CASE OwnRollback
  BY <1>15, <1>1, RollbackMeans, SessionsTyped
     DEF OwnRollback, client, IInv, TypeInv, ClientTypes, SessionInv,
         ControlInv, ProgramInv, Body, Dies, Cancelled
<1>16. CASE SubReturns
  BY <1>16, <1>1
     DEF SubReturns, client, history, server, subvars, IInv, TypeInv,
         ClientTypes, SessionInv, ControlInv, ProgramInv, Body, Owns
<1>17. CASE Rewind
  <2>1. PICK k \in DOMAIN savepoints :
          \E r \in RollbackToResults(savepoints[k].name) :
             /\ Takes(r)
             /\ IF r.answer = "ok"
                THEN /\ Rewound(savepoints[k])
                     /\ savepoints' = SubSeq(savepoints, 1, k)
                     /\ pc' = "draw" /\ UNCHANGED exc
                ELSE /\ pc' = "caught" /\ exc' = r.answer
                     /\ UNCHANGED << log, savepoints, mine >>
    BY <1>17 DEF Rewind
  <2>2. PICK r \in RollbackToResults(savepoints[k].name) :
             /\ Takes(r)
             /\ IF r.answer = "ok"
                THEN /\ Rewound(savepoints[k])
                     /\ savepoints' = SubSeq(savepoints, 1, k)
                     /\ pc' = "draw" /\ UNCHANGED exc
                ELSE /\ pc' = "caught" /\ exc' = r.answer
                     /\ UNCHANGED << log, savepoints, mine >>
    BY <2>1
  <2>3. /\ r.answer = "ok" => session.up /\ session'.up
        /\ r.answer = "gone" => ~session'.up
    BY <2>2, BackStep, SessionsTyped DEF Dies
  <2>4. QED
    BY <1>1, <1>17, <2>2, <2>3
       DEF Rewind, subvars, IInv, TypeInv, ClientTypes, ControlInv, Body
<1>18. CASE NoRewind
  BY <1>18, <1>1
     DEF NoRewind, client, history, server, subvars, IInv, TypeInv,
         ClientTypes, SessionInv, ControlInv, ProgramInv, Body
<1>19. CASE RecoverSavepoint
  <2>1. Len(savepoints) \in DOMAIN savepoints
    BY <1>19 DEF RecoverSavepoint, IInv, TypeInv, ClientTypes, ControlInv
  <2>2. PICK r \in RollbackToResults(savepoints[Len(savepoints)].name) :
           /\ Takes(r)
           /\ IF r.answer = "ok"
              THEN /\ Rewound(savepoints[Len(savepoints)])
                   /\ pc' = "draw" /\ exc' = "none"
              ELSE /\ pc' = "leave" /\ exc' = r.answer
                   /\ UNCHANGED << log, mine >>
    BY <1>19 DEF RecoverSavepoint, LastSavepoint
  <2>3. r.answer = "gone" => ~session'.up
    BY <2>1, <2>2, BackStep, SessionsTyped DEF Dies
  <2>4. QED
    BY <1>1, <1>19, <2>2, <2>3
       DEF RecoverSavepoint, subvars, IInv, TypeInv, ClientTypes, ControlInv, Body
<1>20. CASE CountFailure
  BY <1>20, <1>1
     DEF CountFailure, client, history, server, subvars, IInv, TypeInv,
         ClientTypes, SessionInv, ControlInv, ProgramInv, Body, NeedsClose,
         Recoverable
<1>21. CASE Rethrow
  BY <1>21, <1>1
     DEF Rethrow, history, server, subvars, IInv, TypeInv, ClientTypes,
         SessionInv, ControlInv, ProgramInv, Body, ArmedOnRethrow, Recoverable
<1>22. CASE CloseDdl
  BY <1>22, <1>1, CommitMeans, SessionsTyped
     DEF CloseDdl, client, subvars, IInv, TypeInv, ClientTypes, SessionInv,
         ControlInv, ProgramInv, Body, Dies, Kept, Cancelled
<1>23. CASE ImplicitCommit
  BY <1>23, <1>1
     DEF ImplicitCommit, history, server, subvars, IInv, TypeInv, ClientTypes,
         SessionInv, ControlInv, ProgramInv, Body, ImplicitlyCommitted
<1>24. CASE Commit
  BY <1>24, <1>1, CommitMeans, SessionsTyped
     DEF Commit, subvars, IInv, TypeInv, ClientTypes, SessionInv, ControlInv,
         ProgramInv, Body, Dies, Kept, Cancelled
<1>p. CASE PublishOp
  BY <1>p, <1>1, OpFrame, OpAlone DEF IInv, ControlInv, Body
<1>25. CASE EndPublish
  BY <1>25, <1>1
     DEF EndPublish, client, history, server, subvars, IInv, TypeInv, ClientTypes,
         SessionInv, ControlInv, ProgramInv, Body
<1>26. CASE Rollback
  BY <1>26, <1>1, RollbackMeans, SessionsTyped
     DEF Rollback, subvars, IInv, TypeInv, ClientTypes, SessionInv,
         ControlInv, ProgramInv, Body, Dies, Cancelled
<1>27. CASE EndTail
  BY <1>27, <1>1
     DEF EndTail, client, history, server, subvars, IInv, TypeInv,
         ClientTypes, SessionInv, ControlInv, ProgramInv, Body, Finished
<1>28. CASE Leave
  BY <1>28, <1>1, RollbackMeans, SessionsTyped
     DEF Leave, server, subvars, IInv, TypeInv, ClientTypes, SessionInv,
         ControlInv, ProgramInv, Body, Dies, Cancelled
<1>29. CASE UNCHANGED vars
  BY <1>29, <1>1 DEF vars, client, subvars, server, history, IInv, TypeInv, ClientTypes, SessionInv, ControlInv, ProgramInv, Body
<1>30. QED
  BY <1>p, <1>3, <1>4, <1>5, <1>6, <1>7, <1>8, <1>9, <1>10, <1>11, <1>12, <1>13,
     <1>14, <1>15, <1>16, <1>17, <1>18, <1>19, <1>20, <1>21, <1>22, <1>23,
     <1>24, <1>25, <1>26, <1>27, <1>28, <1>29 DEF Next, Execute, Stop

LEMMA MirrorPrograms ==
  ASSUME NEW p \in Seq(Statements), p # << >>, NEW pg, NEW b, Fits(p, pg, b)
  PROVE  b = "mirror" => p[1] \in {"table", "index", "set", "write", "row"}
<1>1. 1 \in 1 .. Len(p)
  OBVIOUS
<1>2. QED
  BY <1>1 DEF Fits

\* What a program's first statement says of the rest of it.
LEMMA RestFits ==
  ASSUME NEW p \in Seq(Statements), p # << >>, NEW pg, NEW b, Fits(p, pg, b)
  PROVE  /\ Fits(Tail(p), pg, b)
         /\ p[1] = "begin" => ~Owns(p) /\ Owns(Tail(p))
         /\ p[1] = "commit" => Owns(p) /\ ~Owns(Tail(p))
         /\ p[1] \notin {"begin", "commit"} => (Owns(p) <=> Owns(Tail(p)))
         /\ p[1] \in {"table", "index", "write"} => ~Owns(p)
         /\ p[1] \in {"table", "index"} => WriteSoon(Tail(p))
         /\ p[1] \in {"part", "set"} /\ WriteSoon(p) => WriteSoon(Tail(p))
         /\ WriteSoon(p) => p[1] \in {"write", "part", "set"}
         /\ Unsent(p) => /\ p[1] \in {"table", "index", "set"}
                         /\ p[1] = "set" => Unsent(Tail(p))
         /\ p[1] # "row" /\ p[Len(p)] = "row" =>
              Len(Tail(p)) >= 1 /\ Tail(p)[Len(Tail(p))] = "row"
         /\ p[1] = "part" => pg /\ p[Len(p)] = "row"
         /\ p[1] = "index" => ~pg
         /\ b = "mirror" => p[1] \in {"table", "index", "set", "write", "row"}
<1> DEFINE q == Tail(p)
<1>1. /\ Len(q) = Len(p) - 1 /\ Len(p) >= 1 /\ Len(p) \in Nat /\ Len(q) \in Nat
      /\ \A i \in 1 .. Len(q) : q[i] = p[i + 1] /\ i + 1 \in 1 .. Len(p)
      /\ 1 \in 1 .. Len(p)
  BY TailTyped
<1> HIDE DEF q
<1>2. \A i : WriteAt(q, i) <=> i \in 1 .. Len(q) /\ WriteAt(p, i + 1)
  BY <1>1 DEF WriteAt
<1>3. Fits(q, pg, b)
  <2> SUFFICES ASSUME NEW i \in 1 .. Len(q)
               PROVE  /\ q[i] \in {"table", "index"} =>
                           \/ WriteAt(q, i + 1)
                           \/ /\ i + 1 \in 1 .. Len(q)
                              /\ q[i + 1] \in {"part", "set"}
                              /\ WriteAt(q, i + 2)
                      /\ q[i] = "part" => pg /\ q[Len(q)] = "row"
                      /\ q[i] # "begin"
                      /\ q[i] = "commit" => /\ b = "tail" /\ i = Len(q)
                                            /\ Len(q) <= 3 /\ Len(q) # 3
                                            /\ i > 1 => q[i - 1] = "row"
                      /\ q[i] = "index" => ~pg
                      /\ b = "mirror" =>
                           q[i] \in {"table", "index", "set", "write", "row"}
                      /\ b \in {"savepoint", "abort"} =>
                           /\ ~pg => q[i] \notin {"table", "index", "write", "part"}
                           /\ pg /\ q[i] = "set" => ~WriteAt(q, i + 1)
    BY DEF Fits
  <2>1. /\ i + 1 \in 1 .. Len(p) /\ q[i] = p[i + 1] /\ i + 1 # 1
        /\ q[Len(q)] = p[Len(p)]
    BY <1>1
  <2>2. q[i] \in {"table", "index"} =>
             \/ WriteAt(q, i + 1)
             \/ i + 1 \in 1 .. Len(q) /\ q[i + 1] \in {"part", "set"}
                  /\ WriteAt(q, i + 2)
    <3> SUFFICES ASSUME p[i + 1] \in {"table", "index"}
                 PROVE  \/ WriteAt(q, i + 1)
                        \/ i + 1 \in 1 .. Len(q) /\ q[i + 1] \in {"part", "set"}
                             /\ WriteAt(q, i + 2)
      BY <2>1
    <3>1. \/ WriteAt(p, (i + 1) + 1)
          \/ (i + 1) + 1 \in 1 .. Len(p) /\ p[(i + 1) + 1] \in {"part", "set"}
               /\ WriteAt(p, (i + 1) + 2)
      BY <2>1 DEF Fits
    <3>2. CASE WriteAt(p, (i + 1) + 1)
      BY <1>1, <1>2, <3>2 DEF WriteAt
    <3>3. CASE (i + 1) + 1 \in 1 .. Len(p) /\ p[(i + 1) + 1] \in {"part", "set"}
                 /\ WriteAt(p, (i + 1) + 2)
      <4>1. i + 1 \in 1 .. Len(q) /\ q[i + 1] = p[(i + 1) + 1]
        BY <1>1, <3>3
      <4>2. WriteAt(q, i + 2)
        BY <1>1, <3>3 DEF WriteAt
      <4>3. QED
        BY <3>3, <4>1, <4>2
    <3>4. QED
      BY <3>1, <3>2, <3>3
  <2>3. /\ q[i] = "part" => pg /\ q[Len(q)] = "row"
        /\ q[i] # "begin"
        /\ q[i] = "commit" => /\ b = "tail" /\ i = Len(q)
                              /\ Len(q) <= 3 /\ Len(q) # 3
                              /\ i > 1 => q[i - 1] = "row"
        /\ q[i] = "index" => ~pg
        /\ b = "mirror" => q[i] \in {"table", "index", "set", "write", "row"}
    BY <1>1, <2>1 DEF Fits
  <2>4. b \in {"savepoint", "abort"} =>
             /\ ~pg => q[i] \notin {"table", "index", "write", "part"}
             /\ pg /\ q[i] = "set" => ~WriteAt(q, i + 1)
    BY <1>1, <1>2, <2>1 DEF Fits
  <2>5. QED
    BY <2>2, <2>3, <2>4
<1>4. /\ p[1] = "begin" => ~Owns(p) /\ Owns(q)
      /\ p[1] = "commit" => Owns(p) /\ ~Owns(q)
  BY <1>1 DEF Fits, Owns
<1>5. ASSUME p[1] \notin {"begin", "commit"}
      PROVE  Owns(p) <=> Owns(q)
  <2>1. Owns(p) => Len(p) = 2 /\ p[2] = "commit"
    BY <1>1, <1>5 DEF Owns
  <2>2. Owns(q) => Len(p) = 2 /\ p[2] = "commit"
    <3> SUFFICES ASSUME Owns(q)
                 PROVE  Len(p) = 2 /\ p[2] = "commit"
      OBVIOUS
    <3>1. Len(p) \in 2 .. 3 /\ p[Len(p)] = "commit"
      BY <1>1 DEF Owns
    <3>2. Len(p) = 3 => p[1] = "begin"
      BY <1>1, <3>1 DEF Fits
    <3>3. QED
      BY <1>1, <1>5, <3>1, <3>2
  <2>3. Len(p) = 2 /\ p[2] = "commit" => Owns(p) /\ Owns(q)
    BY <1>1 DEF Owns
  <2>4. QED
    BY <2>1, <2>2, <2>3
<1>6. ASSUME p[1] \in {"table", "index"}
      PROVE  WriteSoon(q) /\ ~Owns(p)
  <2>1. \/ WriteAt(p, 2)
        \/ 2 \in 1 .. Len(p) /\ p[2] \in {"part", "set"} /\ WriteAt(p, 3)
    BY <1>1, <1>6 DEF Fits
  <2>2. QED
    BY <1>1, <1>6, <2>1 DEF WriteAt, WriteSoon, Owns
<1>7. /\ p[1] \in {"part", "set"} /\ WriteSoon(p) => WriteSoon(q)
      /\ WriteSoon(p) => p[1] \in {"write", "part", "set"}
      /\ Unsent(p) => /\ p[1] \in {"table", "index", "set"}
                      /\ p[1] = "set" => Unsent(q)
  BY <1>1 DEF WriteSoon, Unsent
<1>8. p[1] # "row" /\ p[Len(p)] = "row" => Len(q) >= 1 /\ q[Len(q)] = "row"
  BY <1>1
<1>9. /\ p[1] = "part" => pg /\ p[Len(p)] = "row"
      /\ p[1] = "index" => ~pg
      /\ b = "mirror" => p[1] \in {"table", "index", "set", "write", "row"}
  BY <1>1 DEF Fits
<1>10. p[1] = "write" => ~Owns(p)
  BY <1>1 DEF Fits, Owns
<1>11. QED
  BY <1>3, <1>4, <1>5, <1>6, <1>7, <1>8, <1>9, <1>10 DEF q

LEMMA DdlFits ==
  ASSUME NEW p \in DdlPrograms, NEW b,
         b = "mirror" => ~TransactionalDDL,
         b \in {"savepoint", "abort"} => TransactionalDDL
  PROVE  /\ Fits(p, TransactionalDDL, b) /\ ~Owns(p)
         /\ p = << >> \/ Unsent(p)
<1>1. p = << "table", "part", "write", "row" >> => TransactionalDDL
  BY DEF DdlPrograms
<1>2. p \in {<< "set", "table", "set", "write" >>, << "index", "write" >>}
        => ~TransactionalDDL
  BY DEF DdlPrograms
<1>3. CASE p = << >>
  <2>1. Len(p) = 0
    BY <1>3
  <2>2. Fits(p, TransactionalDDL, b)
    BY <2>1, <1>1, <1>2, <1>3 DEF Fits, WriteAt
  <2>3. ~Owns(p) /\ (p = << >> \/ Unsent(p))
    BY <1>3, <2>1 DEF Owns, Unsent
  <2>4. QED
    BY <2>2, <2>3
<1>4. CASE p = << "table", "write" >>
  <2>1. Len(p) = 2 /\ p[1] = "table" /\ p[2] = "write"
    BY <1>4
  <2>2. Fits(p, TransactionalDDL, b)
    BY <2>1, <1>1, <1>2, <1>4 DEF Fits, WriteAt
  <2>3. ~Owns(p) /\ (p = << >> \/ Unsent(p))
    BY <1>4, <2>1 DEF Owns, Unsent
  <2>4. QED
    BY <2>2, <2>3
<1>5. CASE p = << "table", "write", "row" >>
  <2>1. Len(p) = 3 /\ p[1] = "table" /\ p[2] = "write" /\ p[3] = "row"
    BY <1>5
  <2>2. Fits(p, TransactionalDDL, b)
    BY <2>1, <1>1, <1>2, <1>5 DEF Fits, WriteAt
  <2>3. ~Owns(p) /\ (p = << >> \/ Unsent(p))
    BY <1>5, <2>1 DEF Owns, Unsent
  <2>4. QED
    BY <2>2, <2>3
<1>6. CASE p = << "table", "part", "write", "row" >>
  <2>1. Len(p) = 4 /\ p[1] = "table" /\ p[2] = "part" /\ p[3] = "write"
        /\ p[4] = "row"
    BY <1>6
  <2>2. Fits(p, TransactionalDDL, b)
    BY <2>1, <1>1, <1>2, <1>6 DEF Fits, WriteAt
  <2>3. ~Owns(p) /\ (p = << >> \/ Unsent(p))
    BY <1>6, <2>1 DEF Owns, Unsent
  <2>4. QED
    BY <2>2, <2>3
<1>7. CASE p = << "set", "table", "set", "write" >>
  <2>1. Len(p) = 4 /\ p[1] = "set" /\ p[2] = "table" /\ p[3] = "set"
        /\ p[4] = "write"
    BY <1>7
  <2>2. Fits(p, TransactionalDDL, b)
    BY <2>1, <1>1, <1>2, <1>7 DEF Fits, WriteAt
  <2>3. ~Owns(p) /\ (p = << >> \/ Unsent(p))
    BY <1>7, <2>1 DEF Owns, Unsent
  <2>4. QED
    BY <2>2, <2>3
<1>8. CASE p = << "index", "write" >>
  <2>1. Len(p) = 2 /\ p[1] = "index" /\ p[2] = "write"
    BY <1>8
  <2>2. Fits(p, TransactionalDDL, b)
    BY <2>1, <1>1, <1>2, <1>8 DEF Fits, WriteAt
  <2>3. ~Owns(p) /\ (p = << >> \/ Unsent(p))
    BY <1>8, <2>1 DEF Owns, Unsent
  <2>4. QED
    BY <2>2, <2>3
<1>9. QED
  BY <1>3, <1>4, <1>5, <1>6, <1>7, <1>8 DEF DdlPrograms

LEMMA DmlFits ==
  ASSUME NEW own \in BOOLEAN, NEW p \in DmlPrograms(own), NEW b,
         b # "mirror", own => b = "tail"
  PROVE  Fits(p, TransactionalDDL, b) /\ ~Owns(p)
<1>1. b # "mirror" /\ (p = << "begin", "row", "commit" >> => b = "tail")
  BY DEF DmlPrograms
<1>2. CASE p = << "raise" >>
  <2>1. Len(p) = 1 /\ p[1] = "raise"
    BY <1>2
  <2>2. Fits(p, TransactionalDDL, b)
    BY <2>1, <1>1, <1>2 DEF Fits, WriteAt
  <2>3. ~Owns(p)
    BY <1>2, <2>1 DEF Owns
  <2>4. QED
    BY <2>2, <2>3
<1>3. CASE p = << "throw" >>
  <2>1. Len(p) = 1 /\ p[1] = "throw"
    BY <1>3
  <2>2. Fits(p, TransactionalDDL, b)
    BY <2>1, <1>1, <1>3 DEF Fits, WriteAt
  <2>3. ~Owns(p)
    BY <1>3, <2>1 DEF Owns
  <2>4. QED
    BY <2>2, <2>3
<1>4. CASE p = << "row" >>
  <2>1. Len(p) = 1 /\ p[1] = "row"
    BY <1>4
  <2>2. Fits(p, TransactionalDDL, b)
    BY <2>1, <1>1, <1>4 DEF Fits, WriteAt
  <2>3. ~Owns(p)
    BY <1>4, <2>1 DEF Owns
  <2>4. QED
    BY <2>2, <2>3
<1>5. CASE p = << "row", "raise" >>
  <2>1. Len(p) = 2 /\ p[1] = "row" /\ p[2] = "raise"
    BY <1>5
  <2>2. Fits(p, TransactionalDDL, b)
    BY <2>1, <1>1, <1>5 DEF Fits, WriteAt
  <2>3. ~Owns(p)
    BY <1>5, <2>1 DEF Owns
  <2>4. QED
    BY <2>2, <2>3
<1>6. CASE p = << "set", "row", "reset" >>
  <2>1. Len(p) = 3 /\ p[1] = "set" /\ p[2] = "row" /\ p[3] = "reset"
    BY <1>6
  <2>2. Fits(p, TransactionalDDL, b)
    BY <2>1, <1>1, <1>6 DEF Fits, WriteAt
  <2>3. ~Owns(p)
    BY <1>6, <2>1 DEF Owns
  <2>4. QED
    BY <2>2, <2>3
<1>7. CASE p = << "begin", "row", "commit" >>
  <2>1. Len(p) = 3 /\ p[1] = "begin" /\ p[2] = "row" /\ p[3] = "commit"
    BY <1>7
  <2>2. Fits(p, TransactionalDDL, b)
    BY <2>1, <1>1, <1>7 DEF Fits, WriteAt
  <2>3. ~Owns(p)
    BY <1>7, <2>1 DEF Owns
  <2>4. QED
    BY <2>2, <2>3
<1>8. QED
  BY <1>2, <1>3, <1>4, <1>5, <1>6, <1>7 DEF DmlPrograms

\* After a statement that did not throw.
LEMMA Progress ==
  ASSUME IInv, [Next]_vars, pc = "run", prog # << >>, prog' = Tail(prog),
         branch' = branch
  PROVE  /\ Fits(prog', TransactionalDDL', branch')
         /\ prog[1] = "begin" => Owns(prog')
         /\ prog[1] = "commit" => ~Owns(prog')
         /\ prog[1] = "write" => ~ownGuard
         /\ prog[1] \notin {"begin", "commit"} => (ownGuard <=> Owns(prog'))
         /\ prog[1] \in {"table", "index"} => WriteSoon(prog')
         /\ made # << >> => /\ prog[1] \in {"write", "part", "set"}
                            /\ prog[1] # "write" => WriteSoon(prog')
         /\ branch = "mirror" =>
              /\ prog[1] \in {"table", "index", "set", "write", "row"}
              /\ session.tx = "open" => /\ prog[1] \in {"table", "index", "set"}
                                        /\ prog[1] = "set" => Unsent(prog')
         /\ prog[1] # "row" /\ session.tx = "failed" =>
              Len(prog') >= 1 /\ prog'[Len(prog')] = "row"
         /\ prog[1] = "part" => /\ TransactionalDDL
                                /\ Len(prog') >= 1 /\ prog'[Len(prog')] = "row"
         /\ prog[1] = "index" => ~TransactionalDDL
<1>1. /\ prog \in Seq(Statements) /\ (TransactionalDDL' <=> TransactionalDDL)
      /\ Fits(prog, TransactionalDDL, branch) /\ (ownGuard <=> Owns(prog))
      /\ made # << >> => WriteSoon(prog)
      /\ branch = "mirror" /\ session.tx = "open" => Unsent(prog)
      /\ session.tx = "failed" => prog[Len(prog)] = "row"
  BY ConfigKept DEF IInv, TypeInv, ClientTypes, ProgramInv
<1>2. Fits(prog', TransactionalDDL', branch')
  <2>1. Fits(Tail(prog), TransactionalDDL, branch)
    BY <1>1, RestFits
  <2>2. QED
    BY <1>1, <2>1 DEF Fits
<1>3. QED
  BY <1>1, <1>2, RestFits

LEMMA ProgramStep ==
  ASSUME IInv, [Next]_vars
  PROVE  ProgramInv'
<1>1. /\ ServerTypes /\ config' = config
      /\ (TransactionalDDL' <=> TransactionalDDL)
      /\ session.tx = "failed" => TransactionalDDL
  BY ConfigKept DEF IInv, TypeInv, SessionInv
<1>2. prog # << >> => Head(prog) = prog[1] /\ Len(prog) >= 1
  BY DEF IInv, TypeInv, ClientTypes
<1>3. ~Owns(<< >>) /\ \A pg, b : Fits(<< >>, pg, b)
  BY DEF Owns, Fits
<1>4. CASE Reconnect
  BY <1>4, <1>1, <1>3
     DEF Reconnect, client, history, subvars, IInv, ProgramInv
<1>5. CASE Begin
  BY <1>5, <1>1, <1>3 DEF Begin, client, subvars, IInv, ProgramInv
<1>6. CASE Draw
  <2>1. /\ made' = << >> /\ session' = session /\ sent' = FALSE
        /\ ownGuard' = ownGuard /\ ~ownGuard /\ session.tx # "failed"
    BY <1>6 DEF Draw, server, IInv, TypeInv, ServerTypes, ControlInv,
              TransactionInv, SessionInv, Session
  <2>2. \/ /\ prog' \in DdlPrograms
           /\ branch' = "mirror" => ~TransactionalDDL
           /\ branch' \in {"savepoint", "abort"} => TransactionalDDL
        \/ /\ prog' \in DmlPrograms(~inTrx) /\ branch' # "mirror"
           /\ ~inTrx => branch' = "tail"
    BY <1>6 DEF Draw, IInv, TypeInv, ClientTypes, Config
  <2>3. Fits(prog', TransactionalDDL, branch') /\ ~Owns(prog')
    <3>1. (~inTrx) \in BOOLEAN
      BY DEF IInv, TypeInv, ClientTypes
    <3>2. QED
      BY <2>2, <3>1, DdlFits, DmlFits
  <2>4. branch' = "mirror" => prog' = << >> \/ Unsent(prog')
    BY <2>2, DdlFits
  <2>5. Fits(prog', TransactionalDDL', branch')
    BY <1>1, <2>3 DEF Fits
  <2>6. QED
    BY <2>1, <2>3, <2>4, <2>5 DEF ProgramInv
<1>7. CASE TakeSavepoint
  <2>1. PICK r \in SavepointResults(spCounter + 1) :
           /\ Takes(r)
           /\ r.answer = "ok" \/ pc' = "leave"
    BY <1>7 DEF TakeSavepoint
  <2>2. pc = "savepoint" /\ branch' = branch /\ UNCHANGED subvars
    BY <1>7 DEF TakeSavepoint, client
  <2>3. branch = "savepoint"
    BY <2>2 DEF IInv, ControlInv
  <2>4. r.answer = "ok" => session'.tx = "open"
    BY <1>1, <2>1, SavepointMeans DEF ServerTypes, Session
  <2>5. Fits(prog', TransactionalDDL', branch')
    BY <1>1, <2>2 DEF subvars, IInv, ProgramInv, Fits
  <2>6. QED
    BY <2>1, <2>2, <2>3, <2>4, <2>5 DEF subvars, IInv, ProgramInv, Body
<1>8. CASE RunTable
  <2> DEFINE item == [kind |-> "table", no |-> items + 1]
  <2>1. PICK r \in TableResults(item) :
           /\ Takes(r)
           /\ \/ r.answer = "ok" /\ Continue
              \/ r.answer # "ok" /\ Throw(r.answer)
              \/ /\ Step("index") /\ r.answer = "error" /\ session'.tx = "none"
                 /\ prog' = << >> /\ UNCHANGED << pc, exc >>
           /\ made' = IF r.answer = "ok" THEN << item >> ELSE << >>
    BY <1>8 DEF RunTable
  <2> HIDE DEF item
  <2>2. /\ pc = "run" /\ prog # << >> /\ prog[1] \in {"table", "index"}
        /\ branch' = branch /\ ownGuard' = ownGuard
    BY <1>8, <1>2 DEF RunTable, Step, client
  <2>3. /\ r.answer = "ok" => session.up /\ session'.up /\ session'.tx # "failed"
        /\ r.answer = "ok" /\ ~TransactionalDDL => session'.tx = "none"
        /\ r.answer = "error" => session.up /\ (session'.tx = "none" => session'.up)
    BY <1>1, <2>1, TableMeans, SessionsTyped
       DEF Works, Alone, Untouched, Poisoned, ServerTypes, Session
  <2>4. branch = "mirror" => ~TransactionalDDL
    BY <2>2 DEF IInv, ControlInv, Body
  <2>5. CASE r.answer = "ok" /\ Continue
    <3>1. prog' = Tail(prog)
      BY <2>5 DEF Continue
    <3>2. /\ Fits(prog', TransactionalDDL', branch') /\ (ownGuard <=> Owns(prog'))
          /\ WriteSoon(prog') /\ pc' = "run"
      BY <2>2, <2>5, <3>1, Progress DEF Continue
    <3>3. QED
      BY <2>2, <2>3, <2>4, <2>5, <3>2 DEF ProgramInv
  <2>6. CASE r.answer # "ok" /\ Throw(r.answer)
    BY <2>6 DEF Throw, ProgramInv
  <2>7. CASE /\ r.answer = "error" /\ session'.tx = "none"
             /\ prog' = << >> /\ UNCHANGED << pc, exc >>
    <3>1. ~Owns(prog)
      BY <2>2, RestFits DEF IInv, ProgramInv, TypeInv, ClientTypes
    <3>2. Fits(prog', TransactionalDDL', branch') /\ ~Owns(prog')
      BY <1>3, <2>7
    <3>3. made' = << >> /\ ~ownGuard
      BY <2>1, <2>2, <2>7, <3>1 DEF IInv, ProgramInv
    <3>4. QED
      BY <2>2, <2>3, <2>7, <3>2, <3>3 DEF ProgramInv
  <2>8. QED
    BY <2>1, <2>5, <2>6, <2>7
<1>9. CASE RunRow
  <2>1. PICK r \in RowResults([kind |-> "row", no |-> items + 1]) : Checked(r)
    BY <1>9 DEF RunRow
  <2>2. /\ pc = "run" /\ prog # << >> /\ prog[1] = "row"
        /\ branch' = branch /\ ownGuard' = ownGuard /\ made' = made
    BY <1>9, <1>2 DEF RunRow, Step, client
  <2>3. r.answer = "ok" => /\ session'.up /\ session'.tx # "failed"
                           /\ session'.tx = session.tx
    BY <1>1, <2>1, RowMeans DEF Checked, Works, Alone, ServerTypes, Session
  <2>4. CASE r.answer = "ok" /\ Continue
    <3>1. prog' = Tail(prog) /\ pc' = "run"
      BY <2>2, <2>4 DEF Continue
    <3>2. /\ Fits(prog', TransactionalDDL', branch') /\ (ownGuard <=> Owns(prog'))
          /\ made = << >> /\ (branch = "mirror" => session.tx # "open")
      BY <2>2, <3>1, Progress
    <3>3. QED
      BY <2>2, <2>3, <2>4, <3>1, <3>2 DEF ProgramInv
  <2>5. CASE Throw(r.answer)
    BY <2>5 DEF Throw, ProgramInv
  <2>6. QED
    BY <2>1, <2>4, <2>5 DEF Checked
<1>10. CASE RunSet
  <2>1. PICK r \in SetResults : Checked(r)
    BY <1>10 DEF RunSet
  <2>2. /\ pc = "run" /\ prog # << >> /\ prog[1] = "set"
        /\ branch' = branch /\ ownGuard' = ownGuard /\ made' = made
    BY <1>10, <1>2 DEF RunSet, Step, client
  <2>3. r.answer = "ok" => /\ session'.up /\ session'.tx # "failed"
                           /\ session'.tx = session.tx
    BY <1>1, <2>1, SetMeans DEF Checked, Untouched
  <2>4. CASE r.answer = "ok" /\ Continue
    <3>1. prog' = Tail(prog) /\ pc' = "run"
      BY <2>2, <2>4 DEF Continue
    <3>2. /\ Fits(prog', TransactionalDDL', branch') /\ (ownGuard <=> Owns(prog'))
          /\ made # << >> => WriteSoon(prog')
          /\ branch = "mirror" /\ session.tx = "open" => Unsent(prog')
      BY <2>2, <3>1, Progress
    <3>3. QED
      BY <2>2, <2>3, <2>4, <3>1, <3>2 DEF ProgramInv
  <2>5. CASE Throw(r.answer)
    BY <2>5 DEF Throw, ProgramInv
  <2>6. QED
    BY <2>1, <2>4, <2>5 DEF Checked
<1>11. CASE RunUnchecked
  <2>1. PICK r \in IF Step("part") THEN PartResults ELSE SetResults : Takes(r)
    BY <1>11 DEF RunUnchecked
  <2>2. /\ pc = "run" /\ prog # << >> /\ branch' = branch /\ ownGuard' = ownGuard
        /\ made' = made /\ pc' = "run" /\ prog' = Tail(prog)
        /\ prog[1] = IF Step("part") THEN "part" ELSE "reset"
    BY <1>11, <1>2 DEF RunUnchecked, Step, Continue, client
  <2>3. ~Step("part") /\ session'.tx = "failed" => session.tx = "failed"
    BY <1>1, <2>1, SetMeans, SessionsTyped DEF Untouched, Dies
  <2>4. /\ Fits(prog', TransactionalDDL', branch') /\ (ownGuard <=> Owns(prog'))
        /\ made # << >> => WriteSoon(prog')
        /\ branch # "mirror"
        /\ session'.tx = "failed" => Len(prog') >= 1 /\ prog'[Len(prog')] = "row"
    BY <2>2, <2>3, Progress
  <2>5. QED
    BY <2>2, <2>4 DEF ProgramInv
<1>12. CASE RunWrite
  <2>1. /\ pc = "run" /\ prog # << >> /\ branch' = branch /\ ownGuard' = ownGuard
        /\ made' = << >> /\ pc' = "run" /\ prog' = Tail(prog) /\ prog[1] = "write"
        /\ session' = session /\ sent' = sent
    BY <1>12, <1>2 DEF RunWrite, Step, Continue, server
  <2>2. /\ Fits(prog', TransactionalDDL', branch') /\ (ownGuard <=> Owns(prog'))
        /\ branch = "mirror" => session.tx # "open"
        /\ session.tx = "failed" => Len(prog') >= 1 /\ prog'[Len(prog')] = "row"
    BY <2>1, Progress
  <2>3. QED
    BY <2>1, <2>2 DEF IInv, ProgramInv
<1>13. CASE RunRaise
  BY <1>13, <1>1, <1>3
     DEF RunRaise, Step, Throw, client, history, server, IInv, ProgramInv
<1>14. CASE RunOwnBegin
  <2>1. PICK r \in BeginResults : Checked(r) /\ ownGuard' = (r.answer = "ok")
    BY <1>14 DEF RunOwnBegin
  <2>2. /\ pc = "run" /\ prog # << >> /\ prog[1] = "begin"
        /\ branch' = branch /\ made' = made /\ branch = "tail" /\ session.tx = "none"
    BY <1>14, <1>2, BeginAlone DEF RunOwnBegin, Step, client
  <2>3. r.answer = "ok" => session'.tx = "open"
    BY <1>1, <2>1, <2>2, BeginMeans, SessionsTyped DEF Checked
  <2>4. CASE r.answer = "ok" /\ Continue
    <3>1. prog' = Tail(prog) /\ pc' = "run" /\ ownGuard'
      BY <2>1, <2>2, <2>4 DEF Continue
    <3>2. Fits(prog', TransactionalDDL', branch') /\ Owns(prog') /\ made = << >>
      BY <2>2, <3>1, Progress
    <3>3. QED
      BY <2>2, <2>3, <2>4, <3>1, <3>2 DEF ProgramInv
  <2>5. CASE Throw(r.answer)
    BY <2>5 DEF Throw, ProgramInv
  <2>6. QED
    BY <2>1, <2>4, <2>5 DEF Checked
<1>15. CASE RunOwnCommit
  <2>1. PICK r \in CommitResults :
           /\ Takes(r)
           /\ IF r.answer = "ok" THEN Continue
              ELSE prog' = << >> /\ exc' = r.answer /\ pc' = "caught"
    BY <1>15 DEF RunOwnCommit
  <2>2. /\ pc = "run" /\ prog # << >> /\ prog[1] = "commit"
        /\ branch' = branch /\ made' = made /\ ~ownGuard'
    BY <1>15, <1>2 DEF RunOwnCommit, Step, client
  <2>3. branch = "tail"
    BY <1>2, <2>2 DEF IInv, TypeInv, ClientTypes, ProgramInv, Fits
  <2>4. r.answer = "ok" => session'.tx = "none"
    BY <1>1, <2>1, CommitMeans, SessionsTyped DEF Kept, Cancelled
  <2>5. CASE r.answer = "ok" /\ Continue
    <3>1. prog' = Tail(prog) /\ pc' = "run"
      BY <2>2, <2>5 DEF Continue
    <3>2. Fits(prog', TransactionalDDL', branch') /\ ~Owns(prog') /\ made = << >>
      BY <2>2, <3>1, Progress
    <3>3. QED
      BY <2>2, <2>3, <2>4, <2>5, <3>1, <3>2 DEF ProgramInv
  <2>6. CASE pc' = "caught"
    BY <2>6 DEF ProgramInv
  <2>7. QED
    BY <2>1, <2>5, <2>6
<1>16. CASE OwnRollback
  BY <1>16, <1>1, <1>3 DEF OwnRollback, client, IInv, ProgramInv
<1>17. CASE SubReturns
  BY <1>17, <1>1, <1>3
     DEF SubReturns, client, history, server, subvars, IInv, ProgramInv
<1>18. CASE Rewind
  BY <1>18, <1>1, <1>3 DEF Rewind, subvars, IInv, ProgramInv
<1>19. CASE NoRewind
  BY <1>19, <1>1, <1>3
     DEF NoRewind, client, history, server, subvars, IInv, ProgramInv
<1>20. CASE RecoverSavepoint
  BY <1>20, <1>1, <1>3 DEF RecoverSavepoint, subvars, IInv, ProgramInv
<1>21. CASE CountFailure
  BY <1>21, <1>1, <1>3
     DEF CountFailure, client, history, server, subvars, IInv, ProgramInv
<1>22. CASE Rethrow
  BY <1>22, <1>1, <1>3
     DEF Rethrow, history, server, subvars, IInv, ProgramInv
<1>23. CASE CloseDdl
  BY <1>23, <1>1, <1>3 DEF CloseDdl, client, subvars, IInv, ProgramInv
<1>24. CASE ImplicitCommit
  BY <1>24, <1>1, <1>3
     DEF ImplicitCommit, history, server, subvars, IInv, ProgramInv
<1>25. CASE Commit
  BY <1>25, <1>1, <1>3 DEF Commit, subvars, IInv, ProgramInv
<1>p. CASE PublishOp
  BY <1>p, OpFrame, OpAlone DEF ProgramInv
<1>26. CASE EndPublish
  BY <1>26, <1>1, <1>3
     DEF EndPublish, client, history, server, subvars, IInv, ProgramInv
<1>27. CASE Rollback
  BY <1>27, <1>1, <1>3 DEF Rollback, subvars, IInv, ProgramInv
<1>28. CASE EndTail
  BY <1>28, <1>1, <1>3
     DEF EndTail, client, history, server, subvars, IInv, ProgramInv
<1>29. CASE Leave
  BY <1>29, <1>1, <1>3 DEF Leave, server, subvars, IInv, ProgramInv
<1>30. CASE UNCHANGED vars
  BY <1>30, <1>1 DEF vars, client, subvars, server, IInv, ProgramInv, Fits
<1>31. QED
  BY <1>p, <1>4, <1>5, <1>6, <1>7, <1>8, <1>9, <1>10, <1>11, <1>12, <1>13, <1>14,
     <1>15, <1>16, <1>17, <1>18, <1>19, <1>20, <1>21, <1>22, <1>23, <1>24,
     <1>25, <1>26, <1>27, <1>28, <1>29, <1>30 DEF Next, Execute, Stop

LEMMA TransactionStep ==
  ASSUME IInv, [Next]_vars
  PROVE  TransactionInv'
<1>1. /\ ServerTypes /\ config' = config
      /\ (TransactionalDDL' <=> TransactionalDDL)
      /\ ~session.up => session.tx = "none"
      /\ session.tx = "failed" => TransactionalDDL
      /\ session.tx \in {"none", "open", "failed"}
  BY ConfigKept DEF IInv, TypeInv, SessionInv, ServerTypes, Session
<1>2. pc = "run" /\ prog # << >> =>
        /\ Head(prog) = prog[1]
        /\ branch \in {"savepoint", "abort"} /\ ~TransactionalDDL =>
             prog[1] \notin {"table", "index", "write", "part"}
        /\ branch = "mirror" =>
             prog[1] \in {"table", "index", "set", "write", "row"}
        /\ prog[1] \in {"begin", "commit"} => branch = "tail"
        /\ prog[1] = "part" => TransactionalDDL
  BY DEF IInv, TypeInv, ClientTypes, ProgramInv, Fits
<1>3. /\ NewSession.up /\ NewSession.tx = "none" /\ ~DeadSession.up
      /\ DeadSession.tx = "none" /\ Opened.tx = "open"
  BY SessionsTyped
<1>4. CASE Reconnect
  BY <1>4, <1>1, <1>2, <1>3
     DEF Reconnect, client, history, subvars, IInv, TypeInv, ClientTypes,
         ControlInv, ProgramInv, TransactionInv, Body, Buffered
<1>5. CASE Begin
  BY <1>5, <1>1, <1>2, <1>3, BeginMeans, BeginAlone
     DEF Begin, client, subvars, IInv, TypeInv, ClientTypes, ControlInv,
         ProgramInv, TransactionInv, Body, Buffered, Untouched, Dies
<1>6. CASE Draw
  BY <1>6, <1>1, <1>2, <1>3
     DEF Draw, history, server, IInv, TypeInv, ClientTypes, ControlInv,
         ProgramInv, TransactionInv, Body, Buffered, DdlInPool, Config
<1>7. CASE TakeSavepoint
  <2>1. PICK r \in SavepointResults(spCounter + 1) :
           Takes(r) /\ IF r.answer = "ok" THEN pc' = "run" ELSE pc' = "leave"
    BY <1>7 DEF TakeSavepoint
  <2>2. pc = "savepoint" /\ UNCHANGED << branch, inTrx, armed, subvars >>
    BY <1>7 DEF TakeSavepoint
  <2>3. branch = "savepoint" /\ inTrx /\ armed
    BY <2>2 DEF IInv, ControlInv, Body
  <2>4. r.answer = "ok" => session'.tx = "open"
    BY <1>1, <2>1, SavepointMeans DEF ServerTypes, Session
  <2>5. QED
    BY <2>1, <2>2, <2>3, <2>4 DEF TransactionInv
<1>8. CASE RunTable
  <2>1. PICK r \in TableResults([kind |-> "table", no |-> items + 1]) :
           /\ Takes(r)
           /\ \/ r.answer = "ok" /\ Continue
              \/ r.answer # "ok" /\ Throw(r.answer)
              \/ session'.tx = "none" /\ Step("index") /\ UNCHANGED << pc, exc >>
    BY <1>8 DEF RunTable
  <2>2. /\ pc = "run" /\ prog # << >> /\ prog[1] \in {"table", "index"} /\ sent'
        /\ branch' = branch /\ inTrx' = inTrx /\ armed' = armed
        /\ ownGuard' <=> ownGuard
    BY <1>8, <1>2 DEF RunTable, Step, client
  <2>3. /\ branch \in {"savepoint", "abort"} => TransactionalDDL
        /\ branch = "tail" => ~TransactionalDDL
        /\ Step("index") => ~TransactionalDDL
    BY <1>1, <1>2, <2>2
       DEF IInv, ControlInv, Body, Step, ProgramInv, TypeInv, ClientTypes, Fits
  <2>4. /\ ~TransactionalDDL /\ session.tx = "none" => session'.tx = "none"
        /\ TransactionalDDL /\ r.answer = "ok" /\ session.tx # "none" =>
             session'.tx # "none"
        /\ session'.up => session.up
    BY <1>1, <1>3, <2>1, TableMeans
       DEF Works, Alone, Untouched, Poisoned, Dies, ServerTypes, Session
  <2>5. /\ pc' \in {"run", "ownRollback", "caught"} /\ (ownGuard => pc' # "caught")
        /\ pc' = "run" => r.answer = "ok" \/ Step("index")
    BY <2>1, <2>2 DEF Continue, Throw
  <2>6. session'.up /\ pc' = "run" /\ Buffered => session'.tx # "none"
    <3>1. session'.up /\ pc' = "run" /\ Buffered =>
            TransactionalDDL /\ r.answer = "ok" /\ session.tx # "none"
      BY <2>2, <2>3, <2>4, <2>5 DEF IInv, TransactionInv, Buffered
    <3>2. QED
      BY <2>4, <3>1
  <2>7. branch = "tail" /\ ~ownGuard => session'.tx = "none"
    BY <2>2, <2>3, <2>4 DEF IInv, TransactionInv
  <2>8. QED
    BY <2>2, <2>5, <2>6, <2>7 DEF TransactionInv, Buffered
<1>9. CASE RunRow
  <2>1. PICK r \in RowResults([kind |-> "row", no |-> items + 1]) : Checked(r)
    BY <1>9 DEF RunRow
  <2>2. /\ pc = "run" /\ sent' = TRUE
        /\ UNCHANGED << branch, inTrx, armed, ownGuard >>
    BY <1>9 DEF RunRow, Step, client
  <2>3. /\ session.tx = "none" => session'.tx = "none"
        /\ r.answer = "ok" => session'.tx = session.tx
        /\ session'.up => session.up
    BY <1>1, <1>3, <2>1, RowMeans
       DEF Checked, Works, Alone, Untouched, Poisoned, Cancelled, Dies,
           ServerTypes, Session
  <2>4. /\ pc' \in {"run", "ownRollback", "caught"} /\ (ownGuard => pc' # "caught")
        /\ pc' = "run" => r.answer = "ok"
    BY <2>1, <2>2 DEF Checked, Continue, Throw
  <2>5. QED
    BY <2>2, <2>3, <2>4 DEF IInv, TransactionInv, Buffered
<1>10. CASE RunSet
  BY <1>10, <1>1, <1>2, <1>3, SetMeans
     DEF RunSet, Checked, Continue, Step, Throw, client, IInv, TypeInv,
         ClientTypes, ControlInv, ProgramInv, TransactionInv, Body, Buffered,
         Untouched, Dies
<1>11. CASE RunUnchecked
  <2>1. PICK r \in IF Step("part") THEN PartResults ELSE SetResults : Takes(r)
    BY <1>11 DEF RunUnchecked
  <2>2. /\ pc = "run" /\ pc' = "run" /\ prog # << >>
        /\ UNCHANGED << branch, inTrx, armed, ownGuard >>
        /\ prog[1] = IF Step("part") THEN "part" ELSE "reset"
    BY <1>11, <1>2 DEF RunUnchecked, Step, Continue, client
  <2>3. /\ session.tx = "none" => session'.tx = "none"
        /\ session'.up => session.up /\ (session.tx # "none" => session'.tx # "none")
    BY <1>1, <1>3, <2>1, SetMeans, PartMeans
       DEF Untouched, Poisoned, Dies, ServerTypes, Session
  <2>4. QED
    BY <1>2, <2>2, <2>3 DEF IInv, TransactionInv, Buffered
<1>12. CASE RunWrite
  BY <1>12, <1>1, <1>2, <1>3
     DEF RunWrite, Continue, Step, history, server, IInv, TypeInv,
         ClientTypes, ControlInv, ProgramInv, TransactionInv, Body, Buffered
<1>13. CASE RunRaise
  BY <1>13, <1>1, <1>2, <1>3
     DEF RunRaise, Step, Throw, client, history, server, IInv, TypeInv,
         ClientTypes, ControlInv, ProgramInv, TransactionInv, Body, Buffered
<1>14. CASE RunOwnBegin
  BY <1>14, <1>1, <1>2, <1>3, BeginMeans, BeginAlone
     DEF RunOwnBegin, Checked, Continue, Step, Throw, client, IInv, TypeInv,
         ClientTypes, ControlInv, ProgramInv, TransactionInv, Body, Buffered,
         Untouched, Dies
<1>15. CASE RunOwnCommit
  BY <1>15, <1>1, <1>2, <1>3, CommitMeans
     DEF RunOwnCommit, Continue, Step, client, IInv, TypeInv, ClientTypes,
         ControlInv, ProgramInv, TransactionInv, Body, Buffered, Dies, Kept,
         Cancelled
<1>16. CASE OwnRollback
  BY <1>16, <1>1, <1>2, <1>3, RollbackMeans
     DEF OwnRollback, client, IInv, TypeInv, ClientTypes, ControlInv,
         ProgramInv, TransactionInv, Body, Buffered, Dies, Cancelled
<1>17. CASE SubReturns
  BY <1>17, <1>1, <1>2, <1>3
     DEF SubReturns, client, history, server, subvars, IInv, TypeInv,
         ClientTypes, ControlInv, ProgramInv, TransactionInv, Body, Buffered,
         Owns, Unsent
<1>18. CASE Rewind
  <2>1. PICK k \in DOMAIN savepoints :
          \E r \in RollbackToResults(savepoints[k].name) :
             Takes(r) /\ IF r.answer = "ok" THEN pc' = "draw" ELSE pc' = "caught"
    BY <1>18 DEF Rewind
  <2>2. PICK r \in RollbackToResults(savepoints[k].name) :
             Takes(r) /\ IF r.answer = "ok" THEN pc' = "draw" ELSE pc' = "caught"
    BY <2>1
  <2>3. /\ r.answer = "ok" => session'.up /\ session'.tx = "open"
        /\ branch' = branch /\ inTrx' = inTrx /\ branch = "savepoint" /\ inTrx
    BY <1>18, <2>2, BackStep DEF Rewind, IInv, ControlInv, Body
  <2>4. QED
    BY <2>2, <2>3 DEF TransactionInv, Buffered
<1>19. CASE NoRewind
  BY <1>19, <1>1, <1>2, <1>3
     DEF NoRewind, client, history, server, subvars, IInv, TypeInv,
         ClientTypes, ControlInv, ProgramInv, TransactionInv, Body, Buffered
<1>20. CASE RecoverSavepoint
  <2>1. Len(savepoints) \in DOMAIN savepoints
    BY <1>20 DEF RecoverSavepoint, IInv, TypeInv, ClientTypes, ControlInv
  <2>2. PICK r \in RollbackToResults(savepoints[Len(savepoints)].name) :
             Takes(r) /\ IF r.answer = "ok" THEN pc' = "draw" ELSE pc' = "leave"
    BY <1>20 DEF RecoverSavepoint, LastSavepoint
  <2>3. /\ r.answer = "ok" => session'.up /\ session'.tx = "open"
        /\ branch' = branch /\ inTrx' = inTrx /\ branch = "savepoint" /\ inTrx
        /\ armed' = armed /\ armed
    BY <1>20, <2>1, <2>2, BackStep DEF RecoverSavepoint, IInv, ControlInv, Body
  <2>4. QED
    BY <2>2, <2>3 DEF TransactionInv, Buffered
<1>21. CASE CountFailure
  BY <1>21, <1>1, <1>2, <1>3
     DEF CountFailure, client, history, server, subvars, IInv, TypeInv,
         ClientTypes, ControlInv, ProgramInv, TransactionInv, Body, Buffered,
         NeedsClose, Recoverable
<1>22. CASE Rethrow
  BY <1>22, <1>1, <1>2, <1>3
     DEF Rethrow, history, server, subvars, IInv, TypeInv, ClientTypes,
         ControlInv, ProgramInv, TransactionInv, Body, Buffered,
         ArmedOnRethrow, Recoverable
<1>23. CASE CloseDdl
  BY <1>23, <1>1, <1>2, <1>3, CommitMeans
     DEF CloseDdl, client, subvars, IInv, TypeInv, ClientTypes, ControlInv,
         ProgramInv, TransactionInv, Body, Buffered, Dies, Kept, Cancelled
<1>24. CASE ImplicitCommit
  BY <1>24, <1>1, <1>2, <1>3
     DEF ImplicitCommit, history, server, subvars, IInv, TypeInv, ClientTypes,
         ControlInv, ProgramInv, TransactionInv, Body, Buffered,
         ImplicitlyCommitted
<1>25. CASE Commit
  BY <1>25, <1>1, <1>2, <1>3, CommitMeans
     DEF Commit, subvars, IInv, TypeInv, ClientTypes, ControlInv, ProgramInv,
         TransactionInv, Body, Buffered, Dies, Kept, Cancelled, Finished
<1>p. CASE PublishOp
  BY <1>p, OpFrame DEF IInv, TransactionInv, Buffered
<1>26. CASE EndPublish
  BY <1>26, <1>1, <1>2, <1>3
     DEF EndPublish, client, history, server, subvars, IInv, TypeInv, ClientTypes,
         ControlInv, ProgramInv, TransactionInv, Body, Buffered
<1>27. CASE Rollback
  BY <1>27, <1>1, <1>2, <1>3, RollbackMeans
     DEF Rollback, subvars, IInv, TypeInv, ClientTypes, ControlInv,
         ProgramInv, TransactionInv, Body, Buffered, Dies, Cancelled, Finished
<1>28. CASE EndTail
  BY <1>28, <1>1, <1>2, <1>3
     DEF EndTail, client, history, server, subvars, IInv, TypeInv,
         ClientTypes, ControlInv, ProgramInv, TransactionInv, Body, Buffered,
         Finished
<1>29. CASE Leave
  BY <1>29, <1>1, <1>2, <1>3, RollbackMeans
     DEF Leave, server, subvars, IInv, TypeInv, ClientTypes, ControlInv,
         ProgramInv, TransactionInv, Body, Buffered, Dies, Cancelled
<1>30. CASE UNCHANGED vars
  BY <1>30, <1>1, <1>2, <1>3 DEF vars, client, subvars, server, history, IInv, TypeInv, ClientTypes, ControlInv, ProgramInv, TransactionInv, Body, Buffered
<1>31. QED
  BY <1>p, <1>4, <1>5, <1>6, <1>7, <1>8, <1>9, <1>10, <1>11, <1>12, <1>13, <1>14,
     <1>15, <1>16, <1>17, <1>18, <1>19, <1>20, <1>21, <1>22, <1>23, <1>24,
     <1>25, <1>26, <1>27, <1>28, <1>29, <1>30 DEF Next, Execute, Stop

LEMMA RowDone ==
  ASSUME ServerTypes, NEW item \in Item, NEW r \in RowResults(item), Takes(r),
         r.answer = "ok"
  PROVE  item \in Range(session'.work) \cup UNION commits'
<1>1. CASE Works(item)
  <2>1. session.work \in Seq(Item) /\ session'.work = Append(session.work, item)
    BY <1>1 DEF ServerTypes, Session, Works
  <2>2. QED
    BY <2>1, RangeOfAppend
<1>2. CASE Alone(item)
  BY <1>2 DEF Alone
<1>3. QED
  BY <1>1, <1>2, RowMeans

LEMMA TableDone ==
  ASSUME ServerTypes, NEW item \in Item, NEW r \in TableResults(item), Takes(r),
         r.answer = "ok"
  PROVE  item \in Range(session'.work) \cup UNION commits'
<1>1. CASE TransactionalDDL
  BY <1>1, RowDone DEF TableResults
<1>2. CASE ~TransactionalDDL
  <2>1. commits' = Committed(commits) \cup {{item}}
    BY <1>2, TableMeans
  <2>2. QED
    BY <2>1
<1>3. QED
  BY <1>1, <1>2

\* A delta that follows the log's numbers.
LEMMA OrderOfConcat ==
  ASSUME NEW l \in Seq(Item), NEW m \in Seq(Item), Len(m) <= 1, InOrder(l),
         \A i \in DOMAIN l, k \in DOMAIN m : l[i].no < m[k].no
  PROVE  InOrder(l \o m)
<1>1. /\ Len(l \o m) = Len(l) + Len(m) /\ DOMAIN (l \o m) = 1 .. Len(l \o m)
      /\ Len(l) \in Nat /\ Len(m) \in {0, 1}
      /\ DOMAIN l = 1 .. Len(l) /\ DOMAIN m = 1 .. Len(m)
  <2>1. l \o m \in Seq(Item) /\ Len(l \o m) = Len(l) + Len(m)
    OBVIOUS
  <2>2. Len(m) \in Nat /\ Len(l) \in Nat
    OBVIOUS
  <2>3. Len(m) \in {0, 1}
    BY <2>2
  <2>4. /\ DOMAIN (l \o m) = 1 .. Len(l \o m)
        /\ DOMAIN l = 1 .. Len(l) /\ DOMAIN m = 1 .. Len(m)
    BY <2>1
  <2>5. QED
    BY <2>1, <2>2, <2>3, <2>4
<1>2. \A i \in 1 .. Len(l) : (l \o m)[i] = l[i]
  OBVIOUS
<1>3. Len(m) = 1 => (l \o m)[Len(l) + 1] = m[1]
  OBVIOUS
<1> DEFINE lm == l \o m
<1> SUFFICES ASSUME NEW i \in DOMAIN lm, NEW j \in DOMAIN lm, i < j
             PROVE  lm[i].no < lm[j].no
  BY DEF InOrder
<1>4. i \in 1 .. Len(l)
  BY <1>1
<1>5. CASE j \in 1 .. Len(l)
  BY <1>1, <1>2, <1>4, <1>5 DEF InOrder
<1>6. CASE j = Len(l) + 1
  <2>1. Len(m) = 1
    BY <1>1, <1>6
  <2>2. QED
    BY <1>1, <1>2, <1>3, <1>4, <1>6, <2>1
<1>7. QED
  BY <1>1, <1>5, <1>6

LEMMA NumbersStep ==
  ASSUME IInv, [Next]_vars
  PROVE  NumbersInv'
<1>1. items \in Nat /\ items' \in Nat /\ items <= items'
  BY ServerStep DEF ServerAfter, IInv, TypeInv, ServerTypes
<1>2. /\ Below(Durable', items') /\ Below(Range(session'.work), items')
      /\ Range(session'.work) \cap Durable' = {}
  BY ServerStep DEF ServerAfter, Below
<1>3. /\ Below(Range(log), items') /\ Below(Range(made), items')
      /\ Below(mine, items')
  <2>1. Range(log) \subseteq Item /\ Range(made) \subseteq Item /\ mine \subseteq Item
    BY DEF IInv, TypeInv, ServerTypes, ClientTypes, Range
  <2>2. /\ Below(Range(log), items) /\ Below(Range(made), items)
        /\ Below(mine, items)
    BY DEF IInv, NumbersInv
  <2>3. ASSUME NEW S \in SUBSET Item, Below(S, items)
        PROVE  Below(S, items')
    <3>1. \A i \in S : i.no \in Nat
      BY DEF Item
    <3>2. QED
      BY <1>1, <2>3, <3>1 DEF Below
  <2>4. QED
    BY <2>1, <2>2, <2>3
<1>4. /\ Range(<< >>) = {} /\ Below({}, items') /\ InOrder(<< >>)
      /\ DOMAIN << >> = {}
  BY EmptyRange DEF Below, InOrder
<1>5. CASE Reconnect
  BY <1>5, <1>2, <1>3, <1>4
     DEF Reconnect, client, history, subvars, IInv, ProgramInv, NumbersInv
<1>6. CASE Begin
  BY <1>6, <1>2, <1>3, <1>4
     DEF Begin, client, subvars, IInv, ProgramInv, NumbersInv
<1>7. CASE Draw
  BY <1>7, <1>2, <1>3, <1>4 DEF Draw, history, IInv, NumbersInv
<1>8. CASE TakeSavepoint
  <2>1. made' = << >> /\ log' = log /\ mine' = mine
    BY <1>8 DEF TakeSavepoint, subvars, IInv, ProgramInv
  <2>2. QED
    BY <1>2, <1>3, <1>4, <2>1 DEF IInv, NumbersInv
<1>9. CASE RunTable
  <2> DEFINE item == [kind |-> "table", no |-> items + 1]
  <2>1. PICK r \in TableResults(item) :
           /\ Takes(r)
           /\ made' = IF r.answer = "ok" THEN << item >> ELSE << >>
           /\ items' = Numbered(item)
           /\ mine' = IF r.answer = "ok" /\ Buffered THEN mine \cup {item} ELSE mine
    BY <1>9 DEF RunTable
  <2>2. item \in Item /\ item.no = items + 1 /\ log' = log
    BY <1>9, NewItem DEF RunTable, client
  <2> HIDE DEF item
  <2>3. CASE r.answer = "ok"
    <3>1. items' = item.no
      BY <2>1, <2>2, <2>3, TableDone DEF Numbered, IInv, TypeInv
    <3>2. made' = << item >> /\ Len(made') = 1 /\ made'[1] = item
          /\ Range(made') = {item}
      BY <2>1, <2>3 DEF Range
    <3>3. Below(Range(made'), items') /\ Below(mine', items')
      <4>1. item.no <= items'
        BY <1>1, <3>1
      <4>2. mine' \subseteq mine \cup {item}
        BY <2>1
      <4>3. QED
        BY <1>3, <3>2, <4>1, <4>2 DEF Below
    <3>4. \A i \in DOMAIN log : log[i].no < item.no
      <4>1. \A i \in DOMAIN log : log[i] \in Item /\ log[i].no <= items
        BY DEF IInv, TypeInv, ClientTypes, NumbersInv, Below, Range
      <4>2. QED
        BY <1>1, <2>2, <4>1 DEF Item
    <3>5. \A i \in DOMAIN log', k \in DOMAIN made' : log'[i].no < made'[k].no
      BY <2>2, <3>2, <3>4
    <3>6. QED
      BY <1>2, <1>3, <2>2, <3>3, <3>5 DEF IInv, NumbersInv
  <2>4. CASE r.answer # "ok"
    BY <1>2, <1>3, <1>4, <2>1, <2>2, <2>4 DEF IInv, NumbersInv
  <2>5. QED
    BY <2>3, <2>4
<1>10. CASE RunRow
  <2> DEFINE item == [kind |-> "row", no |-> items + 1]
  <2>1. PICK r \in RowResults(item) :
           /\ Takes(r)
           /\ items' = Numbered(item)
           /\ mine' = IF r.answer = "ok" /\ Buffered THEN mine \cup {item} ELSE mine
    BY <1>10 DEF RunRow, Checked
  <2>2. /\ item \in Item /\ item.no = items + 1
        /\ log' = log /\ made' = made /\ pc = "run"
    BY <1>10, NewItem DEF RunRow, client, Step
  <2> HIDE DEF item
  <2>3. r.answer = "ok" => items' = item.no
    BY <2>1, <2>2, RowDone DEF Numbered, IInv, TypeInv
  <2>4. Below(mine', items')
    <3>1. CASE r.answer = "ok"
      <4>1. item.no <= items'
        BY <1>1, <2>3, <3>1
      <4>2. mine' \subseteq mine \cup {item}
        BY <2>1
      <4>3. QED
        BY <1>3, <4>1, <4>2 DEF Below
    <3>2. CASE r.answer # "ok"
      BY <1>3, <2>1, <3>2
    <3>3. QED
      BY <3>1, <3>2
  <2>5. QED
    BY <1>2, <1>3, <2>2, <2>4 DEF IInv, NumbersInv
<1>11. CASE RunSet
  BY <1>11, <1>2, <1>3, <1>4
     DEF RunSet, Checked, Continue, Step, Throw, client, IInv, ProgramInv,
         NumbersInv
<1>12. CASE RunUnchecked
  BY <1>12, <1>2, <1>3, <1>4
     DEF RunUnchecked, Continue, Step, client, IInv, ProgramInv, NumbersInv
<1>13. CASE RunWrite
  <2>1. /\ made' = << >> /\ mine' = mine /\ pc = "run"
        /\ log' = log \/ log' = log \o made
    BY <1>13 DEF RunWrite, history, Step
  <2>2. CASE log' = log
    BY <1>2, <1>3, <1>4, <2>1, <2>2 DEF IInv, NumbersInv
  <2>3. CASE log' = log \o made
    <3>1. log \in Seq(Item) /\ made \in Seq(Item) /\ Len(made) <= 1
      BY DEF IInv, TypeInv, ClientTypes
    <3>2. Range(log') = Range(log) \cup Range(made)
      BY <2>3, <3>1, RangeOfConcat
    <3>3. Below(Range(log'), items')
      BY <1>3, <3>2 DEF Below
    <3>4. InOrder(log')
      BY <2>1, <2>3, <3>1, OrderOfConcat DEF IInv, NumbersInv
    <3>5. QED
      BY <1>2, <1>3, <1>4, <2>1, <3>3, <3>4 DEF NumbersInv
  <2>4. QED
    BY <2>1, <2>2, <2>3
<1>14. CASE RunRaise
  BY <1>14, <1>2, <1>3, <1>4
     DEF RunRaise, Step, Throw, client, history, server, IInv, ProgramInv,
         NumbersInv
<1>15. CASE RunOwnBegin
  BY <1>15, <1>2, <1>3, <1>4
     DEF RunOwnBegin, Checked, Continue, Step, Throw, client, IInv,
         ProgramInv, NumbersInv
<1>16. CASE RunOwnCommit
  BY <1>16, <1>2, <1>3, <1>4
     DEF RunOwnCommit, Continue, Step, client, IInv, ProgramInv, NumbersInv
<1>17. CASE OwnRollback
  BY <1>17, <1>2, <1>3, <1>4
     DEF OwnRollback, client, IInv, ProgramInv, NumbersInv
<1>18. CASE SubReturns
  BY <1>18, <1>2, <1>3, <1>4
     DEF SubReturns, client, history, server, subvars, IInv, ProgramInv,
         NumbersInv
<1>19. CASE Rewind
  <2>1. PICK k \in DOMAIN savepoints :
          \E r \in RollbackToResults(savepoints[k].name) :
             /\ Takes(r)
             /\ IF r.answer = "ok" THEN Rewound(savepoints[k])
                ELSE UNCHANGED << log, mine >>
    BY <1>19 DEF Rewind
  <2>2. PICK r \in RollbackToResults(savepoints[k].name) :
             /\ Takes(r)
             /\ IF r.answer = "ok" THEN Rewound(savepoints[k])
                ELSE UNCHANGED << log, mine >>
    BY <2>1
  <2>3. Range(log') \subseteq Range(log) /\ InOrder(log') /\ mine' \subseteq mine
    BY <2>2, BackStep DEF Rewound, IInv, NumbersInv
  <2>4. Below(Range(log'), items') /\ Below(mine', items')
    BY <1>3, <2>3 DEF Below
  <2>5. made' = made /\ pc' # "run"
    BY <1>19 DEF Rewind, subvars
  <2>6. QED
    BY <1>2, <1>3, <2>3, <2>4, <2>5 DEF NumbersInv
<1>20. CASE NoRewind
  BY <1>20, <1>2, <1>3, <1>4
     DEF NoRewind, client, history, server, subvars, IInv, ProgramInv,
         NumbersInv
<1>21. CASE RecoverSavepoint
  <2>1. Len(savepoints) \in DOMAIN savepoints
    BY <1>21 DEF RecoverSavepoint, IInv, TypeInv, ClientTypes, ControlInv
  <2>2. PICK r \in RollbackToResults(savepoints[Len(savepoints)].name) :
             /\ Takes(r)
             /\ IF r.answer = "ok" THEN Rewound(savepoints[Len(savepoints)])
                ELSE UNCHANGED << log, mine >>
    BY <1>21 DEF RecoverSavepoint, LastSavepoint
  <2>3. Range(log') \subseteq Range(log) /\ InOrder(log') /\ mine' \subseteq mine
    BY <2>1, <2>2, BackStep DEF Rewound, IInv, NumbersInv
  <2>4. Below(Range(log'), items') /\ Below(mine', items')
    BY <1>3, <2>3 DEF Below
  <2>5. made' = made /\ pc' # "run"
    BY <1>21 DEF RecoverSavepoint, subvars
  <2>6. QED
    BY <1>2, <1>3, <2>3, <2>4, <2>5 DEF NumbersInv
<1>22. CASE CountFailure
  BY <1>22, <1>2, <1>3, <1>4
     DEF CountFailure, client, history, server, subvars, IInv, ProgramInv,
         NumbersInv
<1>23. CASE Rethrow
  BY <1>23, <1>2, <1>3, <1>4
     DEF Rethrow, history, server, subvars, IInv, ProgramInv, NumbersInv
<1>24. CASE CloseDdl
  BY <1>24, <1>2, <1>3, <1>4
     DEF CloseDdl, client, subvars, IInv, ProgramInv, NumbersInv
<1>25. CASE ImplicitCommit
  BY <1>25, <1>2, <1>3, <1>4
     DEF ImplicitCommit, history, server, subvars, IInv, ProgramInv,
         NumbersInv
<1>26. CASE Commit
  BY <1>26, <1>2, <1>3, <1>4
     DEF Commit, subvars, IInv, ProgramInv, NumbersInv
<1>p. CASE PublishOp
  <2>1. Durable' = Durable
    BY <1>p, OpFrame DEF Durable
  <2>2. Below(Range(log'), items)
    BY <1>p, OpPublished DEF IInv, NumbersInv, Below
  <2>3. QED
    BY <1>p, <2>1, <2>2, OpFrame, OpAlone, OpPublished DEF IInv, NumbersInv
<1>27. CASE EndPublish
  BY <1>27, <1>2, <1>3, <1>4
     DEF EndPublish, client, history, server, subvars, IInv, ProgramInv, NumbersInv
<1>28. CASE Rollback
  BY <1>28, <1>2, <1>3, <1>4
     DEF Rollback, subvars, IInv, ProgramInv, NumbersInv
<1>29. CASE EndTail
  BY <1>29, <1>2, <1>3, <1>4
     DEF EndTail, client, history, server, subvars, IInv, ProgramInv,
         NumbersInv
<1>30. CASE Leave
  BY <1>30, <1>2, <1>3, <1>4
     DEF Leave, server, subvars, IInv, ProgramInv, NumbersInv
<1>31. CASE UNCHANGED vars
  BY <1>31, <1>2, <1>3, <1>4 DEF vars, client, subvars, server, history, IInv, ProgramInv, NumbersInv
<1>32. QED
  BY <1>p, <1>5, <1>6, <1>7, <1>8, <1>9, <1>10, <1>11, <1>12, <1>13, <1>14, <1>15,
     <1>16, <1>17, <1>18, <1>19, <1>20, <1>21, <1>22, <1>23, <1>24, <1>25,
     <1>26, <1>27, <1>28, <1>29, <1>30, <1>31 DEF Next, Execute, Stop

\* Work that joins the server's transaction.
LEMMA WorksMirror ==
  ASSUME ServerTypes, log \in Seq(Item), savepoints \in Seq(Savepoint),
         NEW item \in Item, Works(item),
         Cuts(log, savepoints, session.work, session.sps, spCounter),
         Tables(Range(session.work)) = Range(log)
  PROVE  /\ Cuts(log, savepoints, session'.work, session'.sps, spCounter)
         /\ item.kind = "table" =>
              Tables(Range(session'.work)) = Range(log) \cup {item}
         /\ item.kind # "table" => Tables(Range(session'.work)) = Range(log)
<1>1. /\ session.work \in Seq(Item) /\ session.sps \in Seq(Savepoint)
      /\ session'.work = Append(session.work, item)
      /\ session'.sps = session.sps
  BY DEF ServerTypes, Session, Works
<1>2. Range(session'.work) = Range(session.work) \cup {item}
  BY <1>1, RangeOfAppend
<1>3. Cuts(log, savepoints, session'.work, session'.sps, spCounter)
  BY <1>1, CutsMoreWork
<1>4. Tables(Range(session'.work)) =
        Range(log) \cup (IF item.kind = "table" THEN {item} ELSE {})
  BY <1>2 DEF Tables
<1>5. QED
  BY <1>3, <1>4

LEMMA MirrorStep ==
  ASSUME IInv, [Next]_vars
  PROVE  MirrorInv'
<1>1. /\ ServerTypes /\ spCounter \in Nat
      /\ session.tx \in {"none", "open", "failed"}
  BY DEF IInv, TypeInv, ServerTypes, ClientTypes, Session
<1>2. SUFFICES ASSUME session'.tx # "none"
               PROVE  MirrorInv'
  BY DEF MirrorInv
<1>3. Tables({}) = {}
  BY DEF Tables
<1>4. /\ log \in Seq(Item) /\ savepoints \in Seq(Savepoint) /\ made \in Seq(Item)
      /\ session.work \in Seq(Item) /\ session.sps \in Seq(Savepoint)
  BY DEF IInv, TypeInv, ServerTypes, ClientTypes, Session
<1>5. prog # << >> => Head(prog) = prog[1]
  BY DEF IInv, TypeInv, ClientTypes
<1>6. CASE Reconnect
  BY <1>6, <1>2, SessionsTyped DEF Reconnect
<1>7. CASE Begin
  <2>1. PICK r \in BeginResults :
           /\ Takes(r)
           /\ r.answer = "ok" => log' = << >> /\ savepoints' = << >> /\ pc' = "draw"
    BY <1>7 DEF Begin
  <2>2. session.tx = "none"
    BY <1>7, BeginAlone
  <2>3. r.answer = "ok" /\ session' = Opened
    BY <1>1, <1>2, <2>1, <2>2, BeginMeans, SessionsTyped DEF Untouched, Dies
  <2>4. QED
    BY <2>1, <2>3, <1>3, SessionsTyped, CutsNothing, EmptyRange
       DEF MirrorInv, Mirrored, Tables
<1>8. CASE Draw
  <2>1. pc = "draw" /\ made' = << >> /\ session' = session
        /\ UNCHANGED << log, savepoints, spCounter >>
    BY <1>8 DEF Draw, server
  <2>2. pc' \in {"savepoint", "run"}
    BY <1>8 DEF Draw
  <2>3. QED
    BY <1>2, <2>1, <2>2, EmptyRange DEF IInv, MirrorInv, Mirrored
<1>9. CASE TakeSavepoint
  <2>1. PICK r \in SavepointResults(spCounter + 1) :
           /\ Takes(r)
           /\ r.answer = "ok" =>
                /\ savepoints' =
                     Append(savepoints, [name |-> spCounter + 1, mark |-> Len(log)])
                /\ pc' = "run"
    BY <1>9 DEF TakeSavepoint
  <2>2. /\ pc = "savepoint" /\ spCounter' = spCounter + 1
        /\ log' = log /\ made' = made /\ branch' = branch
    BY <1>9 DEF TakeSavepoint, subvars
  <2>3. inTrx /\ made = << >>
    BY <2>2 DEF IInv, ControlInv, Body, ProgramInv
  <2>4. /\ r.answer = "ok" /\ session.tx = "open"
        /\ session' = [session EXCEPT !.sps =
             Append(@, [name |-> spCounter + 1, mark |-> Len(session.work)])]
    BY <1>1, <1>2, <2>1, <2>2, <2>3, SavepointMeans, SessionsTyped
       DEF IInv, TransactionInv, Untouched, Dies
  <2>5. /\ session'.work = session.work
        /\ session'.sps = Append(session.sps, [name |-> spCounter + 1,
                                               mark |-> Len(session.work)])
    BY <1>1, <2>4 DEF ServerTypes, Session
  <2>6. /\ Cuts(log, savepoints, session.work, session.sps, spCounter)
        /\ Tables(Range(session.work)) = Range(log)
    BY <2>2, <2>4 DEF IInv, MirrorInv
  <2>7. Cuts(log', savepoints', session'.work, session'.sps, spCounter')
    BY <1>1, <1>4, <2>1, <2>2, <2>4, <2>5, <2>6, CutsTake
  <2>8. QED
    BY <2>2, <2>3, <2>5, <2>6, <2>7, EmptyRange DEF MirrorInv, Mirrored
<1>10. CASE RunTable
  <2> DEFINE item == [kind |-> "table", no |-> items + 1]
  <2>1. PICK r \in TableResults(item) :
           /\ Takes(r)
           /\ \/ r.answer = "ok" /\ Continue
              \/ r.answer # "ok" /\ Throw(r.answer)
              \/ Step("index") /\ session'.tx = "none"
           /\ made' = IF r.answer = "ok" THEN << item >> ELSE << >>
    BY <1>10 DEF RunTable
  <2>2. item \in Item /\ item.kind = "table"
    BY NewItem
  <2> HIDE DEF item
  <2>3. /\ pc = "run" /\ prog # << >> /\ prog[1] \in {"table", "index"}
        /\ UNCHANGED << log, savepoints, spCounter, branch >>
    BY <1>10, <1>5 DEF RunTable, Step, client
  <2>4. made = << >>
    BY <2>3, RestFits DEF IInv, ProgramInv, TypeInv, ClientTypes
  <2>5. session.tx # "none"
    <3>1. CASE TransactionalDDL
      BY <1>1, <1>2, <2>1, <3>1, TableMeans, SessionsTyped
         DEF Works, Alone, Untouched, Poisoned, Dies
    <3>2. CASE ~TransactionalDDL
      BY <1>1, <1>2, <2>1, <3>2, TableMeans, SessionsTyped
         DEF Untouched, Poisoned, Dies
    <3>3. QED
      BY <3>1, <3>2
  <2>6. /\ Cuts(log, savepoints, session.work, session.sps, spCounter)
        /\ Tables(Range(session.work)) = Range(log)
    BY <2>3, <2>4, <2>5, EmptyRange DEF IInv, MirrorInv
  <2>7. CASE Works(item) /\ r.answer = "ok"
    <3>1. made' = << item >> /\ Range(made') = {item}
      BY <2>1, <2>7 DEF Range
    <3>2. pc' = "run"
      BY <2>1, <2>3, <2>7, <1>2 DEF Continue
    <3>3. QED
      BY <1>1, <1>4, <2>2, <2>3, <2>6, <2>7, <3>1, <3>2, WorksMirror
         DEF MirrorInv, Mirrored
  <2>8. CASE (Untouched \/ Poisoned) /\ r.answer # "ok"
    <3>1. session'.work = session.work /\ session'.sps = session.sps
      BY <1>1, <2>8 DEF Untouched, Poisoned, ServerTypes, Session
    <3>2. pc' # "run" /\ pc' # "savepoint" /\ pc' # "draw" /\ pc' # "rewind"
      BY <1>2, <2>1, <2>8 DEF Throw
    <3>3. QED
      BY <2>3, <2>6, <3>1, <3>2 DEF MirrorInv, Mirrored
  <2>9. QED
    BY <1>1, <1>2, <2>1, <2>5, <2>7, <2>8, TableMeans, SessionsTyped DEF Alone, Dies
<1>11. CASE RunRow
  <2> DEFINE item == [kind |-> "row", no |-> items + 1]
  <2>1. PICK r \in RowResults(item) : Checked(r)
    BY <1>11 DEF RunRow
  <2>2. item \in Item /\ item.kind = "row"
    BY NewItem
  <2> HIDE DEF item
  <2>3. /\ pc = "run" /\ prog # << >> /\ prog[1] = "row"
        /\ UNCHANGED << log, savepoints, spCounter, branch, made >>
    BY <1>11, <1>5 DEF RunRow, Step, client
  <2>4. made = << >>
    BY <2>3, RestFits DEF IInv, ProgramInv, TypeInv, ClientTypes
  <2>5. session.tx # "none"
    BY <1>1, <1>2, <2>1, RowMeans, SessionsTyped
       DEF Checked, Works, Alone, Untouched, Poisoned, Cancelled, Dies
  <2>6. /\ Cuts(log, savepoints, session.work, session.sps, spCounter)
        /\ Tables(Range(session.work)) = Range(log)
    BY <2>3, <2>4, <2>5, EmptyRange DEF IInv, MirrorInv
  <2>7. CASE Works(item)
    BY <1>1, <1>4, <2>2, <2>3, <2>4, <2>6, <2>7, WorksMirror, EmptyRange
       DEF MirrorInv, Mirrored
  <2>8. CASE Untouched \/ Poisoned
    <3>1. session'.work = session.work /\ session'.sps = session.sps
      BY <1>1, <2>8 DEF Untouched, Poisoned, ServerTypes, Session
    <3>2. QED
      BY <2>3, <2>4, <2>6, <3>1, EmptyRange DEF MirrorInv, Mirrored
  <2>9. QED
    BY <1>1, <1>2, <2>1, <2>5, <2>7, <2>8, RowMeans, SessionsTyped
       DEF Checked, Alone, Cancelled, Dies
<1>12. CASE RunSet
  <2>1. PICK r \in SetResults : Checked(r)
    BY <1>12 DEF RunSet
  <2>2. /\ pc = "run"
        /\ UNCHANGED << log, savepoints, spCounter, branch, made >>
    BY <1>12 DEF RunSet, Step, client
  <2>3. /\ session' = session /\ session.tx # "none"
        /\ r.answer # "ok" => session.tx = "failed"
    BY <1>1, <1>2, <2>1, SetMeans, SessionsTyped DEF Checked, Untouched, Dies
  <2>4. branch = "mirror" => session.tx # "failed"
    BY <2>2 DEF IInv, ControlInv, SessionInv, Body
  <2>5. pc' = "run" \/ (r.answer # "ok" /\ pc' \in {"caught", "ownRollback"})
    BY <2>1, <2>2 DEF Checked, Continue, Throw
  <2>6. QED
    BY <2>2, <2>3, <2>4, <2>5 DEF IInv, MirrorInv, Mirrored
<1>13. CASE RunUnchecked
  <2>1. PICK r \in IF Step("part") THEN PartResults ELSE SetResults : Takes(r)
    BY <1>13 DEF RunUnchecked
  <2>2. /\ pc = "run" /\ pc' = "run"
        /\ UNCHANGED << log, savepoints, spCounter, branch, made >>
    BY <1>13 DEF RunUnchecked, Step, Continue, client
  <2>3. Untouched \/ Poisoned
    BY <1>1, <1>2, <2>1, SetMeans, PartMeans, SessionsTyped DEF Dies
  <2>4. /\ session'.work = session.work /\ session'.sps = session.sps
        /\ session.tx # "none"
    BY <1>1, <1>2, <2>3 DEF Untouched, Poisoned, ServerTypes, Session
  <2>5. QED
    BY <2>2, <2>4 DEF IInv, MirrorInv, Mirrored
<1>14. CASE RunWrite
  <2>1. /\ pc = "run" /\ pc' = "run" /\ prog # << >> /\ prog[1] = "write"
        /\ prog' = Tail(prog) /\ made' = << >> /\ session' = session
        /\ UNCHANGED << savepoints, spCounter, branch >>
        /\ Buffered => log' = log \o made
    BY <1>14, <1>5 DEF RunWrite, Step, Continue, server
  <2>2. Buffered
    <3>1. branch = "mirror" => session.tx = "failed"
      BY <1>1, <1>2, <2>1, Progress DEF ServerTypes, Session
    <3>2. branch # "mirror"
      BY <2>1, <3>1 DEF IInv, ControlInv, SessionInv, Body
    <3>3. branch = "tail" => ~ownGuard
      BY <2>1, Progress
    <3>4. branch # "tail"
      BY <1>2, <2>1, <3>3 DEF IInv, TransactionInv
    <3>5. QED
      BY <2>1, <3>2, <3>4 DEF IInv, TypeInv, ClientTypes, ControlInv, Body, Buffered
  <2>3. Cuts(log', savepoints, session.work, session.sps, spCounter)
    BY <1>1, <1>2, <1>4, <2>1, <2>2, CutsMoreLog DEF IInv, MirrorInv
  <2>4. Range(log') = Range(log) \cup Range(made)
    <3>1. Range(log \o made) = Range(log) \cup Range(made)
      BY <1>4, RangeOfConcat, Zenon
    <3>2. QED
      BY <2>1, <2>2, <3>1
  <2>5. QED
    BY <1>2, <2>1, <2>3, <2>4, EmptyRange DEF IInv, MirrorInv, Mirrored
<1>15. CASE RunRaise
  <2>1. /\ pc = "run" /\ prog # << >> /\ prog[1] \in {"raise", "throw"}
        /\ pc' \in {"caught", "ownRollback"} /\ session' = session
        /\ UNCHANGED << log, savepoints, spCounter, branch >>
    BY <1>15, <1>5 DEF RunRaise, Step, Throw, server, client
  <2>2. branch # "mirror"
    <3>1. prog \in Seq(Statements) /\ Fits(prog, TransactionalDDL, branch)
      BY <2>1 DEF IInv, ProgramInv, TypeInv, ClientTypes
    <3>2. branch = "mirror" => prog[1] \in {"table", "index", "set", "write", "row"}
      BY <2>1, <3>1, MirrorPrograms
    <3>3. QED
      BY <2>1, <3>2
  <2>3. QED
    BY <1>2, <2>1, <2>2 DEF IInv, MirrorInv, Mirrored
<1>16. CASE RunOwnBegin
  <2>1. PICK r \in BeginResults : Checked(r)
    BY <1>16 DEF RunOwnBegin
  <2>2. /\ pc = "run" /\ prog # << >> /\ prog[1] = "begin" /\ branch = "tail"
        /\ session.tx = "none"
        /\ UNCHANGED << log, savepoints, spCounter, branch, made >>
    BY <1>16, <1>5, BeginAlone DEF RunOwnBegin, Step, client
  <2>3. session' = Opened
    BY <1>1, <1>2, <2>1, <2>2, BeginMeans, SessionsTyped DEF Checked, Untouched, Dies
  <2>4. made = << >>
    BY <2>2, RestFits DEF IInv, ProgramInv, TypeInv, ClientTypes
  <2>5. log = << >> /\ savepoints = << >>
    BY <2>2 DEF IInv, ControlInv, Body
  <2>6. Tables({}) = {}
    BY DEF Tables
  <2>7. QED
    BY <2>2, <2>3, <2>4, <2>5, <2>6, SessionsTyped, CutsNothing, EmptyRange
       DEF MirrorInv, Mirrored
<1>17. CASE RunOwnCommit
  BY <1>17, <1>1, <1>2, CommitMeans, SessionsTyped DEF RunOwnCommit, Kept, Cancelled, Dies
<1>18. CASE OwnRollback
  BY <1>18, <1>1, <1>2, RollbackMeans, SessionsTyped DEF OwnRollback, Kept, Cancelled, Dies
<1>19. CASE SubReturns
  <2>1. made = << >>
    BY <1>19 DEF SubReturns, IInv, ProgramInv, WriteSoon
  <2>2. QED
    BY <1>19, <1>2, <2>1, EmptyRange
       DEF SubReturns, client, subvars, server, IInv, MirrorInv, Mirrored
<1>20. CASE Rewind
  <2>1. PICK k \in DOMAIN savepoints :
          \E r \in RollbackToResults(savepoints[k].name) :
             /\ Takes(r)
             /\ r.answer = "ok" => /\ log' = LogTo(savepoints[k])
                                  /\ savepoints' = SubSeq(savepoints, 1, k)
                                  /\ pc' = "draw"
    BY <1>20 DEF Rewind, Rewound
  <2>2. PICK r \in RollbackToResults(savepoints[k].name) :
             /\ Takes(r)
             /\ r.answer = "ok" => /\ log' = LogTo(savepoints[k])
                                  /\ savepoints' = SubSeq(savepoints, 1, k)
                                  /\ pc' = "draw"
    BY <2>1
  <2>3. r.answer = "ok"
    BY <1>2, <2>2, BackStep, SessionsTyped DEF Untouched, Dies
  <2>4. spCounter' = spCounter
    BY <1>20 DEF Rewind
  <2>5. QED
    BY <2>2, <2>3, <2>4, BackStep, EmptyRange DEF MirrorInv, Mirrored
<1>21. CASE NoRewind
  BY <1>21, <1>2, EmptyRange
     DEF NoRewind, client, history, server, subvars, IInv, ControlInv,
         TransactionInv, MirrorInv, Mirrored, Body
<1>22. CASE RecoverSavepoint
  <2>1. Len(savepoints) \in DOMAIN savepoints
    BY <1>22 DEF RecoverSavepoint, IInv, TypeInv, ClientTypes, ControlInv
  <2>2. PICK r \in RollbackToResults(savepoints[Len(savepoints)].name) :
             /\ Takes(r)
             /\ r.answer = "ok" => /\ log' = LogTo(savepoints[Len(savepoints)])
                                  /\ pc' = "draw"
    BY <1>22 DEF RecoverSavepoint, LastSavepoint, Rewound
  <2>3. r.answer = "ok"
    BY <1>2, <2>1, <2>2, BackStep, SessionsTyped DEF Untouched, Dies
  <2>4. spCounter' = spCounter /\ savepoints' = savepoints
    BY <1>22 DEF RecoverSavepoint
  <2>5. SubSeq(savepoints, 1, Len(savepoints)) = savepoints
    BY <1>4
  <2>6. QED
    BY <2>1, <2>2, <2>3, <2>4, <2>5, BackStep, EmptyRange DEF MirrorInv, Mirrored
<1>23. CASE CountFailure
  BY <1>23, <1>2, EmptyRange
     DEF CountFailure, client, history, server, subvars, IInv, ControlInv,
         TransactionInv, MirrorInv, Mirrored, Body, NeedsClose
<1>24. CASE Rethrow
  BY <1>24, <1>2
     DEF Rethrow, history, server, subvars, IInv, ControlInv, TransactionInv,
         MirrorInv, Mirrored, Body
<1>25. CASE CloseDdl
  BY <1>25, <1>1, <1>2, CommitMeans, SessionsTyped DEF CloseDdl, Kept, Cancelled, Dies
<1>26. CASE ImplicitCommit
  BY <1>26, <1>2, EmptyRange
     DEF ImplicitCommit, history, server, subvars, IInv, ControlInv,
         TransactionInv, MirrorInv, Mirrored, Body, ImplicitlyCommitted
<1>27. CASE Commit
  BY <1>27, <1>1, <1>2, CommitMeans, SessionsTyped DEF Commit, Kept, Cancelled, Dies
<1>p. CASE PublishOp
  BY <1>p, OpFrame, OpAlone DEF MirrorInv
<1>28. CASE EndPublish
  BY <1>28, <1>2
     DEF EndPublish, client, history, server, subvars, IInv, ControlInv, TransactionInv,
         MirrorInv, Mirrored, Body
<1>29. CASE Rollback
  BY <1>29, <1>1, <1>2, RollbackMeans, SessionsTyped DEF Rollback, Kept, Cancelled, Dies
<1>30. CASE EndTail
  BY <1>30, <1>2
     DEF EndTail, client, history, server, subvars, IInv, ControlInv,
         TransactionInv, MirrorInv, Mirrored, Body, Finished
<1>31. CASE Leave
  BY <1>31, <1>1, <1>2, RollbackMeans, SessionsTyped
     DEF Leave, server, Cancelled, Dies, IInv, TransactionInv
<1>32. CASE UNCHANGED vars
  BY <1>32, <1>2 DEF vars, client, subvars, server, history, IInv, ControlInv, TransactionInv, MirrorInv, Mirrored, Body
<1>33. QED
  BY <1>p, <1>6, <1>7, <1>8, <1>9, <1>10, <1>11, <1>12, <1>13, <1>14, <1>15, <1>16,
     <1>17, <1>18, <1>19, <1>20, <1>21, <1>22, <1>23, <1>24, <1>25, <1>26,
     <1>27, <1>28, <1>29, <1>30, <1>31, <1>32 DEF Next, Execute, Stop

LEMMA MineStep ==
  ASSUME IInv, [Next]_vars
  PROVE  MineInv'
<1>1. ServerTypes
  BY DEF IInv, TypeInv
<1>2. Durable \subseteq Durable' /\ (lost => lost')
  BY ServerStep DEF ServerAfter
<1>3. prog # << >> => Head(prog) = prog[1]
  BY DEF IInv, TypeInv, ClientTypes
<1>4. pc = "run" /\ prog # << >> /\ prog[1] \in {"table", "index"}
        /\ branch \in {"savepoint", "abort"} => TransactionalDDL
  BY DEF IInv, TypeInv, ClientTypes, ProgramInv, Fits
<1>5. CASE Reconnect
  <2>1. /\ pc = "loop" /\ pc' = "loop" /\ commits' = commits
        /\ UNCHANGED << end, mine, lost, branch >> /\ session' = NewSession
    BY <1>5 DEF Reconnect, client, history
  <2>2. QED
    BY <2>1, SessionsTyped DEF IInv, MineInv, MirrorDone, Mirrored, Durable
<1>6. CASE Begin
  <2>1. PICK r \in BeginResults :
           /\ Takes(r)
           /\ IF r.answer = "ok" THEN pc' = "draw" /\ mine' = {}
              ELSE UNCHANGED << pc, end, mine, branch >>
    BY <1>6 DEF Begin, client
  <2>2. pc = "loop" /\ ~MirrorDone
    BY <1>6 DEF Begin, MirrorDone, Mirrored
  <2>3. /\ Durable' = Durable /\ (~lost' => ~lost)
        /\ r.answer # "ok" => session'.tx = "none"
    BY <1>6, <1>1, <2>1, BeginMeans, BeginAlone, SessionsTyped DEF Untouched, Dies, Durable
  <2>4. CASE r.answer = "ok"
    BY <2>1, <2>4 DEF MineInv, MirrorDone, Mirrored
  <2>5. CASE r.answer # "ok"
    BY <2>1, <2>2, <2>3, <2>5 DEF IInv, MineInv, MirrorDone, Mirrored
  <2>6. QED
    BY <2>4, <2>5
<1>7. CASE Draw
  <2>1. /\ pc = "draw" /\ pc' \in {"savepoint", "run"} /\ session' = session
        /\ commits' = commits /\ UNCHANGED << end, mine, lost, inTrx >>
        /\ branch' = "mirror" => inTrx
    BY <1>7 DEF Draw, server, history, IInv, TypeInv, ClientTypes, Config
  <2>2. ~MirrorDone /\ ~MirrorDone'
    BY <2>1 DEF MirrorDone, Mirrored, IInv, TransactionInv
  <2>3. QED
    BY <2>1, <2>2 DEF IInv, MineInv, Durable, Body
<1>8. CASE TakeSavepoint
  <2>1. PICK r \in SavepointResults(spCounter + 1) : Takes(r)
    BY <1>8 DEF TakeSavepoint
  <2>2. /\ pc = "savepoint" /\ branch = "savepoint" /\ branch' = branch
        /\ UNCHANGED << end, mine, inTrx >>
    BY <1>8 DEF TakeSavepoint, IInv, ControlInv
  <2>3. /\ commits' = commits /\ (~lost' => ~lost)
        /\ session'.tx # "none" => session.tx # "none" /\ session'.work = session.work
    BY <1>1, <2>1, SavepointMeans, SessionsTyped
       DEF Untouched, Dies, ServerTypes, Session
  <2>4. QED
    BY <2>2, <2>3 DEF IInv, MineInv, MirrorDone, Mirrored, Durable, Body
<1>9. CASE RunTable
  <2> DEFINE item == [kind |-> "table", no |-> items + 1]
  <2>1. PICK r \in TableResults(item) :
           /\ Takes(r)
           /\ mine' = IF r.answer = "ok" /\ Buffered THEN mine \cup {item} ELSE mine
    BY <1>9 DEF RunTable
  <2>2. item \in Item /\ item \notin Durable
    BY NewItem
  <2> HIDE DEF item
  <2>3. /\ pc = "run" /\ prog # << >> /\ prog[1] \in {"table", "index"}
        /\ UNCHANGED << end, branch, inTrx, ownGuard >>
        /\ pc' \in {"run", "caught", "ownRollback"} /\ (ownGuard \/ pc' # "ownRollback")
    BY <1>9, <1>3 DEF RunTable, Step, Continue, Throw, client
  <2>4. CASE branch = "tail"
    BY <1>2, <2>1, <2>3, <2>4 DEF IInv, ControlInv, MineInv, MirrorDone, Mirrored, Body, Buffered
  <2>5. CASE branch = "mirror"
    <3>1. /\ inTrx /\ end # "committed" /\ ~TransactionalDDL /\ mine' = mine
          /\ pc' \in {"run", "caught"} /\ ~ownGuard
      BY <2>1, <2>3, <2>5 DEF IInv, ControlInv, Body, Buffered
    <3>2. CASE Untouched
      BY <1>2, <2>3, <3>1, <3>2
         DEF Untouched, IInv, MineInv, MirrorDone, Mirrored, Durable, Body
    <3>3. CASE session'.tx = "none" /\ session'.up /\ Range(session.work) \subseteq Durable'
      <4>1. mine \subseteq Durable'
        <5>1. CASE session.tx # "none"
          BY <2>3, <3>1, <3>3, <5>1 DEF IInv, MineInv, Body
        <5>2. CASE session.tx = "none"
          <6>1. session.up
            BY <1>1, <2>1, <3>1, <3>3, TableMeans, SessionsTyped DEF Dies
          <6>2. QED
            BY <1>2, <2>3, <2>5, <5>2, <6>1
               DEF IInv, MineInv, MirrorDone, Mirrored
        <5>3. QED
          BY <5>1, <5>2
      <4>2. QED
        BY <2>3, <2>5, <3>1, <3>3, <4>1 DEF MineInv, MirrorDone, Mirrored
    <3>4. CASE Dies
      BY <2>3, <3>1, <3>4, SessionsTyped DEF Dies, MineInv, MirrorDone
    <3>5. CASE session' = NewSession /\ (commits' = Committed(commits) \/ r.answer = "ok")
      <4>1. Range(session.work) \subseteq Durable'
        BY <1>1, <2>1, <3>1, <3>5, TableMeans, CommittedAdds DEF Durable
      <4>2. QED
        BY <3>3, <3>5, <4>1, SessionsTyped
    <3>6. QED
      BY <1>1, <2>1, <3>1, <3>2, <3>4, <3>5, TableMeans DEF Poisoned
  <2>6. CASE branch \in {"savepoint", "abort"}
    <3>1. /\ inTrx /\ end # "committed" /\ TransactionalDDL /\ ~MirrorDone
      BY <2>3, <2>6, <1>4 DEF IInv, ControlInv, Body, MirrorDone, Mirrored
    <3>2. CASE Works(item)
      <4>1. /\ Durable' = Durable /\ session.tx = "open"
            /\ Range(session'.work) = Range(session.work) \cup {item}
            /\ mine' \subseteq mine \cup {item}
        BY <1>1, <2>1, <2>2, <3>2, RangeOfAppend
           DEF Works, Durable, ServerTypes, Session
      <4>2. QED
        BY <1>2, <2>2, <2>3, <2>6, <3>1, <4>1
           DEF IInv, MineInv, MirrorDone, Mirrored, Body
    <3>3. CASE (Untouched \/ Poisoned) /\ r.answer # "ok"
      <4>1. /\ Durable' = Durable /\ session'.work = session.work
            /\ session'.tx # "none" => session.tx # "none"
            /\ mine' = mine
        BY <1>1, <2>1, <3>3 DEF Untouched, Poisoned, Durable, ServerTypes, Session
      <4>2. QED
        BY <1>2, <2>3, <2>6, <3>1, <4>1 DEF IInv, MineInv, MirrorDone, Mirrored, Body
    <3>4. CASE Dies
      BY <1>2, <2>3, <2>6, <3>1, <3>4, SessionsTyped DEF Dies, MineInv, MirrorDone, Mirrored
    <3>5. ~(session.up /\ Alone(item))
      BY <2>3, <2>6 DEF IInv, TransactionInv, Buffered, Alone
    <3>6. QED
      BY <1>1, <2>1, <3>1, <3>2, <3>3, <3>4, <3>5, TableMeans
  <2>7. QED
    BY <2>3, <2>4, <2>5, <2>6 DEF IInv, ControlInv, TypeInv, ClientTypes, Body
<1>10. CASE RunRow
  <2> DEFINE item == [kind |-> "row", no |-> items + 1]
  <2>1. PICK r \in RowResults(item) :
           /\ Takes(r)
           /\ mine' = IF r.answer = "ok" /\ Buffered THEN mine \cup {item} ELSE mine
    BY <1>10 DEF RunRow, Checked
  <2>2. item \in Item /\ item \notin Durable
    BY NewItem
  <2> HIDE DEF item
  <2>3. /\ pc = "run" /\ prog # << >> /\ prog[1] = "row"
        /\ UNCHANGED << end, branch, inTrx, ownGuard >>
        /\ pc' \in {"run", "caught", "ownRollback"} /\ (ownGuard \/ pc' # "ownRollback")
    BY <1>10, <1>3 DEF RunRow, Checked, Step, Continue, Throw, client
  <2>4. CASE branch = "tail"
    BY <1>2, <2>1, <2>3, <2>4 DEF IInv, ControlInv, MineInv, MirrorDone, Mirrored, Body, Buffered
  <2>5. CASE branch = "mirror"
    <3>1. /\ inTrx /\ end # "committed" /\ ~TransactionalDDL /\ mine' = mine
          /\ pc' \in {"run", "caught"} /\ ~ownGuard
      BY <2>1, <2>3, <2>5 DEF IInv, ControlInv, Body, Buffered
    <3>2. session.tx = "none"
      <4>1. session.tx # "open"
        BY <2>3, <2>5, RestFits DEF IInv, ProgramInv, TypeInv, ClientTypes
      <4>2. QED
        BY <1>1, <3>1, <4>1 DEF IInv, SessionInv, ServerTypes, Session
    <3>3. CASE Dies
      BY <2>3, <3>1, <3>3, SessionsTyped DEF Dies, MineInv, MirrorDone
    <3>4. CASE session.up /\ session'.up /\ session'.tx = "none"
      BY <1>2, <2>3, <2>5, <3>1, <3>2, <3>4 DEF IInv, MineInv, MirrorDone, Mirrored
    <3>5. session.up => session'.up \/ Dies
      BY <1>1, <2>1, RowMeans, SessionsTyped
         DEF Works, Alone, Untouched, Poisoned, Cancelled, ServerTypes, Session
    <3>6. session'.tx = "none" /\ (session.up \/ Dies)
      BY <1>1, <2>1, <3>2, RowMeans, SessionsTyped
         DEF Works, Alone, Untouched, Poisoned, Cancelled, Dies
    <3>7. QED
      BY <3>3, <3>4, <3>5, <3>6
  <2>6. CASE branch \in {"savepoint", "abort"}
    <3>1. inTrx /\ end # "committed" /\ ~MirrorDone
      BY <2>3, <2>6 DEF IInv, ControlInv, Body, MirrorDone, Mirrored
    <3>2. CASE Works(item)
      <4>1. /\ Durable' = Durable /\ session.tx = "open"
            /\ Range(session'.work) = Range(session.work) \cup {item}
            /\ mine' \subseteq mine \cup {item}
        BY <1>1, <2>1, <2>2, <3>2, RangeOfAppend
           DEF Works, Durable, ServerTypes, Session
      <4>2. QED
        BY <1>2, <2>2, <2>3, <2>6, <3>1, <4>1
           DEF IInv, MineInv, MirrorDone, Mirrored, Body
    <3>3. CASE (Untouched \/ Poisoned \/ Cancelled) /\ r.answer # "ok"
      <4>1. /\ Durable' = Durable
            /\ session'.tx # "none" =>
                 session.tx # "none" /\ session'.work = session.work
            /\ mine' = mine
        BY <1>1, <2>1, <3>3, SessionsTyped
           DEF Untouched, Poisoned, Cancelled, Durable, ServerTypes, Session
      <4>2. QED
        BY <1>2, <2>3, <2>6, <3>1, <4>1 DEF IInv, MineInv, MirrorDone, Mirrored, Body
    <3>4. CASE Dies
      BY <1>2, <2>3, <2>6, <3>1, <3>4, SessionsTyped DEF Dies, MineInv, MirrorDone, Mirrored
    <3>5. ~(session.up /\ Alone(item))
      BY <2>3, <2>6 DEF IInv, TransactionInv, Buffered, Alone
    <3>6. QED
      BY <1>1, <2>1, <3>2, <3>3, <3>4, <3>5, RowMeans
  <2>7. QED
    BY <2>3, <2>4, <2>5, <2>6 DEF IInv, ControlInv, TypeInv, ClientTypes, Body
<1>11. CASE RunSet
  <2>1. PICK r \in SetResults : Takes(r)
    BY <1>11 DEF RunSet, Checked
  <2>2. /\ pc = "run" /\ UNCHANGED << end, branch, inTrx, mine, ownGuard >>
        /\ pc' \in {"run", "caught", "ownRollback"} /\ (ownGuard \/ pc' # "ownRollback")
    BY <1>11 DEF RunSet, Checked, Step, Continue, Throw, client
  <2>3. Untouched \/ (Dies /\ commits' = commits)
    BY <1>1, <2>1, SetMeans
  <2>4. branch = "mirror" => ~ownGuard
    BY DEF IInv, ControlInv
  <2>5. QED
    BY <1>2, <2>2, <2>3, <2>4, SessionsTyped
       DEF Untouched, Dies, IInv, MineInv, MirrorDone, Mirrored, Durable, Body
<1>12. CASE RunUnchecked
  <2>1. PICK r \in IF Step("part") THEN PartResults ELSE SetResults : Takes(r)
    BY <1>12 DEF RunUnchecked
  <2>2. /\ pc = "run" /\ pc' = "run" /\ UNCHANGED << end, branch, inTrx, mine >>
    BY <1>12 DEF RunUnchecked, Step, Continue, client
  <2>3. Untouched \/ Poisoned \/ (Dies /\ commits' = commits)
    BY <1>1, <2>1, SetMeans, PartMeans
  <2>4. /\ commits' = commits
        /\ \/ Dies
           \/ /\ session'.work = session.work /\ session'.up = session.up
              /\ session'.tx = "none" <=> session.tx = "none"
    BY <1>1, <2>3 DEF Untouched, Poisoned, ServerTypes, Session
  <2>5. QED
    BY <1>2, <2>2, <2>4, SessionsTyped
       DEF Dies, IInv, MineInv, MirrorDone, Mirrored, Durable, Body
<1>13. CASE RunWrite
  BY <1>13, <1>2
     DEF RunWrite, Continue, Step, history, server, IInv, ControlInv,
         TransactionInv, MineInv, MirrorDone, Mirrored, Body, Durable
<1>14. CASE RunRaise
  <2>1. /\ pc = "run" /\ prog # << >> /\ prog[1] \in {"raise", "throw"}
        /\ pc' \in {"caught", "ownRollback"}
        /\ UNCHANGED << session, commits, end, branch, inTrx, mine, lost >>
    BY <1>14, <1>3 DEF RunRaise, Step, Throw, server, client, history
  <2>2. branch # "mirror"
    <3>1. prog \in Seq(Statements) /\ Fits(prog, TransactionalDDL, branch)
      BY <2>1 DEF IInv, ProgramInv, TypeInv, ClientTypes
    <3>2. branch = "mirror" => prog[1] \in {"table", "index", "set", "write", "row"}
      BY <2>1, <3>1, MirrorPrograms
    <3>3. QED
      BY <2>1, <3>2
  <2>3. QED
    BY <2>1, <2>2 DEF IInv, MineInv, MirrorDone, Mirrored, Durable, Body
<1>15. CASE RunOwnBegin
  <2>1. branch = "tail" /\ UNCHANGED << end, branch, inTrx, mine >>
    BY <1>15, BeginAlone DEF RunOwnBegin, client
  <2>2. ~inTrx /\ end = "committed"
    BY <1>15, <2>1 DEF RunOwnBegin, Step, IInv, TypeInv, ClientTypes, ControlInv, Body
  <2>3. QED
    BY <1>2, <2>1, <2>2 DEF IInv, MineInv, MirrorDone, Mirrored
<1>16. CASE RunOwnCommit
  <2>1. pc = "run" /\ prog # << >> /\ prog[1] = "commit"
    BY <1>16, <1>3 DEF RunOwnCommit, Step
  <2>2. branch = "tail"
    BY <2>1 DEF IInv, TypeInv, ClientTypes, ProgramInv, Fits
  <2>3. UNCHANGED << end, branch, inTrx, mine >>
    BY <1>16 DEF RunOwnCommit, client
  <2>4. ~inTrx /\ end = "committed"
    BY <2>1, <2>2 DEF IInv, TypeInv, ClientTypes, ControlInv, Body
  <2>5. QED
    BY <1>2, <2>2, <2>3, <2>4 DEF IInv, MineInv, MirrorDone, Mirrored
<1>17. CASE OwnRollback
  <2>1. branch = "tail" /\ UNCHANGED << end, branch, inTrx, mine >>
    BY <1>17 DEF OwnRollback, client, IInv, ControlInv
  <2>2. ~inTrx /\ end = "committed"
    BY <1>17, <2>1 DEF OwnRollback, IInv, TypeInv, ClientTypes, ControlInv, Body
  <2>3. QED
    BY <1>2, <2>1, <2>2 DEF IInv, MineInv, MirrorDone, Mirrored
<1>18. CASE SubReturns
  BY <1>18
     DEF SubReturns, client, history, server, subvars, IInv, ControlInv,
         TransactionInv, MineInv, MirrorDone, Mirrored, Body, Durable
<1>19. CASE Rewind
  <2>1. PICK k \in DOMAIN savepoints :
          \E r \in RollbackToResults(savepoints[k].name) :
             /\ Takes(r)
             /\ IF r.answer = "ok" THEN mine' = mine \cap Range(session'.work)
                ELSE mine' = mine
    BY <1>19 DEF Rewind, Rewound
  <2>2. PICK r \in RollbackToResults(savepoints[k].name) :
             /\ Takes(r)
             /\ IF r.answer = "ok" THEN mine' = mine \cap Range(session'.work)
                ELSE mine' = mine
    BY <2>1
  <2>3. /\ branch = "savepoint" /\ branch' = branch /\ UNCHANGED << end, inTrx >>
        /\ ~MirrorDone
    BY <1>19 DEF Rewind, IInv, ControlInv, MirrorDone, Mirrored
  <2>4. /\ commits' = commits
        /\ session'.tx = "none" \/ mine' \subseteq Range(session'.work)
    BY <2>2, BackStep, SessionsTyped DEF Untouched, Dies
  <2>5. QED
    BY <1>2, <2>2, <2>3, <2>4 DEF IInv, MineInv, MirrorDone, Mirrored, Durable
<1>20. CASE NoRewind
  BY <1>20
     DEF NoRewind, client, history, server, subvars, IInv, ControlInv,
         TransactionInv, MineInv, MirrorDone, Mirrored, Body, Durable
<1>21. CASE RecoverSavepoint
  <2>1. Len(savepoints) \in DOMAIN savepoints
    BY <1>21 DEF RecoverSavepoint, IInv, TypeInv, ClientTypes, ControlInv
  <2>2. PICK r \in RollbackToResults(savepoints[Len(savepoints)].name) :
             /\ Takes(r)
             /\ IF r.answer = "ok" THEN mine' = mine \cap Range(session'.work)
                ELSE mine' = mine
    BY <1>21 DEF RecoverSavepoint, LastSavepoint, Rewound
  <2>3. /\ branch = "savepoint" /\ branch' = branch /\ UNCHANGED << end, inTrx >>
        /\ ~MirrorDone
    BY <1>21 DEF RecoverSavepoint, MirrorDone, Mirrored
  <2>4. /\ commits' = commits
        /\ session'.tx = "none" \/ mine' \subseteq Range(session'.work)
    BY <2>1, <2>2, BackStep, SessionsTyped DEF Untouched, Dies
  <2>5. QED
    BY <1>2, <2>2, <2>3, <2>4 DEF IInv, MineInv, MirrorDone, Mirrored, Durable
<1>22. CASE CountFailure
  BY <1>22
     DEF CountFailure, client, history, server, subvars, IInv, ControlInv,
         TransactionInv, MineInv, MirrorDone, Mirrored, Body, Durable,
         NeedsClose
<1>23. CASE Rethrow
  <2>1. /\ pc = "caught" /\ pc' = "leave"
        /\ UNCHANGED << session, commits, end, mine, lost >>
    BY <1>23 DEF Rethrow, server, history
  <2>2. MirrorDone => lost
    BY <1>23 DEF Rethrow, Recoverable, MirrorDone, Mirrored, IInv, ControlInv, SessionInv
  <2>3. QED
    BY <2>1, <2>2 DEF IInv, MineInv, MirrorDone, Mirrored, Durable, Body
<1>24. CASE CloseDdl
  <2>1. PICK r \in CommitResults :
           Takes(r) /\ IF r.answer = "ok" THEN pc' = "implicit" ELSE pc' = "leave"
    BY <1>24 DEF CloseDdl
  <2>2. /\ pc = "closeDdl" /\ branch = "mirror" /\ inTrx /\ end # "committed"
        /\ UNCHANGED << end, branch, inTrx, mine >>
    BY <1>24 DEF CloseDdl, client, IInv, ControlInv, Body
  <2>3. session'.tx = "none"
    BY <1>1, <2>1, CommitMeans, SessionsTyped DEF Kept, Cancelled, Dies
  <2>4. CASE r.answer = "ok"
    <3>1. session.up /\ IF session.tx = "open" THEN Kept ELSE Cancelled
      BY <1>1, <2>1, <2>4, CommitMeans
    <3>2. CASE session.tx = "open"
      <4>1. mine \subseteq Range(session.work)
        BY <2>2, <3>2 DEF IInv, MineInv, Body
      <4>2. Range(session.work) \subseteq Durable'
        BY <1>1, <3>1, <3>2, CommittedAdds DEF Kept, Durable
      <4>3. session'.up
        BY <3>1, <3>2, SessionsTyped DEF Kept
      <4>4. QED
        BY <2>1, <2>2, <2>3, <2>4, <4>1, <4>2, <4>3 DEF MineInv, MirrorDone, Mirrored
    <3>3. CASE session.tx # "open"
      <4>1. session.tx = "none"
        BY <1>1, <2>2, <3>3 DEF IInv, ControlInv, SessionInv, ServerTypes, Session, Body
      <4>2. session'.up
        BY <3>1, <3>3, SessionsTyped DEF Cancelled
      <4>3. mine \subseteq Durable'
        BY <1>2, <2>2, <3>1, <4>1 DEF IInv, MineInv, MirrorDone, Mirrored
      <4>4. QED
        BY <2>1, <2>2, <2>3, <2>4, <4>2, <4>3 DEF MineInv, MirrorDone, Mirrored
    <3>4. QED
      BY <3>2, <3>3
  <2>5. CASE r.answer # "ok"
    <3>1. lost' \/ (~lost /\ session.tx = "open" /\ commits' = commits)
      BY <1>1, <1>2, <2>1, <2>5, CommitMeans DEF Cancelled, Dies
    <3>2. QED
      BY <1>2, <2>1, <2>2, <2>3, <2>5, <3>1
         DEF IInv, MineInv, MirrorDone, Mirrored, Durable
  <2>6. QED
    BY <2>4, <2>5
<1>25. CASE ImplicitCommit
  <2>1. /\ pc = "implicit" /\ branch = "mirror" /\ pc' = "draw"
        /\ UNCHANGED << session, commits, mine, lost, branch >>
    BY <1>25 DEF ImplicitCommit, server, history, IInv, ControlInv
  <2>2. CASE sent
    <3>1. MirrorDone /\ end' = "committed" /\ inTrx' = FALSE
      BY <1>25, <2>1, <2>2
         DEF ImplicitCommit, ImplicitlyCommitted, MirrorDone, Mirrored, IInv,
             TransactionInv
    <3>2. QED
      BY <2>1, <3>1 DEF IInv, MineInv, MirrorDone, Mirrored, Durable
  <2>3. CASE ~sent
    <3>1. end' = end /\ inTrx' = inTrx /\ ~MirrorDone
      BY <1>25, <2>1, <2>3
         DEF ImplicitCommit, ImplicitlyCommitted, MirrorDone, Mirrored, IInv,
             TransactionInv
    <3>2. QED
      BY <2>1, <3>1 DEF IInv, MineInv, MirrorDone, Mirrored, Durable, Body
  <2>4. QED
    BY <2>2, <2>3
<1>26. CASE Commit
  <2>1. PICK r \in CommitResults :
           /\ Takes(r)
           /\ IF r.answer = "ok" THEN end' = "committed" ELSE end' = end
    BY <1>26 DEF Commit
  <2>2. /\ pc = "draw" /\ inTrx /\ pc' \in {"publish", "leave"} /\ mine' = mine
        /\ end # "committed" /\ ~MirrorDone
    BY <1>26 DEF Commit, Finished, IInv, ControlInv, MirrorDone, Mirrored, Body
  <2>3. session'.tx = "none"
    BY <1>1, <2>1, CommitMeans, SessionsTyped DEF Kept, Cancelled, Dies
  <2>4. CASE r.answer = "ok"
    <3>1. session.up /\ session.tx = "open" /\ Kept
      BY <1>1, <2>1, <2>2, <2>4, CommitMeans DEF IInv, TransactionInv
    <3>2. mine \subseteq Range(session.work)
      BY <2>2, <3>1 DEF IInv, MineInv, Body
    <3>3. Range(session.work) \subseteq Durable'
      BY <1>1, <3>1, CommittedAdds DEF Kept, Durable
    <3>4. QED
      BY <2>1, <2>2, <2>3, <2>4, <3>2, <3>3 DEF MineInv, MirrorDone, Mirrored
  <2>5. CASE r.answer # "ok"
    <3>1. lost' \/ (~lost /\ commits' = commits)
      BY <1>1, <1>2, <2>1, <2>5, CommitMeans DEF Cancelled, Dies
    <3>2. QED
      BY <1>2, <2>1, <2>2, <2>3, <2>5, <3>1
         DEF IInv, MineInv, MirrorDone, Mirrored, Durable
  <2>6. QED
    BY <2>4, <2>5
<1>p. CASE PublishOp
  BY <1>p, OpFrame, OpAlone DEF IInv, MineInv, MirrorDone, Mirrored, Durable
<1>27. CASE EndPublish
  BY <1>27
     DEF EndPublish, client, history, server, subvars, IInv, ControlInv, TransactionInv,
         MineInv, MirrorDone, Mirrored, Body, Durable
<1>28. CASE Rollback
  <2>1. PICK r \in RollbackResults : Takes(r)
    BY <1>28 DEF Rollback
  <2>2. /\ pc = "draw" /\ inTrx /\ pc' = "leave" /\ mine' = mine
        /\ end # "committed" /\ end' # "committed" /\ ~MirrorDone
    BY <1>28 DEF Rollback, Finished, IInv, ControlInv, MirrorDone, Mirrored, Body
  <2>3. session'.tx = "none" /\ commits' = commits
    BY <1>1, <2>1, RollbackMeans, SessionsTyped DEF Cancelled, Dies
  <2>4. QED
    BY <1>2, <2>2, <2>3 DEF IInv, MineInv, MirrorDone, Mirrored, Durable
<1>29. CASE EndTail
  BY <1>29
     DEF EndTail, client, history, server, subvars, IInv, ControlInv,
         TransactionInv, MineInv, MirrorDone, Mirrored, Body, Finished,
         Durable
<1>30. CASE Leave
  <2>1. /\ pc = "leave" /\ pc' = "loop" /\ mine' = mine /\ end' = end
        /\ ~MirrorDone
    BY <1>30 DEF Leave, MirrorDone, Mirrored
  <2>2. session'.tx = "none" /\ commits' = commits
    BY <1>30, <1>1, RollbackMeans, SessionsTyped
       DEF Leave, server, Cancelled, Dies, IInv, TransactionInv
  <2>3. QED
    BY <1>2, <2>1, <2>2 DEF IInv, MineInv, MirrorDone, Mirrored, Durable
<1>31. CASE UNCHANGED vars
  BY <1>31 DEF vars, client, server, history, IInv, MineInv, MirrorDone, Mirrored,
         Durable, Body
<1>32. QED
  BY <1>p, <1>5, <1>6, <1>7, <1>8, <1>9, <1>10, <1>11, <1>12, <1>13, <1>14, <1>15,
     <1>16, <1>17, <1>18, <1>19, <1>20, <1>21, <1>22, <1>23, <1>24, <1>25,
     <1>26, <1>27, <1>28, <1>29, <1>30, <1>31 DEF Next, Execute, Stop

LEMMA TablesOfUnion ==
  ASSUME NEW A, NEW B
  PROVE  Tables(A \cup B) = Tables(A) \cup Tables(B)
BY DEF Tables

LEMMA DurableStep ==
  ASSUME IInv, [Next]_vars
  PROVE  DurableInv'
<1>1. ServerTypes
  BY DEF IInv, TypeInv
<1>2. commits \subseteq commits' /\ Durable \subseteq Durable' /\ (lost => lost')
  BY ServerStep DEF ServerAfter
<1>3. prog # << >> => Head(prog) = prog[1]
  BY DEF IInv, TypeInv, ClientTypes
<1>4. Range(<< >>) = {} /\ Tables({}) = {}
  BY EmptyRange DEF Tables
<1>5. \A S : Within(S, commits) => Within(S, commits')
  BY <1>2 DEF Within
<1>6. pc = "run" /\ prog # << >> /\ prog[1] \notin {"write", "part", "set"} =>
        made = << >>
  BY RestFits DEF IInv, ProgramInv, TypeInv, ClientTypes
<1>7. \A S : Within(S, commits) => S \subseteq Durable
  BY DEF Within, Durable, Tables
<1>8. CASE Reconnect
  BY <1>8, <1>2 DEF Reconnect, client, history, subvars, Durable, IInv, DurableInv, Owed, MirrorDone, Mirrored
<1>9. CASE Begin
  <2>1. PICK r \in BeginResults : Takes(r)
    BY <1>9 DEF Begin
  <2>2. /\ pc = "loop" /\ pc' \in {"loop", "draw"} /\ catalog' = catalog
    BY <1>9 DEF Begin
  <2>3. commits' = commits
    BY <1>9, <1>1, <2>1, BeginMeans, BeginAlone DEF Untouched
  <2>4. QED
    BY <1>2, <2>2, <2>3 DEF Durable, IInv, DurableInv, Owed, MirrorDone, Mirrored
<1>10. CASE Draw
  <2>1. /\ pc = "draw" /\ pc' \in {"savepoint", "run"} /\ session' = session
        /\ commits' = commits /\ catalog' = catalog /\ made' = << >>
        /\ branch' = "mirror" => inTrx
    BY <1>10 DEF Draw, server, IInv, TypeInv, ClientTypes, Config
  <2>2. ~MirrorDone /\ ~MirrorDone'
    BY <2>1 DEF MirrorDone, Mirrored, IInv, TransactionInv
  <2>3. QED
    BY <1>2, <1>4, <2>1, <2>2 DEF IInv, DurableInv, Owed, Durable, Within
<1>11. CASE TakeSavepoint
  <2>1. PICK r \in SavepointResults(spCounter + 1) : Takes(r)
    BY <1>11 DEF TakeSavepoint
  <2>2. /\ pc = "savepoint" /\ pc' \in {"run", "leave"} /\ branch = "savepoint"
        /\ branch' = branch /\ catalog' = catalog
    BY <1>11 DEF TakeSavepoint, IInv, ControlInv
  <2>3. commits' = commits
    BY <1>1, <2>1, SavepointMeans DEF Untouched
  <2>4. QED
    BY <1>2, <2>2, <2>3 DEF Durable, Buffered, IInv, DurableInv, Owed, MirrorDone, Mirrored
<1>12. CASE RunTable
  <2> DEFINE item == [kind |-> "table", no |-> items + 1]
  <2>1. PICK r \in TableResults(item) :
           /\ Takes(r)
           /\ made' = IF r.answer = "ok" THEN << item >> ELSE << >>
           /\ r.answer = "ok" => pc' = "run"
    BY <1>12 DEF RunTable, Continue, Step
  <2>2. item \in Item /\ item.kind = "table"
    BY NewItem
  <2> HIDE DEF item
  <2>3. /\ pc = "run" /\ prog # << >> /\ prog[1] \in {"table", "index"} /\ made = << >>
        /\ UNCHANGED << branch, log, catalog, ownGuard >>
        /\ pc' \in {"run", "caught", "ownRollback"} /\ (ownGuard \/ pc' # "ownRollback")
    BY <1>12, <1>3, <1>6 DEF RunTable, Step, Continue, Throw, client
  <2>4. /\ r.answer = "ok" => Range(made') = {item}
        /\ r.answer # "ok" => Range(made') = {}
        /\ Tables({item}) = {item}
    BY <2>1, <2>2, <1>4 DEF Range, Tables
  <2>5. CASE branch = "tail"
    <3>1. ~TransactionalDDL /\ session.tx = "none" /\ session.work = << >>
      BY <2>3, <2>5, RestFits
         DEF IInv, ControlInv, ProgramInv, TransactionInv, SessionInv, Body,
             TypeInv, ClientTypes
    <3>2. Committed(commits) = commits
      BY <3>1 DEF Committed
    <3>3. \/ r.answer = "ok" /\ commits' = commits \cup {{item}}
          \/ r.answer # "ok" /\ commits' = commits
          \/ lost'
      BY <1>1, <2>1, <3>1, <3>2, TableMeans DEF Untouched, Poisoned, Dies
    <3>4. ~Mirrored /\ ~Mirrored' /\ ~Buffered /\ ~Buffered'
      BY <2>3, <2>5 DEF Mirrored, Buffered
    <3>5. CASE r.answer = "ok" /\ commits' = commits \cup {{item}}
      <4>1. Durable' = Durable \cup {item}
        BY <3>5 DEF Durable
      <4>2. Tables(Durable') = Tables(Durable) \cup {item}
        BY <2>4, <4>1, TablesOfUnion
      <4>3. Within(Range(made'), commits')
        BY <2>4, <3>5 DEF Within
      <4>4. QED
        BY <1>2, <2>1, <2>3, <2>4, <3>4, <3>5, <4>2, <4>3, <1>4
           DEF IInv, DurableInv, Owed, MirrorDone
    <3>6. CASE r.answer # "ok" /\ (commits' = commits \/ lost')
      BY <1>2, <1>4, <2>3, <2>4, <3>4, <3>6
         DEF IInv, DurableInv, Owed, MirrorDone, Durable, Within
    <3>7. CASE r.answer = "ok" /\ lost'
      BY <1>1, <1>2, <2>1, <3>1, <3>2, <3>3, <3>5, <3>7, TableMeans
    <3>8. QED
      BY <3>3, <3>5, <3>6, <3>7
  <2>6. CASE branch = "mirror"
    <3>1. ~TransactionalDDL /\ ~ownGuard /\ session.tx # "failed"
      BY <2>3, <2>6 DEF IInv, ControlInv, SessionInv, Body
    <3>2. /\ Mirrored /\ Mirrored' /\ ~Buffered /\ ~Buffered'
          /\ pc # "publish" /\ pc' # "publish"
      BY <2>3, <2>6, <3>1 DEF Mirrored, Buffered
    <3>3. session.tx # "none" => Tables(Range(session.work)) = Range(log)
      BY <1>4, <2>3, <3>2 DEF IInv, MirrorInv
    <3>4. session.tx = "none" =>
            /\ session.work = << >> /\ Range(session.work) = {}
            /\ Committed(commits) = commits
      BY <1>4 DEF IInv, SessionInv, Committed
    <3>5. session.up =>
            /\ Tables(Durable) \cup Tables(Range(session.work)) =
                 IF lost THEN Tables(Durable) \cup Tables(Range(session.work))
                 ELSE catalog \cup Range(log)
            /\ Within(Range(log), Committed(commits))
      <4>1. CASE session.tx = "none"
        BY <1>4, <2>3, <3>2, <3>4, <4>1 DEF IInv, DurableInv, Owed, MirrorDone
      <4>2. CASE session.tx # "none"
        <5>1. Within(Range(log), Committed(commits))
          BY <1>1, <1>4, <3>3, <4>2, CommittedAdds DEF Within, Tables
        <5>2. QED
          BY <1>4, <2>3, <3>2, <3>3, <4>2, <5>1 DEF IInv, DurableInv, Owed, MirrorDone
      <4>3. QED
        BY <4>1, <4>2
    <3>6. CASE session.up /\ session' = NewSession /\ r.answer = "ok"
               /\ commits' = Committed(commits) \cup {{item}}
      <4>1. Durable' = Durable \cup Range(session.work) \cup {item}
        BY <1>1, <3>6, CommittedAdds DEF Durable
      <4>2. Tables(Durable') =
              Tables(Durable) \cup Tables(Range(session.work)) \cup {item}
        <5>1. Tables(Durable \cup Range(session.work)) =
                Tables(Durable) \cup Tables(Range(session.work))
          BY TablesOfUnion
        <5>2. Tables((Durable \cup Range(session.work)) \cup {item}) =
                Tables(Durable \cup Range(session.work)) \cup Tables({item})
          BY TablesOfUnion
        <5>3. QED
          BY <2>4, <4>1, <5>1, <5>2
      <4>3. Within(Range(made'), commits') /\ Within(Range(log), commits')
        BY <2>4, <3>5, <3>6 DEF Within
      <4>4. MirrorDone'
        BY <3>2, <3>6, SessionsTyped DEF MirrorDone
      <4>5. QED
        BY <1>2, <2>1, <2>3, <2>4, <3>2, <3>5, <3>6, <4>2, <4>3, <4>4
           DEF IInv, DurableInv, Owed
    <3>7. CASE session.up /\ session' = NewSession /\ r.answer # "ok"
               /\ commits' = Committed(commits)
      <4>1. Durable' = Durable \cup Range(session.work)
        BY <1>1, <3>7, CommittedAdds DEF Durable
      <4>2. Tables(Durable') = Tables(Durable) \cup Tables(Range(session.work))
        BY <4>1, TablesOfUnion
      <4>3. MirrorDone'
        BY <3>2, <3>7, SessionsTyped DEF MirrorDone
      <4>4. QED
        BY <1>2, <2>3, <2>4, <3>2, <3>5, <3>7, <4>2, <4>3
           DEF IInv, DurableInv, Owed, Within
    <3>8. CASE Untouched /\ r.answer # "ok"
      BY <1>2, <1>4, <2>3, <2>4, <3>2, <3>8
         DEF IInv, DurableInv, Owed, MirrorDone, Durable, Untouched, Within
    <3>9. CASE Dies /\ r.answer # "ok"
      BY <1>2, <2>3, <2>4, <3>2, <3>9, SessionsTyped
         DEF IInv, DurableInv, Owed, MirrorDone, Dies, Within
    <3>10. QED
      BY <1>1, <2>1, <3>1, <3>6, <3>7, <3>8, <3>9, TableMeans DEF Poisoned
  <2>7. CASE branch \in {"savepoint", "abort"}
    <3>1. TransactionalDDL /\ ~Mirrored /\ ~Mirrored' /\ Buffered /\ Buffered'
      BY <2>3, <2>7 DEF IInv, TypeInv, ClientTypes, ProgramInv, Fits, Mirrored, Buffered
    <3>2. lost' \/ commits' = commits
      BY <1>1, <2>1, <2>3, <3>1, TableMeans
         DEF Works, Alone, Untouched, Poisoned, Dies, IInv, TransactionInv
    <3>3. QED
      BY <1>2, <2>3, <3>1, <3>2 DEF IInv, DurableInv, Owed, MirrorDone, Durable
  <2>8. QED
    BY <2>3, <2>5, <2>6, <2>7 DEF IInv, ControlInv, TypeInv, ClientTypes, Body
<1>13. CASE RunRow
  <2> DEFINE item == [kind |-> "row", no |-> items + 1]
  <2>1. PICK r \in RowResults(item) : Takes(r)
    BY <1>13 DEF RunRow, Checked
  <2>2. Tables({item}) = {}
    BY DEF Tables
  <2> HIDE DEF item
  <2>3. /\ pc = "run" /\ prog # << >> /\ prog[1] = "row" /\ made = << >>
        /\ UNCHANGED << branch, log, catalog, ownGuard >> /\ made' = << >>
        /\ pc' \in {"run", "caught", "ownRollback"} /\ (ownGuard \/ pc' # "ownRollback")
    BY <1>13, <1>3, <1>6 DEF RunRow, Checked, Step, Continue, Throw, client
  <2>4. lost' \/ Tables(Durable') = Tables(Durable)
    <3>1. CASE commits' = commits
      BY <3>1 DEF Durable
    <3>2. CASE commits' = commits \cup {{item}}
      <4>1. Durable' = Durable \cup {item}
        BY <3>2 DEF Durable
      <4>2. Tables(Durable \cup {item}) = Tables(Durable) \cup Tables({item})
        BY TablesOfUnion
      <4>3. QED
        BY <2>2, <4>1, <4>2
    <3>3. QED
      BY <1>1, <2>1, <3>1, <3>2, RowMeans
         DEF Works, Alone, Untouched, Poisoned, Cancelled, Dies
  <2>5. CASE branch = "mirror"
    <3>1. session.tx = "none" /\ ~ownGuard
      <4>1. session.tx # "open"
        BY <2>3, <2>5, RestFits DEF IInv, ProgramInv, TypeInv, ClientTypes
      <4>2. QED
        BY <1>1, <2>3, <2>5, <4>1
           DEF IInv, ControlInv, SessionInv, ServerTypes, Session, Body
    <3>2. Mirrored /\ Mirrored' /\ ~Buffered /\ ~Buffered'
      BY <2>3, <2>5, <3>1 DEF Mirrored, Buffered
    <3>3. (session'.up \/ ~lost') => session.up /\ session'.tx = "none" /\ session'.up
      BY <1>1, <2>1, <3>1, RowMeans, SessionsTyped
         DEF Works, Alone, Untouched, Poisoned, Cancelled, Dies
    <3>4. QED
      BY <1>2, <1>4, <1>5, <2>3, <2>4, <3>1, <3>2, <3>3
         DEF IInv, DurableInv, Owed, MirrorDone, Within
  <2>6. CASE branch # "mirror"
    <3>1. ~Mirrored /\ ~Mirrored'
      BY <2>3, <2>6 DEF Mirrored
    <3>2. QED
      BY <1>2, <1>4, <2>3, <2>4, <3>1
         DEF IInv, DurableInv, Owed, MirrorDone, Within
  <2>7. QED
    BY <2>5, <2>6
<1>14. CASE RunSet
  <2>1. PICK r \in SetResults : Checked(r)
    BY <1>14 DEF RunSet
  <2>2. /\ pc = "run" /\ UNCHANGED << branch, log, made, catalog, ownGuard >>
        /\ IF r.answer = "ok" THEN pc' = "run"
           ELSE pc' \in {"caught", "ownRollback"} /\ (ownGuard \/ pc' = "caught")
    BY <1>14, <2>1 DEF RunSet, Checked, Step, Continue, Throw, client
  <2>3. \/ Untouched /\ (r.answer = "ok" \/ session.tx = "failed")
        \/ Dies /\ commits' = commits /\ r.answer = "gone"
    BY <1>1, <2>1, SetMeans DEF Checked
  <2>4. branch \in {"mirror", "tail"} => session.tx # "failed"
    BY <2>2 DEF IInv, ControlInv, SessionInv, Body
  <2>5. branch = "mirror" => ~ownGuard
    BY DEF IInv, ControlInv
  <2>6. CASE Untouched
    BY <1>2, <2>2, <2>3, <2>4, <2>5, <2>6, SessionsTyped
       DEF Untouched, Dies, Buffered, Durable, IInv, TypeInv, ClientTypes,
           ControlInv, Body, DurableInv, Owed, MirrorDone, Mirrored
  <2>7. CASE Dies /\ commits' = commits /\ r.answer = "gone"
    BY <1>2, <2>2, <2>5, <2>7, SessionsTyped
       DEF Dies, Buffered, Durable, IInv, DurableInv, Owed, MirrorDone
  <2>8. QED
    BY <2>3, <2>6, <2>7
<1>15. CASE RunUnchecked
  <2>1. PICK r \in IF Step("part") THEN PartResults ELSE SetResults : Takes(r)
    BY <1>15 DEF RunUnchecked
  <2>2. /\ pc = "run" /\ pc' = "run" /\ UNCHANGED << branch, log, made, catalog >>
    BY <1>15 DEF RunUnchecked, Step, Continue, client
  <2>3. Untouched \/ Poisoned \/ (Dies /\ commits' = commits)
    BY <1>1, <2>1, SetMeans, PartMeans
  <2>4. /\ commits' = commits
        /\ \/ Dies
           \/ /\ session'.up = session.up
              /\ session'.tx = "none" <=> session.tx = "none"
    BY <1>1, <2>3 DEF Untouched, Poisoned, ServerTypes, Session
  <2>5. QED
    BY <1>2, <2>2, <2>4, SessionsTyped
       DEF Dies, Buffered, Durable, IInv, DurableInv, Owed, MirrorDone, Mirrored
<1>16. CASE RunWrite
  <2>1. /\ pc = "run" /\ pc' = "run" /\ made' = << >>
        /\ UNCHANGED << session, commits, branch, lost >>
        /\ IF Buffered THEN UNCHANGED catalog
           ELSE catalog' = catalog \cup Range(made) /\ UNCHANGED log
    BY <1>16 DEF RunWrite, Step, Continue, server, history
  <2>2. MirrorDone' = MirrorDone /\ Buffered' = Buffered /\ Durable' = Durable
        /\ (MirrorDone => ~Buffered)
    BY <2>1 DEF MirrorDone, Mirrored, Buffered, Durable
  <2>3. ~Buffered => Range(made) \subseteq Durable
    BY <1>7, <2>1 DEF IInv, DurableInv
  <2>4. QED
    BY <1>4, <2>1, <2>2, <2>3 DEF IInv, DurableInv, Owed, Within
<1>17. CASE RunRaise
  <2>1. /\ pc = "run" /\ prog # << >> /\ prog[1] \in {"raise", "throw"}
        /\ pc' \in {"caught", "ownRollback"}
        /\ UNCHANGED << session, commits, catalog, log, branch, lost >>
    BY <1>17, <1>3 DEF RunRaise, Step, Throw, server, client, history
  <2>2. branch # "mirror" /\ made = << >>
    BY <2>1, <1>6, RestFits DEF IInv, ProgramInv, TypeInv, ClientTypes
  <2>3. QED
    BY <1>4, <2>1, <2>2 DEF Durable, IInv, DurableInv, Owed, MirrorDone, Mirrored
<1>18. CASE RunOwnBegin
  <2>1. PICK r \in BeginResults : Checked(r)
    BY <1>18 DEF RunOwnBegin
  <2>2. /\ pc = "run" /\ prog # << >> /\ prog[1] = "begin" /\ branch = "tail"
        /\ made = << >> /\ made' = made /\ UNCHANGED << branch, catalog >>
        /\ pc' \in {"run", "caught", "ownRollback"}
    BY <1>18, <1>3, <1>6, <2>1, BeginAlone
       DEF RunOwnBegin, Step, client, Checked, Continue, Throw
  <2>3. commits' = commits
    BY <1>18, <1>1, <2>1, BeginMeans, BeginAlone DEF Untouched, Checked
  <2>4. QED
    BY <1>2, <1>4, <2>2, <2>3 DEF Durable, Within, IInv, DurableInv, Owed, MirrorDone, Mirrored
<1>19. CASE RunOwnCommit
  <2>1. PICK r \in CommitResults : Takes(r)
    BY <1>19 DEF RunOwnCommit
  <2>2. /\ pc = "run" /\ prog # << >> /\ prog[1] = "commit" /\ made = << >>
        /\ made' = made /\ UNCHANGED << branch, catalog >>
        /\ pc' \in {"run", "caught"}
    BY <1>19, <1>3, <1>6 DEF RunOwnCommit, Step, client, Continue
  <2>3. branch = "tail"
    BY <2>2 DEF IInv, TypeInv, ClientTypes, ProgramInv, Fits
  <2>4. Range(log) = {}
    BY <1>4, <2>2, <2>3 DEF IInv, TypeInv, ClientTypes, ControlInv, Body
  <2>5. lost' \/ Tables(Durable') = Tables(Durable)
    <3>1. CASE commits' = commits
      BY <3>1 DEF Durable
    <3>2. CASE Kept
      <4>1. Tables(Range(session.work)) = {}
        BY <1>4, <2>2, <2>4, <3>2 DEF IInv, MirrorInv, Kept
      <4>2. Durable' = Durable \cup Range(session.work)
        BY <1>1, <3>2, CommittedAdds DEF Kept, Durable
      <4>3. QED
        BY <4>1, <4>2, TablesOfUnion
    <3>3. QED
      BY <1>1, <2>1, <3>1, <3>2, CommitMeans DEF Cancelled, Dies
  <2>6. QED
    BY <1>2, <1>4, <2>2, <2>3, <2>5 DEF Within, IInv, DurableInv, Owed, MirrorDone, Mirrored
<1>20. CASE OwnRollback
  <2>1. /\ pc = "ownRollback" /\ pc' = "caught" /\ catalog' = catalog
        /\ branch = "tail" /\ branch' = branch
    BY <1>20 DEF OwnRollback, client, IInv, ControlInv
  <2>2. commits' = commits
    BY <1>20, <1>1, RollbackMeans DEF OwnRollback, Cancelled
  <2>3. QED
    BY <1>2, <2>1, <2>2 DEF Durable, IInv, DurableInv, Owed, MirrorDone, Mirrored
<1>21. CASE SubReturns
  <2>1. made = << >>
    BY <1>21 DEF SubReturns, IInv, ProgramInv, WriteSoon
  <2>2. QED
    BY <1>21, <1>4, <2>1
       DEF SubReturns, client, subvars, server, history, Durable, IInv, DurableInv, Owed, MirrorDone, Mirrored
<1>22. CASE Rewind
  <2>1. PICK k \in DOMAIN savepoints :
          \E r \in RollbackToResults(savepoints[k].name) : Takes(r)
    BY <1>22 DEF Rewind
  <2>2. /\ pc = "rewind" /\ pc' \in {"draw", "caught"} /\ branch = "savepoint"
        /\ branch' = branch /\ catalog' = catalog
    BY <1>22 DEF Rewind, IInv, ControlInv
  <2>3. commits' = commits
    BY <2>1, BackStep DEF Untouched
  <2>4. QED
    BY <1>2, <2>2, <2>3 DEF Durable, IInv, DurableInv, Owed, MirrorDone, Mirrored
<1>23. CASE NoRewind
  BY <1>23 DEF NoRewind, client, subvars, server, history, Durable, ControlInv,
            IInv, DurableInv, Owed, MirrorDone, Mirrored
<1>24. CASE RecoverSavepoint
  <2>1. Len(savepoints) \in DOMAIN savepoints
    BY <1>24 DEF RecoverSavepoint, IInv, TypeInv, ClientTypes, ControlInv
  <2>2. PICK r \in RollbackToResults(savepoints[Len(savepoints)].name) : Takes(r)
    BY <1>24 DEF RecoverSavepoint, LastSavepoint
  <2>3. /\ pc = "caught" /\ pc' \in {"draw", "leave"} /\ branch = "savepoint"
        /\ branch' = branch /\ catalog' = catalog
    BY <1>24 DEF RecoverSavepoint
  <2>4. commits' = commits
    BY <2>1, <2>2, BackStep DEF Untouched
  <2>5. QED
    BY <1>2, <2>3, <2>4 DEF Durable, IInv, DurableInv, Owed, MirrorDone, Mirrored
<1>25. CASE CountFailure
  BY <1>25 DEF CountFailure, client, subvars, server, history, Durable, NeedsClose,
            ControlInv, IInv, DurableInv, Owed, MirrorDone, Mirrored
<1>26. CASE Rethrow
  <2>1. /\ pc = "caught" /\ pc' = "leave"
        /\ UNCHANGED << session, commits, catalog, lost >>
    BY <1>26 DEF Rethrow, server, history
  <2>2. MirrorDone => lost
    BY <1>26 DEF Rethrow, Recoverable, MirrorDone, Mirrored, IInv, ControlInv, SessionInv
  <2>3. QED
    BY <2>1, <2>2 DEF IInv, DurableInv, Owed, MirrorDone, Mirrored, Durable
<1>27. CASE CloseDdl
  <2>1. PICK r \in CommitResults :
           Takes(r) /\ IF r.answer = "ok" THEN pc' = "implicit" ELSE pc' = "leave"
    BY <1>27 DEF CloseDdl
  <2>2. /\ pc = "closeDdl" /\ branch = "mirror" /\ Mirrored
        /\ UNCHANGED << branch, catalog, log >>
    BY <1>27 DEF CloseDdl, client, IInv, ControlInv, Mirrored
  <2>3. session'.tx = "none"
    BY <1>1, <2>1, CommitMeans, SessionsTyped DEF Kept, Cancelled, Dies
  <2>4. CASE r.answer = "ok"
    <3>1. session.up /\ IF session.tx = "open" THEN Kept ELSE Cancelled
      BY <1>1, <2>1, <2>4, CommitMeans
    <3>2. session'.up /\ MirrorDone'
      BY <2>1, <2>2, <2>3, <2>4, <3>1, SessionsTyped
         DEF Kept, Cancelled, MirrorDone, Mirrored
    <3>3. CASE session.tx = "open"
      <4>1. Tables(Range(session.work)) = Range(log)
        BY <2>2, <3>3 DEF IInv, MirrorInv
      <4>2. Tables(Durable') = Tables(Durable) \cup Range(log)
        BY <1>1, TablesOfUnion, <3>1, <3>3, <4>1, CommittedAdds DEF Kept, Durable
      <4>3. Within(Range(log), commits')
        BY <1>1, <1>4, <3>1, <3>3, <4>1, CommittedAdds DEF Kept, Within, Tables
      <4>4. ~MirrorDone
        BY <3>3 DEF MirrorDone
      <4>5. QED
        BY <1>2, <2>1, <2>2, <2>4, <3>2, <4>2, <4>3, <4>4 DEF IInv, DurableInv, Owed
    <3>4. CASE session.tx # "open"
      <4>1. MirrorDone /\ commits' = commits
        BY <1>1, <2>2, <3>1, <3>4
           DEF IInv, ControlInv, SessionInv, ServerTypes, Session, Body,
               MirrorDone, Cancelled
      <4>2. QED
        BY <1>2, <2>1, <2>2, <2>4, <3>2, <4>1 DEF IInv, DurableInv, Owed, Durable
    <3>5. QED
      BY <3>3, <3>4
  <2>5. CASE r.answer # "ok"
    <3>1. lost' \/ (session.tx = "open" /\ commits' = commits)
      BY <1>1, <2>1, <2>5, CommitMeans DEF Cancelled, Dies
    <3>2. QED
      BY <1>2, <2>1, <2>2, <2>5, <3>1
         DEF IInv, DurableInv, Owed, MirrorDone, Mirrored, Durable
  <2>6. QED
    BY <2>4, <2>5
<1>28. CASE ImplicitCommit
  <2>1. /\ pc = "implicit" /\ branch = "mirror" /\ pc' = "draw" /\ Mirrored
        /\ UNCHANGED << session, commits, lost, branch >>
        /\ catalog' = catalog /\ (sent => Range(log) = {})
    BY <1>28, <1>4 DEF ImplicitCommit, ImplicitlyCommitted, server, history, IInv,
              ControlInv, Mirrored
  <2>2. /\ sent => MirrorDone
        /\ ~sent => ~MirrorDone
    BY <2>1 DEF MirrorDone, IInv, TransactionInv
  <2>3. QED
    BY <2>1, <2>2 DEF Durable, IInv, DurableInv, Owed, MirrorDone, Mirrored
<1>29. CASE Commit
  <2>1. PICK r \in CommitResults :
           Takes(r) /\ IF r.answer = "ok" THEN pc' = "publish" ELSE pc' = "leave"
    BY <1>29 DEF Commit
  <2>2. /\ pc = "draw" /\ inTrx /\ UNCHANGED << branch, catalog, log >>
        /\ ~MirrorDone /\ ~Mirrored'
    BY <1>29 DEF Commit, Finished, MirrorDone, Mirrored
  <2>3. CASE r.answer = "ok"
    <3>1. session.up /\ session.tx = "open" /\ Kept
      BY <1>1, <2>1, <2>2, <2>3, CommitMeans DEF IInv, TransactionInv
    <3>2. Tables(Range(session.work)) = Range(log)
      BY <2>2, <3>1 DEF IInv, MirrorInv
    <3>3. Tables(Durable') = Tables(Durable) \cup Range(log)
      BY <1>1, TablesOfUnion, <3>1, <3>2, CommittedAdds DEF Kept, Durable
    <3>4. Within(Range(log), commits')
      BY <1>1, <1>4, <3>1, <3>2, CommittedAdds DEF Kept, Within, Tables
    <3>5. QED
      BY <1>2, <2>1, <2>2, <2>3, <3>3, <3>4 DEF IInv, DurableInv, Owed, MirrorDone
  <2>4. CASE r.answer # "ok"
    <3>1. lost' \/ commits' = commits
      BY <1>1, <2>1, <2>4, CommitMeans DEF Cancelled, Dies
    <3>2. QED
      BY <1>2, <2>1, <2>2, <2>4, <3>1 DEF IInv, DurableInv, Owed, MirrorDone, Durable
  <2>5. QED
    BY <2>3, <2>4
<1>p. CASE PublishOp
  <2>1. /\ MirrorDone' = MirrorDone /\ Durable' = Durable /\ pc # "run"
    BY <1>p, OpFrame, OpAlone DEF MirrorDone, Mirrored, Durable
  <2>2. Owed = Range(log) /\ Owed' = Range(log')
    BY <1>p, <2>1, OpFrame, OpAlone DEF Owed, DueLog
  <2>3. Within(Range(log), commits) /\ Head(log) \in Durable
    BY <1>p, <1>7, OpAlone, OpPublished DEF IInv, DurableInv, DueLog
  <2>4. QED
    BY <1>p, <2>1, <2>2, <2>3, OpFrame, OpPublished
       DEF IInv, DurableInv, Within
<1>30. CASE EndPublish
  <2>1. /\ pc = "publish" /\ pc' = "leave" /\ catalog' = catalog
        /\ Range(log) = {} /\ UNCHANGED << commits, lost >>
    BY <1>30, <1>4 DEF EndPublish, client, server, history
  <2>2. QED
    BY <2>1 DEF Durable, IInv, DurableInv, Owed, MirrorDone, Mirrored
<1>31. CASE Rollback
  <2>1. /\ pc = "draw" /\ pc' = "leave" /\ catalog' = catalog
    BY <1>31 DEF Rollback, Finished
  <2>2. commits' = commits
    BY <1>31, <1>1, RollbackMeans DEF Rollback, Cancelled
  <2>3. QED
    BY <1>2, <2>1, <2>2 DEF Durable, IInv, DurableInv, Owed, MirrorDone, Mirrored
<1>32. CASE EndTail
  BY <1>32 DEF EndTail, Finished, client, subvars, server, history, Durable,
            IInv, DurableInv, Owed, MirrorDone, Mirrored
<1>33. CASE Leave
  <2>1. /\ pc = "leave" /\ pc' = "loop" /\ catalog' = catalog
    BY <1>33 DEF Leave
  <2>2. commits' = commits
    BY <1>33, <1>1, RollbackMeans DEF Leave, server, Cancelled
  <2>3. QED
    BY <1>2, <2>1, <2>2 DEF Durable, IInv, DurableInv, Owed, MirrorDone, Mirrored
<1>34. CASE UNCHANGED vars
  BY <1>34 DEF vars, client, subvars, server, history, Buffered, Durable, Within,
     IInv, DurableInv, Owed, MirrorDone, Mirrored
<1>35. QED
  BY <1>p, <1>8, <1>9, <1>10, <1>11, <1>12, <1>13, <1>14, <1>15, <1>16, <1>17, <1>18,
     <1>19, <1>20, <1>21, <1>22, <1>23, <1>24, <1>25, <1>26, <1>27, <1>28,
     <1>29, <1>30, <1>31, <1>32, <1>33, <1>34 DEF Next, Execute, Stop

-----------------------------------------------------------------------------
(* What the catalog shows of each commit. *)

\* The commits a step adds: the open transaction's, or the statement's own.
GrowsBy(item) == commits' \subseteq commits \cup {Range(session.work), {item}}

LEMMA CommitsGrow ==
  ASSUME ServerTypes, NEW item,
         commits' \in {commits, Committed(commits), commits \cup {{item}},
                       Committed(commits) \cup {{item}}}
  PROVE  GrowsBy(item)
BY DEF GrowsBy, Committed

LEMMA CommitsStep ==
  ASSUME IInv, [Next]_vars
  PROVE  \E item \in Item :
           /\ item.no = items + 1 /\ GrowsBy(item)
           /\ RunTable => Range(made') \subseteq Tables({item})
<1>1. ServerTypes
  BY DEF IInv, TypeInv
<1>2. CASE RunTable
  <2> DEFINE item == [kind |-> "table", no |-> items + 1]
  <2>1. PICK r \in TableResults(item) :
           Takes(r) /\ made' = IF r.answer = "ok" THEN << item >> ELSE << >>
    BY <1>2 DEF RunTable
  <2>2. item \in Item /\ item.no = items + 1 /\ item.kind = "table"
    BY NewItem
  <2> HIDE DEF item
  <2>3. commits' \in {commits, Committed(commits), commits \cup {{item}},
                      Committed(commits) \cup {{item}}}
    BY <1>1, <2>1, TableMeans DEF Works, Alone, Untouched, Poisoned
  <2>4. Range(made') \subseteq Tables({item})
    BY <2>1, <2>2, EmptyRange DEF Range, Tables
  <2>5. QED
    BY <1>1, <2>2, <2>3, <2>4, CommitsGrow
<1>3. CASE RunRow
  <2> DEFINE item == [kind |-> "row", no |-> items + 1]
  <2>1. PICK r \in RowResults(item) : Takes(r)
    BY <1>3 DEF RunRow, Checked
  <2>2. /\ item \in Item /\ item.no = items + 1
        /\ ~RunTable
    BY <1>3, NewItem DEF RunRow, RunTable, Step
  <2> HIDE DEF item
  <2>3. commits' \in {commits, commits \cup {{item}}}
    BY <1>1, <2>1, RowMeans DEF Works, Alone, Untouched, Poisoned, Cancelled
  <2>4. QED
    BY <1>1, <2>2, <2>3, CommitsGrow
<1>4. ASSUME ~RunTable, commits' \in {commits, Committed(commits)}
      PROVE  \E item \in Item :
               /\ item.no = items + 1 /\ GrowsBy(item)
               /\ RunTable => Range(made') \subseteq Tables({item})
  <2> DEFINE item == [kind |-> "row", no |-> items + 1]
  <2>1. item \in Item /\ item.no = items + 1
    BY NewItem
  <2> HIDE DEF item
  <2>2. QED
    BY <1>1, <1>4, <2>1, CommitsGrow
<1>5. /\ Begin \/ RunOwnBegin => session.tx = "none"
      /\ Begin => commits' = commits
      /\ TakeSavepoint => commits' = commits
      /\ RunSet => commits' = commits
      /\ RunUnchecked => commits' = commits
  BY <1>1, BeginAlone, BeginMeans, SavepointMeans, SetMeans, PartMeans
     DEF Begin, TakeSavepoint, RunSet, RunUnchecked, Checked, Untouched, Poisoned
<1>6. /\ RunOwnBegin => commits' = commits
      /\ RunOwnCommit \/ CloseDdl \/ Commit =>
           commits' \in {commits, Committed(commits)}
      /\ OwnRollback \/ Rollback \/ Leave => commits' = commits
  BY <1>1, <1>5, BeginMeans, CommitMeans, RollbackMeans
     DEF RunOwnBegin, RunOwnCommit, CloseDdl, Commit, OwnRollback, Rollback,
         Leave, Checked, Untouched, Kept, Cancelled, server
<1>7. Rewind \/ RecoverSavepoint => commits' = commits
  BY <1>1, RollbackToMeans
     DEF Rewind, RecoverSavepoint, BackTo, Untouched, Poisoned
<1>8. /\ Reconnect \/ Draw \/ RunWrite \/ RunRaise => commits' = commits
      /\ SubReturns \/ NoRewind \/ CountFailure \/ Rethrow => commits' = commits
      /\ ImplicitCommit \/ PublishOp \/ EndPublish \/ EndTail => commits' = commits
      /\ UNCHANGED vars => commits' = commits
  BY DEF Reconnect, Draw, RunWrite, RunRaise, SubReturns, NoRewind, CountFailure,
         Rethrow, ImplicitCommit, PublishOp, EndPublish, EndTail, vars, server
<1>9. QED
  BY <1>2, <1>3, <1>4, <1>5, <1>6, <1>7, <1>8 DEF Next, Execute, Stop

\* The server's open work and the next unit of work are in no commit yet.
LEMMA FreshWork ==
  ASSUME IInv, NEW item \in Item, item.no = items + 1
  PROVE  /\ item \notin Durable /\ item \notin Range(session.work)
         /\ Range(session.work) \cap Durable = {}
         /\ catalog \subseteq Durable /\ Due \subseteq Durable
         /\ pc = "run" /\ ~Buffered => Range(made) \subseteq Durable
<1>1. /\ items \in Nat /\ Below(Durable, items) /\ Below(Range(session.work), items)
      /\ Range(session.work) \cap Durable = {}
  BY ServerKnown DEF IInv, NumbersInv
<1>2. item \notin Durable /\ item \notin Range(session.work)
  BY <1>1 DEF Below
<1>3. QED
  BY <1>1, <1>2 DEF IInv, DurableInv, Within, Durable, Due, DueLog

\* A step that publishes nothing: what is due stays due, or the work of the open
\* transaction falls due, or nothing is and no commit is left half published.
LEMMA UnpublishedStep ==
  ASSUME IInv, [Next]_vars, catalog' = catalog,
         \/ Due' = Due /\ (Publishing => Publishing')
         \/ /\ Due' \in {{}, Tables(Range(session.work))}
            /\ Publishing => Due = {}
  PROVE  GroupsInv'
<1> SUFFICES ASSUME NEW G \in commits'
             PROVE  Settled(G)' \/ UnderWay(G)'
  BY DEF GroupsInv
<1>1. PICK item \in Item : item.no = items + 1 /\ GrowsBy(item)
  BY CommitsStep
<1>2. /\ item \notin Durable /\ item \notin Range(session.work)
      /\ Range(session.work) \cap Durable = {}
      /\ catalog \subseteq Durable /\ Due \subseteq Durable
  BY <1>1, FreshWork
<1>3. Missing(G)' = Missing(G)
  BY DEF Missing
<1>4. CASE G \in commits
  <2>1. G \subseteq Durable
    BY <1>4 DEF Durable
  <2>2. Settled(G) \/ UnderWay(G)
    BY <1>4 DEF IInv, PublishInv, GroupsInv
  <2>3. CASE Due' = Due /\ (Publishing => Publishing')
    BY <1>3, <2>2, <2>3 DEF Settled, UnderWay
  <2>4. CASE /\ Due' \in {{}, Tables(Range(session.work))}
             /\ Publishing => Due = {}
    <3>1. Due' \cap G = {}
      BY <1>2, <2>1, <2>4 DEF Tables
    <3>2. Missing(G) \in {{}, Tables(G)}
      BY <2>2, <2>4 DEF Settled, UnderWay
    <3>3. QED
      BY <1>3, <3>1, <3>2 DEF Settled
  <2>5. QED
    BY <2>3, <2>4
<1>5. CASE G \notin commits
  <2>1. G \in {Range(session.work), {item}}
    BY <1>1, <1>5 DEF GrowsBy
  <2>2. G \cap Durable = {}
    BY <1>2, <2>1
  <2>3. Missing(G) = Tables(G)
    BY <1>2, <2>2 DEF Missing, Tables
  <2>4. CASE Due' \cap G = {}
    BY <1>3, <2>3, <2>4 DEF Settled
  <2>5. CASE Due' \cap G # {}
    <3>1. Due' = Tables(Range(session.work))
      BY <1>2, <2>2, <2>5
    <3>2. G = Range(session.work)
      BY <1>2, <2>1, <2>5, <3>1 DEF Tables
    <3>3. QED
      BY <1>3, <2>3, <3>1, <3>2 DEF UnderWay, Precede
  <2>6. QED
    BY <2>4, <2>5
<1>6. QED
  BY <1>4, <1>5

LEMMA GroupsStep ==
  ASSUME IInv, [Next]_vars
  PROVE  GroupsInv'
<1>1. ServerTypes
  BY DEF IInv, TypeInv
<1>2. prog # << >> => Head(prog) = prog[1]
  BY DEF IInv, TypeInv, ClientTypes
<1>3. ASSUME catalog' = catalog, pc \notin {"publish", "implicit"},
             DueLog' => DueLog /\ log' = log
      PROVE  GroupsInv'
  BY <1>3, UnpublishedStep DEF Due, Publishing
<1>4. CASE Reconnect
  BY <1>3, <1>4 DEF Reconnect, client, DueLog, MirrorDone, Mirrored
<1>5. CASE Begin
  BY <1>3, <1>5 DEF Begin, DueLog, MirrorDone, Mirrored
<1>6. CASE Draw
  <2>1. /\ pc = "draw" /\ pc' \in {"savepoint", "run"} /\ session' = session
        /\ catalog' = catalog /\ (branch' = "mirror" => inTrx)
    BY <1>6 DEF Draw, server, IInv, TypeInv, ClientTypes, Config
  <2>2. ~DueLog'
    BY <2>1 DEF DueLog, MirrorDone, Mirrored, IInv, TransactionInv
  <2>3. QED
    BY <1>3, <1>6, <2>1, <2>2 DEF Draw
<1>7. CASE TakeSavepoint
  BY <1>3, <1>7
     DEF TakeSavepoint, DueLog, MirrorDone, Mirrored, IInv, ControlInv
<1>8. CASE RunTable
  <2> DEFINE item == [kind |-> "table", no |-> items + 1]
  <2>1. PICK r \in TableResults(item) : Takes(r)
    BY <1>8 DEF RunTable
  <2> HIDE DEF item
  <2>2. /\ pc = "run" /\ prog # << >> /\ prog[1] \in {"table", "index"}
        /\ UNCHANGED << branch, log, catalog >>
        /\ pc' \in {"run", "caught", "ownRollback"}
    BY <1>8, <1>2 DEF RunTable, Step, Continue, Throw, client
  <2>3. Range(made) = {}
    BY <2>2, RestFits, EmptyRange DEF IInv, ProgramInv, TypeInv, ClientTypes
  <2>4. ASSUME DueLog', ~DueLog
        PROVE  Due' = Tables(Range(session.work))
    <3>1. Mirrored /\ session'.up
      BY <2>2, <2>4 DEF DueLog, MirrorDone, Mirrored
    <3>2. session.up
      BY <1>1, <2>1, <3>1, TableMeans, SessionsTyped DEF Dies
    <3>3. QED
      BY <2>2, <2>3, <2>4, <3>1, <3>2 DEF DueLog, MirrorDone, IInv, MirrorInv, Due
  <2>5. QED
    BY <2>2, <2>4, UnpublishedStep DEF Publishing, Due
<1>9. CASE RunRow
  <2> DEFINE item == [kind |-> "row", no |-> items + 1]
  <2>1. PICK r \in RowResults(item) : Takes(r)
    BY <1>9 DEF RunRow, Checked
  <2> HIDE DEF item
  <2>2. /\ pc = "run" /\ prog # << >> /\ prog[1] = "row"
        /\ UNCHANGED << branch, log, catalog >>
        /\ pc' \in {"run", "caught", "ownRollback"}
    BY <1>9, <1>2 DEF RunRow, Checked, Step, Continue, Throw, client
  <2>3. CASE branch = "mirror"
    <3>1. session.tx = "none"
      <4>1. session.tx # "open"
        BY <2>2, <2>3, RestFits DEF IInv, ProgramInv, TypeInv, ClientTypes
      <4>2. QED
        BY <1>1, <2>2, <2>3, <4>1
           DEF IInv, ControlInv, SessionInv, ServerTypes, Session, Body
    <3>2. session'.up => session.up
      BY <1>1, <2>1, RowMeans, SessionsTyped DEF Dies
    <3>3. QED
      BY <1>3, <2>2, <2>3, <3>1, <3>2 DEF DueLog, MirrorDone, Mirrored
  <2>4. CASE branch # "mirror"
    BY <1>3, <2>2, <2>4 DEF DueLog, MirrorDone, Mirrored
  <2>5. QED
    BY <2>3, <2>4
<1>10. CASE RunSet
  <2>1. PICK r \in SetResults : Takes(r)
    BY <1>10 DEF RunSet, Checked
  <2>2. /\ pc = "run" /\ UNCHANGED << branch, log, catalog >>
        /\ pc' \in {"run", "caught", "ownRollback"}
    BY <1>10 DEF RunSet, Checked, Step, Continue, Throw, client
  <2>3. session' = session \/ ~session'.up
    BY <1>1, <2>1, SetMeans, SessionsTyped DEF Untouched, Dies
  <2>4. QED
    BY <1>3, <2>2, <2>3 DEF DueLog, MirrorDone, Mirrored
<1>11. CASE RunUnchecked
  <2>1. PICK r \in IF Step("part") THEN PartResults ELSE SetResults : Takes(r)
    BY <1>11 DEF RunUnchecked
  <2>2. pc = "run" /\ pc' = "run" /\ UNCHANGED << branch, log, catalog >>
    BY <1>11 DEF RunUnchecked, Step, Continue, client
  <2>3. \/ ~session'.up
        \/ session'.up = session.up /\ (session'.tx = "none" => session.tx = "none")
    BY <1>1, <2>1, SetMeans, PartMeans, SessionsTyped
       DEF Untouched, Poisoned, Dies, ServerTypes, Session
  <2>4. QED
    BY <1>3, <2>2, <2>3 DEF DueLog, MirrorDone, Mirrored
<1>12. CASE RunWrite
  <2>1. /\ pc = "run" /\ pc' = "run" /\ UNCHANGED << session, commits, branch >>
        /\ IF Buffered THEN UNCHANGED catalog
           ELSE catalog' = catalog \cup Range(made) /\ UNCHANGED log
    BY <1>12 DEF RunWrite, Step, Continue, server
  <2>2. CASE Buffered
    BY <1>3, <2>1, <2>2 DEF DueLog, MirrorDone, Mirrored, Buffered
  <2>3. CASE ~Buffered
    <3>1. Due' = Due /\ ~Publishing
      BY <2>1, <2>3 DEF Due, DueLog, MirrorDone, Mirrored, Publishing
    <3>2. ASSUME NEW d \in Due  PROVE  d \notin Range(made)
      <4>1. \A i \in DOMAIN log, k \in DOMAIN made : log[i].no < made[k].no
        BY <2>1 DEF IInv, NumbersInv
      <4>2. \A e \in Range(made) : d.no < e.no /\ e \in Item
        BY <4>1 DEF Due, Range, IInv, TypeInv, ClientTypes
      <4>3. QED
        BY <4>2 DEF Item
    <3>3. ASSUME NEW G \in commits  PROVE  Settled(G)' \/ UnderWay(G)'
      <4>1. Settled(G) \/ UnderWay(G)
        BY DEF IInv, PublishInv, GroupsInv
      <4>2. CASE Range(made) \cap G = {}
        <5>1. Missing(G)' = Missing(G)
          BY <2>1, <2>3, <4>2 DEF Missing, Tables
        <5>2. QED
          BY <3>1, <4>1, <5>1 DEF Settled, UnderWay
      <4>3. CASE Range(made) \cap G # {}
        <5>1. Tables(G) = Range(made)
          BY <2>1, <2>3, <4>3 DEF IInv, PublishInv, MadeInv
        <5>2. Missing(G)' = {}
          BY <2>1, <2>3, <5>1 DEF Missing
        <5>3. Due \cap G = {}
          BY <3>2, <4>1, <5>1 DEF Settled, UnderWay, Missing
        <5>4. QED
          BY <3>1, <5>2, <5>3 DEF Settled
      <4>4. QED
        BY <4>2, <4>3
    <3>4. QED
      BY <2>1, <3>3 DEF GroupsInv
  <2>4. QED
    BY <2>2, <2>3
<1>13. CASE RunRaise
  BY <1>3, <1>13
     DEF RunRaise, Step, Throw, server, client, DueLog, MirrorDone, Mirrored
<1>14. CASE RunOwnBegin
  <2>1. /\ pc = "run" /\ pc' \in {"run", "caught", "ownRollback"}
        /\ branch = "tail" /\ UNCHANGED << branch, catalog >>
    BY <1>14, BeginAlone
       DEF RunOwnBegin, Step, client, Checked, Continue, Throw
  <2>2. QED
    BY <1>3, <2>1 DEF DueLog, MirrorDone, Mirrored
<1>15. CASE RunOwnCommit
  <2>1. /\ pc = "run" /\ pc' \in {"run", "caught"} /\ UNCHANGED << branch, catalog >>
        /\ prog # << >> /\ prog[1] = "commit"
    BY <1>15, <1>2 DEF RunOwnCommit, Step, client, Continue
  <2>2. branch = "tail"
    BY <2>1 DEF IInv, TypeInv, ClientTypes, ProgramInv, Fits
  <2>3. QED
    BY <1>3, <2>1, <2>2 DEF DueLog, MirrorDone, Mirrored
<1>16. CASE OwnRollback
  BY <1>3, <1>16
     DEF OwnRollback, client, IInv, ControlInv, DueLog, MirrorDone, Mirrored
<1>17. CASE SubReturns
  BY <1>3, <1>17 DEF SubReturns, server, client, DueLog, MirrorDone, Mirrored
<1>18. CASE Rewind
  BY <1>3, <1>18 DEF Rewind, IInv, ControlInv, DueLog, MirrorDone, Mirrored
<1>19. CASE NoRewind
  BY <1>3, <1>19 DEF NoRewind, DueLog, MirrorDone, Mirrored
<1>20. CASE RecoverSavepoint
  BY <1>3, <1>20 DEF RecoverSavepoint, DueLog, MirrorDone, Mirrored
<1>21. CASE CountFailure
  BY <1>3, <1>21 DEF CountFailure, server, client, DueLog, MirrorDone, Mirrored
<1>22. CASE Rethrow
  BY <1>3, <1>22 DEF Rethrow, DueLog, MirrorDone, Mirrored
<1>23. CASE CloseDdl
  <2>1. PICK r \in CommitResults :
           Takes(r) /\ IF r.answer = "ok" THEN pc' = "implicit" ELSE pc' = "leave"
    BY <1>23 DEF CloseDdl
  <2>2. pc = "closeDdl" /\ Mirrored /\ UNCHANGED << catalog, log >>
    BY <1>23 DEF CloseDdl, client, IInv, ControlInv, Mirrored
  <2>3. ASSUME DueLog', ~DueLog
        PROVE  Due' = Tables(Range(session.work))
    <3>1. session.up
      BY <1>1, <2>1, <2>3, CommitMeans DEF DueLog, MirrorDone, Mirrored
    <3>2. QED
      BY <2>2, <2>3, <3>1 DEF DueLog, MirrorDone, IInv, MirrorInv, Due
  <2>4. QED
    BY <2>2, <2>3, UnpublishedStep DEF Publishing, Due
<1>24. CASE ImplicitCommit
  <2>1. catalog' = catalog /\ ~DueLog'
    BY <1>24 DEF ImplicitCommit, DueLog, MirrorDone, Mirrored
  <2>2. Publishing => Due = {}
    BY <1>24, EmptyRange DEF ImplicitCommit, Publishing, Due
  <2>3. QED
    BY <2>1, <2>2, UnpublishedStep DEF Due
<1>25. CASE Commit
  <2>1. PICK r \in CommitResults :
           Takes(r) /\ IF r.answer = "ok" THEN pc' = "publish" ELSE pc' = "leave"
    BY <1>25 DEF Commit
  <2>2. pc = "draw" /\ inTrx /\ UNCHANGED << catalog, log >>
    BY <1>25 DEF Commit, Finished
  <2>3. CASE r.answer = "ok"
    <3>1. session.tx = "open"
      BY <1>1, <2>1, <2>2, <2>3, CommitMeans DEF IInv, TransactionInv
    <3>2. Due' = Tables(Range(session.work))
      BY <2>1, <2>2, <2>3, <3>1 DEF IInv, MirrorInv, Due, DueLog
    <3>3. QED
      BY <2>2, <3>2, UnpublishedStep DEF Publishing
  <2>4. CASE r.answer # "ok"
    BY <1>3, <2>1, <2>2, <2>4 DEF DueLog, MirrorDone, Mirrored
  <2>5. QED
    BY <2>3, <2>4
<1>26. CASE PublishOp
  <2>1. /\ catalog' = catalog \cup {Head(log)} /\ commits' = commits
        /\ Publishing' /\ Head(log) \in Item
    BY <1>26, OpFrame, OpPublished DEF Publishing, ImplicitlyCommitted
  <2>2. /\ Due = {Head(log)} \cup Due'
        /\ \A e \in Due' : e \in Item /\ Head(log).no < e.no
    BY <1>26, OpFrame, OpAlone, OpPublished DEF Due, DueLog, MirrorDone, Mirrored
  <2>3. Head(log) \notin Due'
    BY <2>1, <2>2 DEF Item
  <2>4. ASSUME NEW G \in commits  PROVE  Settled(G)' \/ UnderWay(G)'
    <3>1. CASE Settled(G)
      <4>1. Missing(G)' = Missing(G) /\ Due' \cap G = {}
        BY <2>1, <2>2, <3>1 DEF Settled, Missing, Tables
      <4>2. QED
        BY <3>1, <4>1 DEF Settled
    <3>2. CASE UnderWay(G)
      <4>1. Missing(G)' = Due'
        BY <2>1, <2>2, <2>3, <3>2 DEF UnderWay, Missing
      <4>2. Tables(G) \ Due' \subseteq (Tables(G) \ Due) \cup {Head(log)}
        BY <2>2
      <4>3. Precede(Tables(G) \ Due', Due')
        BY <2>2, <3>2, <4>2 DEF UnderWay, Precede
      <4>4. QED
        BY <2>1, <4>1, <4>3 DEF UnderWay, Precede
    <3>3. QED
      BY <3>1, <3>2 DEF IInv, PublishInv, GroupsInv
  <2>5. QED
    BY <2>1, <2>4 DEF GroupsInv
<1>27. CASE EndPublish
  <2>1. catalog' = catalog /\ ~DueLog' /\ Due = {}
    BY <1>27, EmptyRange DEF EndPublish, DueLog, MirrorDone, Mirrored, Due
  <2>2. QED
    BY <2>1, UnpublishedStep DEF Due
<1>28. CASE Rollback
  BY <1>3, <1>28 DEF Rollback, Finished, DueLog, MirrorDone, Mirrored
<1>29. CASE EndTail
  BY <1>3, <1>29 DEF EndTail, Finished, DueLog, MirrorDone, Mirrored
<1>30. CASE Leave
  BY <1>3, <1>30 DEF Leave, DueLog, MirrorDone, Mirrored
<1>31. CASE UNCHANGED vars
  <2>1. Due' = Due /\ Publishing' = Publishing /\ catalog' = catalog
    BY <1>31 DEF vars, client, subvars, server, Due, DueLog, MirrorDone, Mirrored,
                 Publishing, ImplicitlyCommitted
  <2>2. QED
    BY <2>1, UnpublishedStep
<1>32. QED
  BY <1>4, <1>5, <1>6, <1>7, <1>8, <1>9, <1>10, <1>11, <1>12, <1>13, <1>14,
     <1>15, <1>16, <1>17, <1>18, <1>19, <1>20, <1>21, <1>22, <1>23, <1>24,
     <1>25, <1>26, <1>27, <1>28, <1>29, <1>30, <1>31 DEF Next, Execute, Stop

LEMMA MadeStep ==
  ASSUME IInv, [Next]_vars
  PROVE  MadeInv'
<1>1. PICK item \in Item :
        /\ item.no = items + 1 /\ GrowsBy(item)
        /\ RunTable => Range(made') \subseteq Tables({item})
  BY CommitsStep
<1>2. /\ item \notin Durable /\ item \notin Range(session.work)
      /\ Range(session.work) \cap Durable = {}
      /\ pc = "run" /\ ~Buffered => Range(made) \subseteq Durable
  BY <1>1, FreshWork
<1>3. CASE RunTable
  <2> SUFFICES ASSUME NEW G \in commits', Range(made') \cap G # {}
               PROVE  Tables(G) = Range(made')
    BY DEF MadeInv
  <2>1. item \in G /\ Range(made') = Tables({item})
    BY <1>1, <1>3 DEF Tables
  <2>2. G = {item}
    BY <1>1, <1>2, <2>1 DEF GrowsBy, Durable
  <2>3. QED
    BY <2>1, <2>2
<1>4. CASE pc' # "run" \/ made' = << >>
  BY <1>4, EmptyRange DEF MadeInv
<1>5. CASE pc = "run" /\ made' = made /\ branch' = branch
  <2> SUFFICES ASSUME ~Buffered, NEW G \in commits', Range(made) \cap G # {}
               PROVE  Tables(G) = Range(made)
    BY <1>5 DEF MadeInv, Buffered
  <2>1. G \in commits
    BY <1>1, <1>2, <1>5 DEF GrowsBy
  <2>2. QED
    BY <1>5, <2>1 DEF IInv, PublishInv, MadeInv
<1>6. TakeSavepoint => made' = << >>
  BY DEF TakeSavepoint, subvars, IInv, ProgramInv
<1>7. /\ Reconnect \/ Begin \/ SubReturns \/ Rewind \/ NoRewind \/ OwnRollback =>
           pc' # "run"
      /\ RecoverSavepoint \/ CountFailure \/ Rethrow \/ CloseDdl => pc' # "run"
      /\ ImplicitCommit \/ PublishOp \/ Commit \/ EndPublish => pc' # "run"
      /\ Rollback \/ EndTail \/ Leave => pc' # "run"
      /\ Draw \/ RunWrite => made' = << >>
  BY DEF Reconnect, Begin, SubReturns, Rewind, NoRewind, OwnRollback,
         RecoverSavepoint, CountFailure, Rethrow, CloseDdl, ImplicitCommit,
         PublishOp, Publishing, Commit, EndPublish, Rollback, EndTail, Leave,
         Draw, RunWrite
<1>8. RunRow \/ RunSet \/ RunUnchecked \/ RunRaise \/ RunOwnBegin \/ RunOwnCommit =>
        pc = "run" /\ made' = made /\ branch' = branch
  BY DEF RunRow, RunSet, RunUnchecked, RunRaise, RunOwnBegin, RunOwnCommit, Step,
         client
<1>9. CASE UNCHANGED vars
  <2>1. pc' = "run" => pc = "run" /\ made' = made /\ branch' = branch
    BY <1>9 DEF vars, client, subvars
  <2>2. QED
    BY <1>4, <1>5, <2>1
<1>10. QED
  BY <1>3, <1>4, <1>5, <1>6, <1>7, <1>8, <1>9 DEF Next, Execute, Stop

-----------------------------------------------------------------------------
(* The invariant holds always, and what follows from it. *)

LEMMA InitInv ==
  ASSUME Init
  PROVE  IInv
<1>1. /\ Range(<< >>) = {} /\ Tables({}) = {} /\ UNION {} = {}
      /\ << >> \in Seq(Item) /\ << >> \in Seq(Savepoint)
      /\ << >> \in Seq(Statements) /\ << >> \in Seq(Ends) /\ Len(<< >>) = 0
  BY EmptyRange DEF Tables
<1>2. TypeInv
  <2>1. ServerTypes
    BY <1>1, SessionsTyped DEF Init, ServerTypes
  <2>2. inTrx \in BOOLEAN /\ armed \in BOOLEAN
    BY Zenon DEF Init
  <2>3. ownGuard \in BOOLEAN /\ sent \in BOOLEAN
    BY Zenon DEF Init
  <2>4. ClientTypes
    BY <1>1, <2>2, <2>3 DEF Init, ClientTypes, DefaultEnd, Ends, Body
  <2>5. QED
    BY <2>1, <2>4 DEF TypeInv
<1>3. SessionInv /\ ControlInv /\ ProgramInv /\ TransactionInv
  BY SessionsTyped
     DEF Init, SessionInv, ControlInv, ProgramInv, TransactionInv, Body, Buffered
<1>4. NumbersInv /\ MirrorInv /\ MineInv
  BY <1>1, SessionsTyped
     DEF Init, NumbersInv, MirrorInv, MineInv, Below, InOrder, Durable,
         DefaultEnd, MirrorDone, Mirrored
<1>5. DurableInv /\ OutcomeInv
  <2>1. catalog = {} /\ Durable = {} /\ Owed = {} /\ pc = "loop"
    BY DEF Init, Durable, Owed, MirrorDone, Mirrored
  <2>2. DurableInv
    BY <1>1, <2>1 DEF DurableInv, MirrorDone, Mirrored
  <2>3. OutcomeInv
    BY <1>1 DEF Init, OutcomeInv
  <2>4. QED
    BY <2>2, <2>3
<1>6. PublishInv
  BY DEF Init, PublishInv, GroupsInv, MadeInv
<1>7. QED
  BY <1>2, <1>3, <1>4, <1>5, <1>6 DEF IInv

LEMMA InvStep ==
  ASSUME IInv, [Next]_vars
  PROVE  IInv'
<1>1. SessionInv'
  BY ServerStep DEF ServerAfter
<1>2. QED
  BY <1>1, TypeStep, ControlStep, ProgramStep, TransactionStep, NumbersStep,
     MirrorStep, MineStep, DurableStep, GroupsStep, MadeStep, OutcomeStep
     DEF IInv, PublishInv

LEMMA AlwaysInv == Spec => []IInv
BY InitInv, InvStep, PTL DEF Spec

\* The shared catalog shows only what the server has committed, and between two
\* transactions, while no connection was lost, all of it: for both server
\* families, both error modes and any number of transactions and sub-actions.
THEOREM CatalogStaysDurable == Spec => []CatalogIsDurable
<1>1. IInv => CatalogIsDurable
  <2> SUFFICES ASSUME IInv
               PROVE  CatalogIsDurable
    OBVIOUS
  <2>1. pc = "loop" => Owed = {}
    BY DEF Owed, MirrorDone, Mirrored
  <2>2. QED
    BY <2>1 DEF IInv, DurableInv, CatalogIsDurable
<1>2. QED
  BY <1>1, AlwaysInv, PTL

LEMMA OrderOfPrefix ==
  ASSUME NEW s \in Seq(Item), InOrder(s), NEW n \in Nat, n <= Len(s)
  PROVE  InOrder(SubSeq(s, 1, n))
BY PrefixTyped DEF InOrder

\* Between two sub-actions the buffered deltas are the tables of the server's
\* open transaction, savepoint by savepoint, whatever failed or was rewound
\* before; between two actions the server is in no transaction.
THEOREM BufferStaysMirror == Spec => []BufferMirrorsServer
<1>1. IInv => BufferMirrorsServer
  <2> SUFFICES ASSUME IInv
               PROVE  BufferMirrorsServer
    OBVIOUS
  <2>1. pc = "loop" => session.tx = "none"
    BY DEF IInv, TransactionInv
  <2>2. ownGuard => branch = "tail"
    BY DEF IInv, ControlInv
  <2>3. ASSUME InTransaction
        PROVE  /\ session.tx = "open"
               /\ Mirrors(log, session.work)
               /\ Len(savepoints) = Len(session.sps)
               /\ \A i \in DOMAIN savepoints :
                    /\ savepoints[i].name = session.sps[i].name
                    /\ savepoints[i].mark <= Len(log)
                    /\ Mirrors(SubSeq(log, 1, savepoints[i].mark),
                               SubSeq(session.work, 1, session.sps[i].mark))
    <3>1. pc = "draw" /\ session.tx = "open"
      BY <2>3 DEF InTransaction, IInv, TransactionInv
    <3>2. Cuts(log, savepoints, session.work, session.sps, spCounter)
      BY <3>1 DEF IInv, MirrorInv
    <3>3. InOrder(log) /\ Range(log) = Tables(Range(session.work))
      BY <3>1 DEF IInv, MirrorInv, NumbersInv
    <3>4. log \in Seq(Item) /\ savepoints \in Seq(Savepoint)
      BY DEF IInv, TypeInv, ClientTypes
    <3>5. ASSUME NEW i \in DOMAIN savepoints
          PROVE  /\ savepoints[i].name = session.sps[i].name
                 /\ savepoints[i].mark <= Len(log)
                 /\ Mirrors(SubSeq(log, 1, savepoints[i].mark),
                            SubSeq(session.work, 1, session.sps[i].mark))
      <4>1. i \in 1 .. Len(savepoints)
        BY <3>4
      <4>2. savepoints[i].mark \in Nat /\ savepoints[i].mark <= Len(log)
        BY <3>2, <3>4, <4>1, SavepointTyped DEF Cuts
      <4>3. InOrder(SubSeq(log, 1, savepoints[i].mark))
        BY <3>3, <3>4, <4>2, OrderOfPrefix
      <4>4. QED
        BY <3>2, <4>1, <4>2, <4>3 DEF Cuts, Cut, Mirrors
    <3>6. QED
      BY <3>1, <3>2, <3>3, <3>5 DEF Cuts, Mirrors
  <2>4. QED
    BY <2>1, <2>2, <2>3 DEF BufferMirrorsServer
<1>2. QED
  BY <1>1, AlwaysInv, PTL

\* One outcome per transaction that began, and it tells the truth about the
\* transaction's work, wherever an exception left execute().
THEOREM OutcomesStayTruthful == Spec => []OutcomesTruthful
<1>1. IInv => OutcomesTruthful
  <2> SUFFICES ASSUME IInv
               PROVE  OutcomesTruthful
    OBVIOUS
  <2>1. pc = "loop" => ~MirrorDone
    BY DEF MirrorDone, Mirrored
  <2>2. QED
    BY <2>1 DEF IInv, OutcomeInv, MineInv, OutcomesTruthful
<1>2. QED
  BY <1>1, AlwaysInv, PTL

\* A reader of the catalog finds a commit in part only while publishAll() runs,
\* and then its first tables, with the others in the op-log: whatever failed,
\* was rewound, committed implicitly or lost its answer before.
THEOREM PartialCommitsComplete == Spec => []PartialCommitsUnderWay
<1>1. IInv => PartialCommitsUnderWay
  <2> SUFFICES ASSUME IInv, NEW G \in commits, Missing(G) \notin {{}, Tables(G)}
               PROVE  /\ Publishing /\ Missing(G) = Range(log)
                      /\ \A shown \in Tables(G) \ Missing(G), due \in Missing(G) :
                           shown.no < due.no
    BY DEF PartialCommitsUnderWay
  <2>1. UnderWay(G) /\ Missing(G) # {}
    BY DEF IInv, PublishInv, GroupsInv, Settled
  <2>2. QED
    BY <2>1 DEF UnderWay, Due, Precede
<1>2. QED
  BY <1>1, AlwaysInv, PTL
=============================================================================

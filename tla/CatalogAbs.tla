----------------------------- MODULE CatalogAbs -----------------------------
(***************************************************************************)
(* What metadata::Catalog promises its users: a map from never-reused ids  *)
(* to records, and a name index that answers with the LAST object published*)
(* under a name for as long as that object is alive and still has it.  No  *)
(* slots, no sampling vector, no swap-remove.                              *)
(***************************************************************************)
EXTENDS Naturals, Functions

CONSTANTS Id,        \* every id the registry may hand out
          Rec        \* every record, each with a field "name"

VARIABLES recs,      \* id -> record
          index      \* name -> id

vars == << recs, index >>

Set(f, k, v) == [x \in DOMAIN f \cup {k} |-> IF x = k THEN v ELSE f[x]]

\* The entries of idx that still tell the truth about the records r.
Truthful(idx, r) ==
  Restrict(idx, {n \in DOMAIN idx : idx[n] \in DOMAIN r /\ r[idx[n]].name = n})

Init == /\ recs  = [x \in {} |-> x]
        /\ index = [x \in {} |-> x]

\* Publish rec as id: a new object, or a new version of one that is there.
\* Taking a name (at birth or by a rename) makes id its owner.
Publish(id, rec) ==
  /\ recs' = Set(recs, id, rec)
  /\ index' = Truthful(
       IF id \in DOMAIN recs /\ recs[id].name = rec.name
       THEN index ELSE Set(index, rec.name, id), recs')

Withdraw(S) ==
  /\ recs'  = Restrict(recs, DOMAIN recs \ S)
  /\ index' = Truthful(index, recs')

Next == \/ \E id \in Id, rec \in Rec : Publish(id, rec)
        \/ \E id \in DOMAIN recs : Withdraw({id})
        \/ Withdraw(DOMAIN recs)

Spec == Init /\ [][Next]_vars
=============================================================================

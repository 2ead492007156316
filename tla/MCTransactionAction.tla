------------------------ MODULE MCTransactionAction -------------------------
(* TransactionAction on small instances, one per server family. *)
EXTENDS TransactionAction

Setup(pg, txns, subs) ==
  [transactionalDDL |-> pg, maxTxns |-> txns, maxSubs |-> subs]

\* Two short transactions and one long one on PostgreSQL, two on MySQL.
AllSetups == {Setup(TRUE, 2, 2), Setup(TRUE, 1, 4), Setup(FALSE, 2, 3)}

Postgres == {Setup(TRUE, 1, 2)}
=============================================================================

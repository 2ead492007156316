---------------------------- MODULE MCTxnBuffer -----------------------------
(* TxnBuffer on a small instance.  Names and parts are model values. *)
EXTENDS TxnBuffer
=============================================================================

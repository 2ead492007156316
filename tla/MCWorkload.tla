------------------------------ MODULE MCWorkload ------------------------------
(* Two workers per cycle, up to two cycles. *)
EXTENDS Workload
=============================================================================

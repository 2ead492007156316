--------------------------- MODULE MCRandomWorker ---------------------------
(* The registries for TLC. *)
EXTENDS RandomWorker

OneAction == <<Factory("a", 1)>>
Defaults  == <<Factory("b", 0), Factory("a", 2)>>
=============================================================================

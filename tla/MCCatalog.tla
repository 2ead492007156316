----------------------------- MODULE MCCatalog ------------------------------
(* Catalog on a small instance: Actor and Name are sets of model values. *)
EXTENDS Catalog, TLC

\* Neither actors nor names are told apart by any definition.
Symmetry == Permutations(Actor) \cup Permutations(Name)
=============================================================================

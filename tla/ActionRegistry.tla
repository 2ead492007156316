--------------------------- MODULE ActionRegistry ---------------------------
(***************************************************************************)
(* The operations of action::ActionRegistry                                *)
(* (core/src/action/action_registry.cpp) on its state: the sequence of     *)
(* factories, each a name and a weight.  Every operation holds the         *)
(* registry's mutex, so each is one atomic step of its caller.             *)
(***************************************************************************)
EXTENDS Naturals, Sequences, FiniteSets, FiniteSetsExt

Factory(name, weight) == [name |-> name, weight |-> weight]

\* Mutant of Has: names are not compared.
HasNone(reg, name) == FALSE

Has(reg, name) == \E i \in DOMAIN reg : reg[i].name = name

\* insert() throws when the name is taken.
Inserted(reg, factory) == Append(reg, factory)

\* remove() throws when the name is missing.
Removed(reg, name) ==
  LET i == CHOOSE i \in DOMAIN reg : reg[i].name = name
  IN SubSeq(reg, 1, i - 1) \o SubSeq(reg, i + 1, Len(reg))

\* getReference() hands out the factory, and the caller assigns its weight.
Reweighted(reg, name, weight) ==
  [i \in DOMAIN reg |->
     IF reg[i].name = name THEN Factory(name, weight) ELSE reg[i]]

\* The weights of the first n factories.
Accumulated(reg, n) ==
  LET accum[i \in 0 .. Len(reg)] ==
        IF i = 0 THEN 0 ELSE accum[i - 1] + reg[i].weight
  IN accum[n]

TotalWeight(reg) == Accumulated(reg, Len(reg))

\* Mutant of Reaching: the bound is taken as exclusive.
ReachingBeyond(reg, offset) ==
  {i \in DOMAIN reg : Accumulated(reg, i) > offset}

Reaching(reg, offset) == {i \in DOMAIN reg : Accumulated(reg, i) >= offset}

InRange(reg, offset) == Reaching(reg, offset) # {}

\* lookupByWeightOffset(); it throws when the offset is not InRange.
Lookup(reg, offset) == reg[Min(Reaching(reg, offset))]
=============================================================================

------------------------------ MODULE Registry ------------------------------
(***************************************************************************)
(* metadata::Registry (core/include/metadata/catalog.hpp): the catalog     *)
(* and the counter its ids come from, for the modules that work with it.   *)
(***************************************************************************)
EXTENDS CatalogOps

VARIABLES catalog,   \* the Catalog<Table>, see CatalogOps
          nextId     \* Registry::nextId_

\* nextId(): the counter after an id was given out.
NextId == nextId + 1
=============================================================================

---------------------------- MODULE MCServerNode ----------------------------
EXTENDS ServerNode

AllConfigs == Config
PgNode == {c \in Config : c = [family |-> "postgres", driver |-> "node", wrapper |-> "none"]}
=============================================================================

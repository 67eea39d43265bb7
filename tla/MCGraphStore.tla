---------------------------- MODULE MCGraphStore ----------------------------
(* Small instances of GraphStore.                                          *)
EXTENDS GraphStore

CONSTANT card
=============================================================================

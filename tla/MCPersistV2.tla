---------------------------- MODULE MCPersistV2 ----------------------------
(* Three persists, of a map of two keys. *)
EXTENDS PersistV2

CONSTANTS t1, t2, t3, k1, k2
=============================================================================

---------------------------- MODULE MCGraphCache ----------------------------
(***************************************************************************)
(* Instance of GraphCache: OneWorker puts every handler in one process,    *)
(* where they share the locks.                                             *)
(***************************************************************************)
EXTENDS GraphCache

CONSTANTS w1, t1, t2

OneWorker == [t \in Task |-> w1]
=============================================================================

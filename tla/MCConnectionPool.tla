-------------------------- MODULE MCConnectionPool --------------------------
(***************************************************************************)
(* Instances of ConnectionPool: OneEach gives every request one task.      *)
(***************************************************************************)
EXTENDS ConnectionPool

OneEach == [t \in Task |-> t]
=============================================================================

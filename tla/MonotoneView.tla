---------------------------- MODULE MonotoneView ----------------------------
(***************************************************************************)
(* What a process-local cache of a database promises its readers: each     *)
(* worker serves a view of the tables that only moves forward, never ahead *)
(* of what was committed, until the worker is replaced by a new process.   *)
(* It promises neither that a view is current nor that it is one moment of *)
(* the database.                                                           *)
(***************************************************************************)
EXTENDS Integers

CONSTANTS Worker, TableCount

Table     == 1..TableCount
NoVersion == -1
Empty     == [k \in Table |-> NoVersion]

VARIABLES db, view

Init ==
  /\ db = [k \in Table |-> 0]
  /\ view = [w \in Worker |-> Empty]

Commit(k) ==
  /\ db' = [db EXCEPT ![k] = @ + 1]
  /\ UNCHANGED view

Advance(w) ==
  /\ \A k \in Table : view[w][k] <= view'[w][k] /\ view'[w][k] <= db[k]
  /\ view' = [view EXCEPT ![w] = view'[w]]
  /\ UNCHANGED db

Forget(w) ==
  /\ view' = [view EXCEPT ![w] = Empty]
  /\ UNCHANGED db

Next ==
  \/ \E k \in Table : Commit(k)
  \/ \E w \in Worker : Advance(w) \/ Forget(w)

Spec == Init /\ [][Next]_<<db, view>>
=============================================================================

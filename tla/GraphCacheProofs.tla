-------------------------- MODULE GraphCacheProofs --------------------------
(* Theorems about GraphCache, for every number of workers, handlers and    *)
(* tables.                                                                 *)
EXTENDS GraphCache, TLAPS

USE NoTaskAssumption, TableAssumption, MaxWritesAssumption
    DEF dbVars, cacheVars, buildVars, toolVars

(* Every handler runs in a worker.                                         *)
LEMMA HomeType == \A t \in Task : Home[t] \in Worker
  BY HomeAssumption

(* Tables are numbered from 1.                                             *)
LEMMA TableStart == \A k \in Table : k \in Int /\ ~(k < 1)
  BY DEF Table

(* The tools are one of the tables.                                        *)
LEMMA ToolsType == Tools \in Table
  BY DEF Table

(* Versions are ordered, and NoVersion is the least of them.               *)
LEMMA VersionOrder == \A v \in Version : v \in Int /\ v >= NoVersion
  BY DEF Version, NoVersion

(* The empty snapshot is older than anything.                              *)
LEMMA EmptyIsLeast ==
  ASSUME NEW f \in [Table -> Version] PROVE AtLeast(f, Empty)
  BY DEF AtLeast, Empty, Version, NoVersion

-----------------------------------------------------------------------------
(* One lemma per part of the invariant, one step per action.               *)

(* Every step keeps the types.                                             *)
LEMMA TypeStep == TypeOK /\ [Next]_vars => TypeOK'
<1> SUFFICES ASSUME TypeOK, [Next]_vars PROVE TypeOK'
  OBVIOUS
<1> USE HomeType DEF TypeOK, Table, Version, NoVersion, Empty, Pcs, Modes
<1>1. ASSUME NEW t \in Task, NEW k \in Table,
            NEW next \in {"writing", "enter"},
            AdminWrite(t, k, next)
     PROVE  TypeOK'
  <2>1. db' \in [Table -> Nat]
    BY <1>1 DEF AdminWrite
  <2>2. /\ goal' \in [Task -> [Table -> Version]]
        /\ local' \in [Worker -> [Table -> Version]]
    BY <1>1, <2>1 DEF AdminWrite
  <2>3. QED
    BY <1>1, <2>1, <2>2 DEF AdminWrite, Goto, For
<1>2. ASSUME NEW t \in Task, AdminAbort(t) PROVE TypeOK'
  BY <1>2 DEF AdminAbort, Goto
<1>3. ASSUME NEW t \in Task, LoadCall(t) PROVE TypeOK'
  BY <1>3 DEF LoadCall, Goto, For
<1>4. ASSUME NEW t \in Task, LoadSkip(t) PROVE TypeOK'
  BY <1>4 DEF LoadSkip, Goto
<1>5. ASSUME NEW t \in Task, LoadBegin(t) PROVE TypeOK'
  BY <1>5 DEF LoadBegin, StartBuild, Goto
<1>6. ASSUME NEW t \in Task, RefreshBegin(t) PROVE TypeOK'
  BY <1>6 DEF RefreshBegin, StartBuild, DropTools, Goto
<1>7. ASSUME NEW t \in Task, RefreshBlocked(t) PROVE TypeOK'
  BY <1>7 DEF RefreshBlocked, StartBuild, Goto
<1>8. ASSUME NEW t \in Task, InvalidateTools(t) PROVE TypeOK'
  BY <1>8 DEF InvalidateTools, DropTools, Goto
<1>9. ASSUME NEW t \in Task, FetchTable(t) PROVE TypeOK'
  <2>1. cursor[Home[t]] \in 1..TableCount /\ db[cursor[Home[t]]] \in Nat
    BY <1>9 DEF FetchTable
  <2>2. /\ raw' \in [Worker -> [Table -> Version]]
        /\ cursor' \in [Worker -> 1..(TableCount + 1)]
    BY <1>9, <2>1, TableAssumption DEF FetchTable, TakeRow
  <2>3. QED
    BY <1>9, <2>2 DEF FetchTable, TakeRow
<1>10. ASSUME NEW t \in Task, Publish(t) PROVE TypeOK'
  BY <1>10 DEF Publish, Goto
<1>11. ASSUME NEW t \in Task, Respond(t) PROVE TypeOK'
  BY <1>11 DEF Respond, Goto
<1>12. ASSUME NEW t \in Task, BuildFails(t) PROVE TypeOK'
  BY <1>12 DEF BuildFails, Goto
<1>13. ASSUME NEW t \in Task, ToolsCached(t) PROVE TypeOK'
  BY <1>13 DEF ToolsCached, AtTools, TakeRow
<1>14. ASSUME NEW t \in Task, NEW m \in Modes, ToolsQueue(t, m) PROVE TypeOK'
  BY <1>14 DEF ToolsQueue, Goto, For
<1>15. ASSUME NEW t \in Task, NEW m \in Modes, ToolsLock(t, m) PROVE TypeOK'
  BY <1>15 DEF ToolsLock, Goto, For
<1>16. ASSUME NEW t \in Task, ToolsFilled(t) PROVE TypeOK'
  BY <1>16 DEF ToolsFilled, TakeRow, Goto
<1>17. ASSUME NEW t \in Task, ListFilled(t) PROVE TypeOK'
  BY <1>17 DEF ListFilled, Goto
<1>18. ASSUME NEW t \in Task, ToolsAnswer(t) PROVE TypeOK'
  BY <1>18 DEF ToolsAnswer, Goto
<1>19. ASSUME NEW t \in Task, ToolsStore(t) PROVE TypeOK'
  BY <1>19 DEF ToolsStore, StoreTools, TakeRow, Goto
<1>20. ASSUME NEW t \in Task, ListStore(t) PROVE TypeOK'
  BY <1>20 DEF ListStore, StoreTools, Goto
<1>21. ASSUME NEW t \in Task, ToolsFail(t) PROVE TypeOK'
  BY <1>21 DEF ToolsFail, Goto
<1>22. ASSUME NEW t \in Task, ListFails(t) PROVE TypeOK'
  BY <1>22 DEF ListFails, Goto
<1>23. ASSUME NEW w \in Worker, ToolsExpire(w) PROVE TypeOK'
  BY <1>23 DEF ToolsExpire
<1>24. ASSUME NEW w \in Worker, WorkerRestart(w) PROVE TypeOK'
  BY <1>24 DEF WorkerRestart
<1>25. CASE UNCHANGED vars
  BY <1>25 DEF vars
<1> HIDE DEF TypeOK, Table, Modes
<1>26. \A t \in Task : mode[t] \in Modes
  BY DEF TypeOK
<1>27. "list" \in Modes
  BY DEF Modes
<1>28. QED
  BY <1>1, <1>2, <1>3, <1>4, <1>5, <1>6, <1>7, <1>8, <1>9, <1>10, <1>11, <1>12,
     <1>13, <1>14, <1>15, <1>16, <1>17, <1>18, <1>19, <1>20, <1>21, <1>22,
     <1>23, <1>24, <1>25, <1>26, <1>27
     DEF Next, TaskNext, Write, LockTools, ListTools, Enter, Proceed,
         TakeToolLock

(* Every step keeps LockInv: locks are taken and released by one handler   *)
(* at a time.                                                              *)
LEMMA LockStep == TypeOK /\ LockInv /\ [Next]_vars => LockInv'
<1> SUFFICES ASSUME TypeOK, LockInv, [Next]_vars PROVE LockInv'
  OBVIOUS
<1> USE HomeType
<1>1. ASSUME NEW t \in Task, NEW k \in Table,
            NEW next \in {"writing", "enter"},
            AdminWrite(t, k, next)
     PROVE  LockInv'
  BY <1>1 DEF AdminWrite, Goto, For, TypeOK, LockInv, Building, ToolHit
<1>2. ASSUME NEW t \in Task, AdminAbort(t) PROVE LockInv'
  BY <1>2 DEF AdminAbort, Goto, TypeOK, LockInv, Building, ToolHit
<1>3. ASSUME NEW t \in Task, LoadCall(t) PROVE LockInv'
  BY <1>3 DEF LoadCall, Goto, For, TypeOK, LockInv, Building, ToolHit
<1>4. ASSUME NEW t \in Task, LoadSkip(t) PROVE LockInv'
  BY <1>4 DEF LoadSkip, Goto, TypeOK, LockInv, Building, ToolHit
<1>5. ASSUME NEW t \in Task, LoadBegin(t) PROVE LockInv'
  BY <1>5 DEF LoadBegin, StartBuild, Goto, TypeOK, LockInv, Building, ToolHit
<1>6. ASSUME NEW t \in Task, RefreshBegin(t) PROVE LockInv'
  BY <1>6
     DEF RefreshBegin, StartBuild, DropTools, Goto, TypeOK, LockInv, Building,
         ToolHit
<1>7. ASSUME NEW t \in Task, RefreshBlocked(t) PROVE LockInv'
  BY <1>7
     DEF RefreshBlocked, StartBuild, Goto, TypeOK, LockInv, Building, ToolHit
<1>8. ASSUME NEW t \in Task, InvalidateTools(t) PROVE LockInv'
  BY <1>8
     DEF InvalidateTools, DropTools, Goto, TypeOK, LockInv, Building, ToolHit
<1>9. ASSUME NEW t \in Task, FetchTable(t) PROVE LockInv'
  BY <1>9 DEF FetchTable, TakeRow, TypeOK, LockInv, Building, ToolHit
<1>10. ASSUME NEW t \in Task, Publish(t) PROVE LockInv'
  BY <1>10 DEF Publish, Goto, TypeOK, LockInv, Building, ToolHit
<1>11. ASSUME NEW t \in Task, Respond(t) PROVE LockInv'
  BY <1>11 DEF Respond, Goto, TypeOK, LockInv, Building, ToolHit
<1>12. ASSUME NEW t \in Task, BuildFails(t) PROVE LockInv'
  BY <1>12 DEF BuildFails, Goto, TypeOK, LockInv, Building, ToolHit
<1>13. ASSUME NEW t \in Task, ToolsCached(t) PROVE LockInv'
  BY <1>13
     DEF ToolsCached, AtTools, TakeRow, TypeOK, LockInv, Building, ToolHit
<1>14. ASSUME NEW t \in Task, ToolsFilled(t) PROVE LockInv'
  BY <1>14 DEF ToolsFilled, TakeRow, Goto, TypeOK, LockInv, Building, ToolHit
<1>15. ASSUME NEW t \in Task, ListFilled(t) PROVE LockInv'
  BY <1>15 DEF ListFilled, Goto, TypeOK, LockInv, Building, ToolHit
<1>16. ASSUME NEW t \in Task, ToolsAnswer(t) PROVE LockInv'
  BY <1>16 DEF ToolsAnswer, Goto, TypeOK, LockInv, Building, ToolHit
<1>17. ASSUME NEW t \in Task, ToolsStore(t) PROVE LockInv'
  BY <1>17
     DEF ToolsStore, StoreTools, TakeRow, Goto, TypeOK, LockInv, Building,
         ToolHit
<1>18. ASSUME NEW t \in Task, ListStore(t) PROVE LockInv'
  BY <1>18 DEF ListStore, StoreTools, Goto, TypeOK, LockInv, Building, ToolHit
<1>19. ASSUME NEW t \in Task, ToolsFail(t) PROVE LockInv'
  BY <1>19 DEF ToolsFail, Goto, TypeOK, LockInv, Building, ToolHit
<1>20. ASSUME NEW t \in Task, ListFails(t) PROVE LockInv'
  BY <1>20 DEF ListFails, Goto, TypeOK, LockInv, Building, ToolHit
<1>21. ASSUME NEW w \in Worker, ToolsExpire(w) PROVE LockInv'
  BY <1>21 DEF ToolsExpire, TypeOK, LockInv, Building, ToolHit
<1>22. ASSUME NEW w \in Worker, WorkerRestart(w) PROVE LockInv'
  BY <1>22 DEF WorkerRestart, TypeOK, LockInv, Building, ToolHit
<1>23. ASSUME NEW t \in Task, AtTools(t), ToolsQueue(t, mode[t]) PROVE LockInv'
  BY <1>23
     DEF AtTools, ToolsQueue, Goto, For, TypeOK, LockInv, Building, ToolHit
<1>24. ASSUME NEW t \in Task, AtTools(t), ToolsLock(t, mode[t]) PROVE LockInv'
  BY <1>24
     DEF AtTools, ToolsLock, Goto, For, TypeOK, LockInv, Building, ToolHit
<1>25. ASSUME NEW t \in Task, pc[t] = "wait", ToolsLock(t, mode[t])
     PROVE  LockInv'
  BY <1>25 DEF ToolsLock, Goto, For, TypeOK, LockInv, Building, ToolHit
<1>26. ASSUME NEW t \in Task, pc[t] = "idle", ToolsLock(t, "list")
     PROVE  LockInv'
  BY <1>26 DEF ToolsLock, Goto, For, TypeOK, LockInv, Building, ToolHit
<1>27. ASSUME NEW t \in Task, pc[t] = "idle", ToolsQueue(t, "list")
     PROVE  LockInv'
  BY <1>27 DEF ToolsQueue, Goto, For, TypeOK, LockInv, Building, ToolHit
<1>28. CASE UNCHANGED vars
  BY <1>28 DEF vars, TypeOK, LockInv, Building, ToolHit
<1>29. QED
  BY <1>1, <1>2, <1>3, <1>4, <1>5, <1>6, <1>7, <1>8, <1>9, <1>10, <1>11, <1>12,
     <1>13, <1>14, <1>15, <1>16, <1>17, <1>18, <1>19, <1>20, <1>21, <1>22,
     <1>23, <1>24, <1>25, <1>26, <1>27, <1>28
     DEF Next, TaskNext, Write, LockTools, ListTools, Enter, Proceed,
         TakeToolLock

(* Every step keeps BoundInv: versions come from the database, which only  *)
(* grows.                                                                  *)
LEMMA BoundStep == TypeOK /\ BoundInv /\ [Next]_vars => BoundInv'
<1> SUFFICES ASSUME TypeOK, BoundInv, [Next]_vars PROVE BoundInv'
  OBVIOUS
<1> USE HomeType
<1>1. ASSUME NEW t \in Task, NEW k \in Table,
            NEW next \in {"writing", "enter"},
            AdminWrite(t, k, next)
     PROVE  BoundInv'
  <2>1. \A j \in Table : db'[j] \in Nat /\ db[j] \in Nat /\ db'[j] >= db[j]
    BY <1>1 DEF AdminWrite, TypeOK
  <2>2. ASSUME NEW f \in [Table -> Version], AtLeast(db, f)
        PROVE  AtLeast(db', f)
    BY <2>1, <2>2 DEF AtLeast, Version, NoVersion
  <2>3. AtLeast(db', db')
    BY <2>1 DEF AtLeast
  <2>4. /\ \A u \in Task : goal'[u] = goal[u] \/ goal'[u] = db'
        /\ \A w \in Worker : local'[w] = local[w] \/ local'[w] = db'
    BY <1>1 DEF AdminWrite, TypeOK
  <2>5. \A w \in Worker :
          toolCache[w] <= db'[Tools] /\ toolRaw[w] <= db'[Tools]
    <3>1. ASSUME NEW v \in Version, v <= db[Tools] PROVE v <= db'[Tools]
      BY <3>1, <2>1, ToolsType, VersionOrder
    <3>2. QED
      BY <3>1 DEF BoundInv, TypeOK
  <2>6. /\ snapshot' = snapshot /\ raw' = raw
        /\ toolCache' = toolCache /\ toolRaw' = toolRaw
    BY <1>1 DEF AdminWrite
  <2>7. \A w \in Worker : AtLeast(db', snapshot[w]) /\ AtLeast(db', raw[w])
    BY <2>2 DEF BoundInv, TypeOK
  <2>8. \A w \in Worker : AtLeast(db', local'[w])
    BY <2>2, <2>3, <2>4 DEF BoundInv, TypeOK
  <2>9. \A u \in Task : AtLeast(db', goal'[u])
    BY <2>2, <2>3, <2>4 DEF BoundInv, TypeOK
  <2>10. QED
    BY <2>5, <2>6, <2>7, <2>8, <2>9 DEF BoundInv
<1>2. ASSUME NEW t \in Task, AdminAbort(t) PROVE BoundInv'
  BY <1>2
     DEF AdminAbort, Goto, TypeOK, Table, Version, NoVersion, BoundInv, AtLeast
<1>3. ASSUME NEW t \in Task, LoadCall(t) PROVE BoundInv'
  BY <1>3
     DEF LoadCall, Goto, For, TypeOK, Table, Version, NoVersion, BoundInv,
         AtLeast
<1>4. ASSUME NEW t \in Task, LoadSkip(t) PROVE BoundInv'
  BY <1>4
     DEF LoadSkip, Goto, TypeOK, Table, Version, NoVersion, BoundInv, AtLeast
<1>5. ASSUME NEW t \in Task, LoadBegin(t) PROVE BoundInv'
  <2>1. AtLeast(db, Empty)
    BY EmptyIsLeast DEF TypeOK, Version
  <2>2. QED
    BY <1>5, <2>1 DEF LoadBegin, StartBuild, TypeOK, BoundInv
<1>6. ASSUME NEW t \in Task, RefreshBegin(t) PROVE BoundInv'
  <2>1. AtLeast(db, Empty)
    BY EmptyIsLeast DEF TypeOK, Version
  <2>2. NoVersion <= db[Tools]
    BY ToolsType DEF NoVersion, TypeOK
  <2>3. QED
    BY <1>6, <2>1, <2>2
       DEF RefreshBegin, StartBuild, DropTools, TypeOK, BoundInv
<1>7. ASSUME NEW t \in Task, RefreshBlocked(t) PROVE BoundInv'
  <2>1. AtLeast(db, Empty)
    BY EmptyIsLeast DEF TypeOK, Version
  <2>2. QED
    BY <1>7, <2>1 DEF RefreshBlocked, StartBuild, TypeOK, BoundInv
<1>8. ASSUME NEW t \in Task, InvalidateTools(t) PROVE BoundInv'
  <2>1. NoVersion <= db[Tools]
    BY ToolsType DEF NoVersion, TypeOK
  <2>2. QED
    BY <1>8, <2>1 DEF InvalidateTools, DropTools, TypeOK, BoundInv
<1>9. ASSUME NEW t \in Task, FetchTable(t) PROVE BoundInv'
  BY <1>9
     DEF FetchTable, TakeRow, TypeOK, Table, Version, NoVersion, BoundInv,
         AtLeast
<1>10. ASSUME NEW t \in Task, Publish(t) PROVE BoundInv'
  BY <1>10
     DEF Publish, Goto, TypeOK, Table, Version, NoVersion, BoundInv, AtLeast
<1>11. ASSUME NEW t \in Task, Respond(t) PROVE BoundInv'
  BY <1>11
     DEF Respond, Goto, TypeOK, Table, Version, NoVersion, BoundInv, AtLeast
<1>12. ASSUME NEW t \in Task, BuildFails(t) PROVE BoundInv'
  BY <1>12
     DEF BuildFails, Goto, TypeOK, Table, Version, NoVersion, BoundInv, AtLeast
<1>13. ASSUME NEW t \in Task, ToolsCached(t) PROVE BoundInv'
  BY <1>13
     DEF ToolsCached, AtTools, TakeRow, TypeOK, Table, Version, NoVersion,
         BoundInv, AtLeast
<1>14. ASSUME NEW t \in Task, ToolsFilled(t) PROVE BoundInv'
  BY <1>14
     DEF ToolsFilled, TakeRow, Goto, TypeOK, Table, Version, NoVersion,
         BoundInv, AtLeast
<1>15. ASSUME NEW t \in Task, ListFilled(t) PROVE BoundInv'
  BY <1>15
     DEF ListFilled, Goto, TypeOK, Table, Version, NoVersion, BoundInv, AtLeast
<1>16. ASSUME NEW t \in Task, ToolsAnswer(t) PROVE BoundInv'
  BY <1>16
     DEF ToolsAnswer, Goto, TypeOK, Table, Version, NoVersion, BoundInv,
         AtLeast
<1>17. ASSUME NEW t \in Task, ToolsStore(t) PROVE BoundInv'
  BY <1>17
     DEF ToolsStore, StoreTools, TakeRow, Goto, TypeOK, Table, Version,
         NoVersion, BoundInv, AtLeast
<1>18. ASSUME NEW t \in Task, ListStore(t) PROVE BoundInv'
  BY <1>18
     DEF ListStore, StoreTools, Goto, TypeOK, Table, Version, NoVersion,
         BoundInv, AtLeast
<1>19. ASSUME NEW t \in Task, ToolsFail(t) PROVE BoundInv'
  BY <1>19
     DEF ToolsFail, Goto, TypeOK, Table, Version, NoVersion, BoundInv, AtLeast
<1>20. ASSUME NEW t \in Task, ListFails(t) PROVE BoundInv'
  BY <1>20
     DEF ListFails, Goto, TypeOK, Table, Version, NoVersion, BoundInv, AtLeast
<1>21. ASSUME NEW w \in Worker, ToolsExpire(w) PROVE BoundInv'
  BY <1>21
     DEF ToolsExpire, TypeOK, Table, Version, NoVersion, BoundInv, AtLeast
<1>22. ASSUME NEW w \in Worker, WorkerRestart(w) PROVE BoundInv'
  <2>1. AtLeast(db, Empty)
    BY EmptyIsLeast DEF TypeOK, Version
  <2>2. NoVersion <= db[Tools]
    BY ToolsType DEF NoVersion, TypeOK
  <2>3. QED
    BY <1>22, <2>1, <2>2 DEF WorkerRestart, TypeOK, BoundInv
<1>23. ASSUME NEW t \in Task, AtTools(t), ToolsQueue(t, mode[t])
     PROVE  BoundInv'
  BY <1>23
     DEF AtTools, ToolsQueue, Goto, For, TypeOK, Table, Version, NoVersion,
         BoundInv, AtLeast
<1>24. ASSUME NEW t \in Task, AtTools(t), ToolsLock(t, mode[t]) PROVE BoundInv'
  BY <1>24
     DEF AtTools, ToolsLock, Goto, For, TypeOK, Table, Version, NoVersion,
         BoundInv, AtLeast
<1>25. ASSUME NEW t \in Task, pc[t] = "wait", ToolsLock(t, mode[t])
     PROVE  BoundInv'
  BY <1>25
     DEF ToolsLock, Goto, For, TypeOK, Table, Version, NoVersion, BoundInv,
         AtLeast
<1>26. ASSUME NEW t \in Task, pc[t] = "idle", ToolsLock(t, "list")
     PROVE  BoundInv'
  BY <1>26
     DEF ToolsLock, Goto, For, TypeOK, Table, Version, NoVersion, BoundInv,
         AtLeast
<1>27. ASSUME NEW t \in Task, pc[t] = "idle", ToolsQueue(t, "list")
     PROVE  BoundInv'
  BY <1>27
     DEF ToolsQueue, Goto, For, TypeOK, Table, Version, NoVersion, BoundInv,
         AtLeast
<1>28. CASE UNCHANGED vars
  BY <1>28 DEF vars, TypeOK, Table, Version, NoVersion, BoundInv, AtLeast
<1>29. QED
  BY <1>1, <1>2, <1>3, <1>4, <1>5, <1>6, <1>7, <1>8, <1>9, <1>10, <1>11, <1>12,
     <1>13, <1>14, <1>15, <1>16, <1>17, <1>18, <1>19, <1>20, <1>21, <1>22,
     <1>23, <1>24, <1>25, <1>26, <1>27, <1>28
     DEF Next, TaskNext, Write, LockTools, ListTools, Enter, Proceed,
         TakeToolLock

(* Every step keeps ToolOrderInv.                                          *)
LEMMA ToolOrderStep ==
  TypeOK /\ LockInv /\ BoundInv /\ ToolOrderInv /\ [Next]_vars => ToolOrderInv'
<1> SUFFICES ASSUME TypeOK, LockInv, BoundInv, ToolOrderInv, [Next]_vars
             PROVE  ToolOrderInv'
  OBVIOUS
<1> USE HomeType
<1>1. ASSUME NEW t \in Task, NEW k \in Table,
            NEW next \in {"writing", "enter"},
            AdminWrite(t, k, next)
     PROVE  ToolOrderInv'
  BY <1>1
     DEF AdminWrite, Goto, For, TypeOK, Table, Version, NoVersion, Empty,
         LockInv, ToolHit, Building, BoundInv, AtLeast, ToolOrderInv
<1>2. ASSUME NEW t \in Task, AdminAbort(t) PROVE ToolOrderInv'
  BY <1>2
     DEF AdminAbort, Goto, TypeOK, Table, Version, NoVersion, Empty, LockInv,
         ToolHit, Building, BoundInv, AtLeast, ToolOrderInv
<1>3. ASSUME NEW t \in Task, LoadCall(t) PROVE ToolOrderInv'
  BY <1>3
     DEF LoadCall, Goto, For, TypeOK, Table, Version, NoVersion, Empty,
         LockInv, ToolHit, Building, BoundInv, AtLeast, ToolOrderInv
<1>4. ASSUME NEW t \in Task, LoadSkip(t) PROVE ToolOrderInv'
  BY <1>4
     DEF LoadSkip, Goto, TypeOK, Table, Version, NoVersion, Empty, LockInv,
         ToolHit, Building, BoundInv, AtLeast, ToolOrderInv
<1>5. ASSUME NEW t \in Task, LoadBegin(t) PROVE ToolOrderInv'
  BY <1>5
     DEF LoadBegin, StartBuild, Goto, TypeOK, Table, Version, NoVersion, Empty,
         LockInv, ToolHit, Building, BoundInv, AtLeast, ToolOrderInv
<1>6. ASSUME NEW t \in Task, RefreshBegin(t) PROVE ToolOrderInv'
  BY <1>6
     DEF RefreshBegin, StartBuild, DropTools, Goto, TypeOK, Table, Version,
         NoVersion, Empty, LockInv, ToolHit, Building, BoundInv, AtLeast,
         ToolOrderInv
<1>7. ASSUME NEW t \in Task, RefreshBlocked(t) PROVE ToolOrderInv'
  BY <1>7
     DEF RefreshBlocked, StartBuild, Goto, TypeOK, Table, Version, NoVersion,
         Empty, LockInv, ToolHit, Building, BoundInv, AtLeast, ToolOrderInv
<1>8. ASSUME NEW t \in Task, InvalidateTools(t) PROVE ToolOrderInv'
  BY <1>8
     DEF InvalidateTools, DropTools, Goto, TypeOK, Table, Version, NoVersion,
         Empty, LockInv, ToolHit, Building, BoundInv, AtLeast, ToolOrderInv
<1>9. ASSUME NEW t \in Task, FetchTable(t) PROVE ToolOrderInv'
  BY <1>9
     DEF FetchTable, TakeRow, TypeOK, Table, Version, NoVersion, Empty,
         LockInv, ToolHit, Building, BoundInv, AtLeast, ToolOrderInv
<1>10. ASSUME NEW t \in Task, Publish(t) PROVE ToolOrderInv'
  BY <1>10
     DEF Publish, Goto, TypeOK, Table, Version, NoVersion, Empty, LockInv,
         ToolHit, Building, BoundInv, AtLeast, ToolOrderInv
<1>11. ASSUME NEW t \in Task, Respond(t) PROVE ToolOrderInv'
  BY <1>11
     DEF Respond, Goto, TypeOK, Table, Version, NoVersion, Empty, LockInv,
         ToolHit, Building, BoundInv, AtLeast, ToolOrderInv
<1>12. ASSUME NEW t \in Task, BuildFails(t) PROVE ToolOrderInv'
  BY <1>12
     DEF BuildFails, Goto, TypeOK, Table, Version, NoVersion, Empty, LockInv,
         ToolHit, Building, BoundInv, AtLeast, ToolOrderInv
<1>13. ASSUME NEW t \in Task, ToolsCached(t) PROVE ToolOrderInv'
  BY <1>13
     DEF ToolsCached, AtTools, TakeRow, TypeOK, Table, Version, NoVersion,
         Empty, LockInv, ToolHit, Building, BoundInv, AtLeast, ToolOrderInv
<1>14. ASSUME NEW t \in Task, ToolsFilled(t) PROVE ToolOrderInv'
  BY <1>14
     DEF ToolsFilled, TakeRow, Goto, TypeOK, Table, Version, NoVersion, Empty,
         LockInv, ToolHit, Building, BoundInv, AtLeast, ToolOrderInv
<1>15. ASSUME NEW t \in Task, ListFilled(t) PROVE ToolOrderInv'
  BY <1>15
     DEF ListFilled, Goto, TypeOK, Table, Version, NoVersion, Empty, LockInv,
         ToolHit, Building, BoundInv, AtLeast, ToolOrderInv
<1>16. ASSUME NEW t \in Task, ToolsAnswer(t) PROVE ToolOrderInv'
  BY <1>16
     DEF ToolsAnswer, Goto, TypeOK, Table, Version, NoVersion, Empty, LockInv,
         ToolHit, Building, BoundInv, AtLeast, ToolOrderInv
<1>17. ASSUME NEW t \in Task, ToolsStore(t) PROVE ToolOrderInv'
  BY <1>17
     DEF ToolsStore, StoreTools, TakeRow, Goto, TypeOK, Table, Version,
         NoVersion, Empty, LockInv, ToolHit, Building, BoundInv, AtLeast,
         ToolOrderInv
<1>18. ASSUME NEW t \in Task, ListStore(t) PROVE ToolOrderInv'
  BY <1>18
     DEF ListStore, StoreTools, Goto, TypeOK, Table, Version, NoVersion, Empty,
         LockInv, ToolHit, Building, BoundInv, AtLeast, ToolOrderInv
<1>19. ASSUME NEW t \in Task, ToolsFail(t) PROVE ToolOrderInv'
  BY <1>19
     DEF ToolsFail, Goto, TypeOK, Table, Version, NoVersion, Empty, LockInv,
         ToolHit, Building, BoundInv, AtLeast, ToolOrderInv
<1>20. ASSUME NEW t \in Task, ListFails(t) PROVE ToolOrderInv'
  BY <1>20
     DEF ListFails, Goto, TypeOK, Table, Version, NoVersion, Empty, LockInv,
         ToolHit, Building, BoundInv, AtLeast, ToolOrderInv
<1>21. ASSUME NEW w \in Worker, ToolsExpire(w) PROVE ToolOrderInv'
  BY <1>21
     DEF ToolsExpire, TypeOK, Table, Version, NoVersion, Empty, LockInv,
         ToolHit, Building, BoundInv, AtLeast, ToolOrderInv
<1>22. ASSUME NEW w \in Worker, WorkerRestart(w) PROVE ToolOrderInv'
  BY <1>22
     DEF WorkerRestart, TypeOK, Table, Version, NoVersion, Empty, LockInv,
         ToolHit, Building, BoundInv, AtLeast, ToolOrderInv
<1>23. ASSUME NEW t \in Task, AtTools(t), ToolsQueue(t, mode[t])
     PROVE  ToolOrderInv'
  BY <1>23
     DEF AtTools, ToolsQueue, Goto, For, TypeOK, Table, Version, NoVersion,
         Empty, LockInv, ToolHit, Building, BoundInv, AtLeast, ToolOrderInv
<1>24. ASSUME NEW t \in Task, AtTools(t), ToolsLock(t, mode[t])
     PROVE  ToolOrderInv'
  BY <1>24
     DEF AtTools, ToolsLock, Goto, For, TypeOK, Table, Version, NoVersion,
         Empty, LockInv, ToolHit, Building, BoundInv, AtLeast, ToolOrderInv
<1>25. ASSUME NEW t \in Task, pc[t] = "wait", ToolsLock(t, mode[t])
     PROVE  ToolOrderInv'
  BY <1>25
     DEF ToolsLock, Goto, For, TypeOK, Table, Version, NoVersion, Empty,
         LockInv, ToolHit, Building, BoundInv, AtLeast, ToolOrderInv
<1>26. ASSUME NEW t \in Task, pc[t] = "idle", ToolsLock(t, "list")
     PROVE  ToolOrderInv'
  BY <1>26
     DEF ToolsLock, Goto, For, TypeOK, Table, Version, NoVersion, Empty,
         LockInv, ToolHit, Building, BoundInv, AtLeast, ToolOrderInv
<1>27. ASSUME NEW t \in Task, pc[t] = "idle", ToolsQueue(t, "list")
     PROVE  ToolOrderInv'
  BY <1>27
     DEF ToolsQueue, Goto, For, TypeOK, Table, Version, NoVersion, Empty,
         LockInv, ToolHit, Building, BoundInv, AtLeast, ToolOrderInv
<1>28. CASE UNCHANGED vars
  BY <1>28
     DEF vars, TypeOK, Table, Version, NoVersion, Empty, LockInv, ToolHit,
         Building, BoundInv, AtLeast, ToolOrderInv
<1>29. QED
  BY <1>1, <1>2, <1>3, <1>4, <1>5, <1>6, <1>7, <1>8, <1>9, <1>10, <1>11, <1>12,
     <1>13, <1>14, <1>15, <1>16, <1>17, <1>18, <1>19, <1>20, <1>21, <1>22,
     <1>23, <1>24, <1>25, <1>26, <1>27, <1>28
     DEF Next, TaskNext, Write, LockTools, ListTools, Enter, Proceed,
         TakeToolLock

-----------------------------------------------------------------------------
(* Once rows are covered on a worker they stay covered, until it restarts: *)
(* a build in progress will read them, or has.                             *)
LEMMA CoversKept ==
  ASSUME TypeOK, LockInv, [Next]_vars,
         NEW v \in Worker, NEW g \in [Table -> Version],
         AtLeast(db, g), Covers(v, g)
  PROVE  Covers(v, g)'
<1> USE HomeType, ToolsType, TableStart, VersionOrder
<1>1. ASSUME NEW t \in Task, NEW k \in Table,
            NEW next \in {"writing", "enter"},
            AdminWrite(t, k, next)
     PROVE  Covers(v, g)'
  BY <1>1
     DEF AdminWrite, Goto, For, TypeOK, LockInv, ToolHit, Building, AtLeast,
         Covers
<1>2. ASSUME NEW t \in Task, AdminAbort(t) PROVE Covers(v, g)'
  BY <1>2
     DEF AdminAbort, Goto, TypeOK, LockInv, ToolHit, Building, AtLeast, Covers
<1>3. ASSUME NEW t \in Task, LoadCall(t) PROVE Covers(v, g)'
  BY <1>3
     DEF LoadCall, Goto, For, TypeOK, LockInv, ToolHit, Building, AtLeast,
         Covers
<1>4. ASSUME NEW t \in Task, LoadSkip(t) PROVE Covers(v, g)'
  BY <1>4
     DEF LoadSkip, Goto, TypeOK, LockInv, ToolHit, Building, AtLeast, Covers
<1>5. ASSUME NEW t \in Task, LoadBegin(t) PROVE Covers(v, g)'
  BY <1>5
     DEF LoadBegin, StartBuild, Goto, TypeOK, LockInv, ToolHit, Building,
         AtLeast, Covers
<1>6. ASSUME NEW t \in Task, RefreshBegin(t) PROVE Covers(v, g)'
  BY <1>6
     DEF RefreshBegin, StartBuild, DropTools, Goto, TypeOK, LockInv, ToolHit,
         Building, AtLeast, Covers
<1>7. ASSUME NEW t \in Task, RefreshBlocked(t) PROVE Covers(v, g)'
  BY <1>7
     DEF RefreshBlocked, StartBuild, Goto, TypeOK, LockInv, ToolHit, Building,
         AtLeast, Covers
<1>8. ASSUME NEW t \in Task, InvalidateTools(t) PROVE Covers(v, g)'
  BY <1>8
     DEF InvalidateTools, DropTools, Goto, TypeOK, LockInv, ToolHit, Building,
         AtLeast, Covers
<1>9. ASSUME NEW t \in Task, FetchTable(t) PROVE Covers(v, g)'
  BY <1>9
     DEF FetchTable, TakeRow, TypeOK, LockInv, ToolHit, Building, AtLeast,
         Covers
<1>10. ASSUME NEW t \in Task, Publish(t) PROVE Covers(v, g)'
  BY <1>10
     DEF Publish, Goto, TypeOK, LockInv, ToolHit, Building, AtLeast, Covers
<1>11. ASSUME NEW t \in Task, Respond(t) PROVE Covers(v, g)'
  BY <1>11
     DEF Respond, Goto, TypeOK, LockInv, ToolHit, Building, AtLeast, Covers
<1>12. ASSUME NEW t \in Task, BuildFails(t) PROVE Covers(v, g)'
  BY <1>12
     DEF BuildFails, Goto, TypeOK, LockInv, ToolHit, Building, AtLeast, Covers
<1>13. ASSUME NEW t \in Task, ToolsCached(t) PROVE Covers(v, g)'
  BY <1>13
     DEF ToolsCached, AtTools, TakeRow, TypeOK, LockInv, ToolHit, Building,
         AtLeast, Covers
<1>14. ASSUME NEW t \in Task, ToolsFilled(t) PROVE Covers(v, g)'
  BY <1>14
     DEF ToolsFilled, TakeRow, Goto, TypeOK, LockInv, ToolHit, Building,
         AtLeast, Covers
<1>15. ASSUME NEW t \in Task, ListFilled(t) PROVE Covers(v, g)'
  BY <1>15
     DEF ListFilled, Goto, TypeOK, LockInv, ToolHit, Building, AtLeast, Covers
<1>16. ASSUME NEW t \in Task, ToolsAnswer(t) PROVE Covers(v, g)'
  BY <1>16
     DEF ToolsAnswer, Goto, TypeOK, LockInv, ToolHit, Building, AtLeast, Covers
<1>17. ASSUME NEW t \in Task, ToolsStore(t) PROVE Covers(v, g)'
  BY <1>17
     DEF ToolsStore, StoreTools, TakeRow, Goto, TypeOK, LockInv, ToolHit,
         Building, AtLeast, Covers
<1>18. ASSUME NEW t \in Task, ListStore(t) PROVE Covers(v, g)'
  BY <1>18
     DEF ListStore, StoreTools, Goto, TypeOK, LockInv, ToolHit, Building,
         AtLeast, Covers
<1>19. ASSUME NEW t \in Task, ToolsFail(t) PROVE Covers(v, g)'
  BY <1>19
     DEF ToolsFail, Goto, TypeOK, LockInv, ToolHit, Building, AtLeast, Covers
<1>20. ASSUME NEW t \in Task, ListFails(t) PROVE Covers(v, g)'
  BY <1>20
     DEF ListFails, Goto, TypeOK, LockInv, ToolHit, Building, AtLeast, Covers
<1>21. ASSUME NEW w \in Worker, ToolsExpire(w) PROVE Covers(v, g)'
  BY <1>21 DEF ToolsExpire, TypeOK, LockInv, ToolHit, Building, AtLeast, Covers
<1>22. ASSUME NEW w \in Worker, WorkerRestart(w) PROVE Covers(v, g)'
  BY <1>22
     DEF WorkerRestart, TypeOK, LockInv, ToolHit, Building, AtLeast, Covers
<1>23. ASSUME NEW t \in Task, AtTools(t), ToolsQueue(t, mode[t])
     PROVE  Covers(v, g)'
  BY <1>23
     DEF AtTools, ToolsQueue, Goto, For, TypeOK, LockInv, ToolHit, Building,
         AtLeast, Covers
<1>24. ASSUME NEW t \in Task, AtTools(t), ToolsLock(t, mode[t])
     PROVE  Covers(v, g)'
  BY <1>24
     DEF AtTools, ToolsLock, Goto, For, TypeOK, LockInv, ToolHit, Building,
         AtLeast, Covers
<1>25. ASSUME NEW t \in Task, pc[t] = "wait", ToolsLock(t, mode[t])
     PROVE  Covers(v, g)'
  BY <1>25
     DEF ToolsLock, Goto, For, TypeOK, LockInv, ToolHit, Building, AtLeast,
         Covers
<1>26. ASSUME NEW t \in Task, pc[t] = "idle", ToolsLock(t, "list")
     PROVE  Covers(v, g)'
  BY <1>26
     DEF ToolsLock, Goto, For, TypeOK, LockInv, ToolHit, Building, AtLeast,
         Covers
<1>27. ASSUME NEW t \in Task, pc[t] = "idle", ToolsQueue(t, "list")
     PROVE  Covers(v, g)'
  BY <1>27
     DEF ToolsQueue, Goto, For, TypeOK, LockInv, ToolHit, Building, AtLeast,
         Covers
<1>28. CASE UNCHANGED vars
  BY <1>28 DEF vars, TypeOK, LockInv, ToolHit, Building, AtLeast, Covers
<1>29. QED
  BY <1>1, <1>2, <1>3, <1>4, <1>5, <1>6, <1>7, <1>8, <1>9, <1>10, <1>11, <1>12,
     <1>13, <1>14, <1>15, <1>16, <1>17, <1>18, <1>19, <1>20, <1>21, <1>22,
     <1>23, <1>24, <1>25, <1>26, <1>27, <1>28
     DEF Next, TaskNext, Write, LockTools, ListTools, Enter, Proceed,
         TakeToolLock

(* A build that has just begun, with the tools dropped, covers everything. *)
LEMMA CoversFresh ==
  ASSUME TypeOK', LockInv', NEW v \in Worker, NEW g \in [Table -> Version],
         cursor'[v] = 1, toolCache'[v] = NoVersion, toolLock'[v] = NoTask
  PROVE  Covers(v, g)'
  BY TableStart, NoTaskAssumption DEF LockInv, Covers

(* A build in progress never gets behind the snapshot it will replace.     *)
LEMMA SnapshotCover ==
  ASSUME TypeOK, TypeOK', LockInv, LockInv', BoundInv, ToolOrderInv, CoverInv,
         [Next]_vars, NEW v \in Worker
  PROVE  Covers(v, snapshot[v])'
<1>0. ASSUME snapshot' = snapshot PROVE Covers(v, snapshot[v])'
  <2>1. /\ snapshot[v] \in [Table -> Version] /\ AtLeast(db, snapshot[v])
        /\ Covers(v, snapshot[v])
    BY DEF TypeOK, BoundInv, CoverInv
  <2>2. PICK g \in [Table -> Version] : g = snapshot[v]
    BY <2>1
  <2>3. Covers(v, g)'
    BY <2>1, <2>2, CoversKept
  <2>4. QED
    BY <1>0, <2>2, <2>3 DEF Covers
<1>1. ASSUME NEW t \in Task, NEW k \in Table,
            NEW next \in {"writing", "enter"},
            AdminWrite(t, k, next)
     PROVE  Covers(v, snapshot[v])'
  BY <1>0, <1>1 DEF AdminWrite, Goto, For
<1>2. ASSUME NEW t \in Task, AdminAbort(t) PROVE Covers(v, snapshot[v])'
  BY <1>0, <1>2 DEF AdminAbort, Goto
<1>3. ASSUME NEW t \in Task, LoadCall(t) PROVE Covers(v, snapshot[v])'
  BY <1>0, <1>3 DEF LoadCall, Goto, For
<1>4. ASSUME NEW t \in Task, LoadSkip(t) PROVE Covers(v, snapshot[v])'
  BY <1>0, <1>4 DEF LoadSkip, Goto
<1>5. ASSUME NEW t \in Task, LoadBegin(t) PROVE Covers(v, snapshot[v])'
  BY <1>0, <1>5 DEF LoadBegin, StartBuild, Goto
<1>6. ASSUME NEW t \in Task, RefreshBegin(t) PROVE Covers(v, snapshot[v])'
  BY <1>0, <1>6 DEF RefreshBegin, StartBuild, DropTools, Goto
<1>7. ASSUME NEW t \in Task, RefreshBlocked(t) PROVE Covers(v, snapshot[v])'
  BY <1>0, <1>7 DEF RefreshBlocked, StartBuild, Goto
<1>8. ASSUME NEW t \in Task, InvalidateTools(t) PROVE Covers(v, snapshot[v])'
  BY <1>0, <1>8 DEF InvalidateTools, DropTools, Goto
<1>9. ASSUME NEW t \in Task, FetchTable(t) PROVE Covers(v, snapshot[v])'
  BY <1>0, <1>9 DEF FetchTable, TakeRow
<1>10. ASSUME NEW t \in Task, Publish(t) PROVE Covers(v, snapshot[v])'
  <2>1. CASE Home[t] # v
    <3>1. snapshot'[v] = snapshot[v]
      BY <1>0, <1>10, <2>1 DEF Publish, TypeOK
    <3>2. PICK g \in [Table -> Version] : g = snapshot[v]
      BY DEF TypeOK
    <3>3. Covers(v, g)'
      BY <3>2, CoversKept DEF BoundInv, CoverInv
    <3>4. QED
      BY <3>1, <3>2, <3>3 DEF Covers
  <2>2. CASE Home[t] = v
    <3>1. /\ snapshot'[v] = raw[v] /\ raw' = raw /\ cursor[v] > Tools
          /\ cursor' = cursor /\ toolCache' = toolCache /\ toolRaw' = toolRaw
      BY <1>0, <1>10, <2>2 DEF Publish, TypeOK, Table
    <3>2. \A s \in Task : pc'[s] = "store" => pc[s] = "store"
      BY <1>0, <1>10 DEF Publish, Goto, TypeOK
    <3>3. \A k \in Table : raw[v][k] \in Version /\ raw[v][k] >= raw[v][k]
      BY VersionOrder DEF TypeOK
    <3>4. QED
      BY <3>1, <3>2, <3>3 DEF ToolOrderInv, Covers
  <2>3. QED
    BY <2>1, <2>2
<1>11. ASSUME NEW t \in Task, Respond(t) PROVE Covers(v, snapshot[v])'
  BY <1>0, <1>11 DEF Respond, Goto
<1>12. ASSUME NEW t \in Task, BuildFails(t) PROVE Covers(v, snapshot[v])'
  BY <1>0, <1>12 DEF BuildFails, Goto
<1>13. ASSUME NEW t \in Task, ToolsCached(t) PROVE Covers(v, snapshot[v])'
  BY <1>0, <1>13 DEF ToolsCached, AtTools, TakeRow
<1>14. ASSUME NEW t \in Task, ToolsFilled(t) PROVE Covers(v, snapshot[v])'
  BY <1>0, <1>14 DEF ToolsFilled, TakeRow, Goto
<1>15. ASSUME NEW t \in Task, ListFilled(t) PROVE Covers(v, snapshot[v])'
  BY <1>0, <1>15 DEF ListFilled, Goto
<1>16. ASSUME NEW t \in Task, ToolsAnswer(t) PROVE Covers(v, snapshot[v])'
  BY <1>0, <1>16 DEF ToolsAnswer, Goto
<1>17. ASSUME NEW t \in Task, ToolsStore(t) PROVE Covers(v, snapshot[v])'
  BY <1>0, <1>17 DEF ToolsStore, StoreTools, TakeRow, Goto
<1>18. ASSUME NEW t \in Task, ListStore(t) PROVE Covers(v, snapshot[v])'
  BY <1>0, <1>18 DEF ListStore, StoreTools, Goto
<1>19. ASSUME NEW t \in Task, ToolsFail(t) PROVE Covers(v, snapshot[v])'
  BY <1>0, <1>19 DEF ToolsFail, Goto
<1>20. ASSUME NEW t \in Task, ListFails(t) PROVE Covers(v, snapshot[v])'
  BY <1>0, <1>20 DEF ListFails, Goto
<1>21. ASSUME NEW w \in Worker, ToolsExpire(w) PROVE Covers(v, snapshot[v])'
  BY <1>0, <1>21 DEF ToolsExpire
<1>22. ASSUME NEW w \in Worker, WorkerRestart(w) PROVE Covers(v, snapshot[v])'
  <2>1. CASE w # v
    <3>1. snapshot'[v] = snapshot[v]
      BY <1>0, <1>22, <2>1 DEF WorkerRestart, TypeOK
    <3>2. PICK g \in [Table -> Version] : g = snapshot[v]
      BY DEF TypeOK
    <3>3. Covers(v, g)'
      BY <3>2, CoversKept DEF BoundInv, CoverInv
    <3>4. QED
      BY <3>1, <3>2, <3>3 DEF Covers
  <2>2. CASE w = v
    <3>1. /\ cursor'[v] = 1 /\ toolCache'[v] = NoVersion
          /\ toolLock'[v] = NoTask
      BY <1>0, <1>22, <2>2 DEF WorkerRestart, TypeOK
    <3>2. PICK g \in [Table -> Version] : g = snapshot'[v]
      BY DEF TypeOK
    <3>3. Covers(v, g)'
      BY <3>1, CoversFresh
    <3>4. QED
      BY <3>2, <3>3 DEF Covers
  <2>3. QED
    BY <2>1, <2>2
<1>23. ASSUME NEW t \in Task, AtTools(t), ToolsQueue(t, mode[t])
     PROVE  Covers(v, snapshot[v])'
  BY <1>0, <1>23 DEF AtTools, ToolsQueue, Goto, For
<1>24. ASSUME NEW t \in Task, AtTools(t), ToolsLock(t, mode[t])
     PROVE  Covers(v, snapshot[v])'
  BY <1>0, <1>24 DEF AtTools, ToolsLock, Goto, For
<1>25. ASSUME NEW t \in Task, pc[t] = "wait", ToolsLock(t, mode[t])
     PROVE  Covers(v, snapshot[v])'
  BY <1>0, <1>25 DEF ToolsLock, Goto, For
<1>26. ASSUME NEW t \in Task, pc[t] = "idle", ToolsLock(t, "list")
     PROVE  Covers(v, snapshot[v])'
  BY <1>0, <1>26 DEF ToolsLock, Goto, For
<1>27. ASSUME NEW t \in Task, pc[t] = "idle", ToolsQueue(t, "list")
     PROVE  Covers(v, snapshot[v])'
  BY <1>0, <1>27 DEF ToolsQueue, Goto, For
<1>28. CASE UNCHANGED vars
  BY <1>0, <1>28 DEF vars
<1>29. QED
  BY <1>1, <1>2, <1>3, <1>4, <1>5, <1>6, <1>7, <1>8, <1>9, <1>10, <1>11, <1>12,
     <1>13, <1>14, <1>15, <1>16, <1>17, <1>18, <1>19, <1>20, <1>21, <1>22,
     <1>23, <1>24, <1>25, <1>26, <1>27, <1>28
     DEF Next, TaskNext, Write, LockTools, ListTools, Enter, Proceed,
         TakeToolLock

(* A refreshing handler's build covers what the handler has written.       *)
LEMMA GoalCover ==
  ASSUME TypeOK, TypeOK', LockInv, LockInv', BoundInv, CoverInv, [Next]_vars,
         NEW u \in Task, Refreshing(u)'
  PROVE  Covers(Home[u], goal[u])'
<1>a. Home[u] \in Worker
  BY HomeType
<1>0. ASSUME Refreshing(u), goal'[u] = goal[u]
      PROVE  Covers(Home[u], goal[u])'
  <2>1. PICK g \in [Table -> Version] : g = goal[u]
    BY DEF TypeOK
  <2>2. Covers(Home[u], g)'
    BY <1>0, <1>a, <2>1, CoversKept DEF BoundInv, CoverInv
  <2>3. QED
    BY <1>0, <2>1, <2>2 DEF Covers
<1>1. ASSUME NEW t \in Task, NEW k \in Table,
            NEW next \in {"writing", "enter"},
            AdminWrite(t, k, next)
     PROVE  Covers(Home[u], goal[u])'
  BY <1>0, <1>1 DEF AdminWrite, Goto, For, TypeOK, Refreshing, Building
<1>2. ASSUME NEW t \in Task, AdminAbort(t) PROVE Covers(Home[u], goal[u])'
  BY <1>0, <1>2 DEF AdminAbort, Goto, TypeOK, Refreshing, Building
<1>3. ASSUME NEW t \in Task, LoadCall(t) PROVE Covers(Home[u], goal[u])'
  BY <1>0, <1>3 DEF LoadCall, Goto, For, TypeOK, Refreshing, Building
<1>4. ASSUME NEW t \in Task, LoadSkip(t) PROVE Covers(Home[u], goal[u])'
  BY <1>0, <1>4 DEF LoadSkip, Goto, TypeOK, Refreshing, Building
<1>5. ASSUME NEW t \in Task, LoadBegin(t) PROVE Covers(Home[u], goal[u])'
  BY <1>0, <1>5 DEF LoadBegin, StartBuild, Goto, TypeOK, Refreshing, Building
<1>6. ASSUME NEW t \in Task, RefreshBegin(t) PROVE Covers(Home[u], goal[u])'
  <2>1. CASE t # u
    BY <1>0, <1>6, <2>1
       DEF RefreshBegin, StartBuild, DropTools, Goto, Refreshing, Building,
           TypeOK
  <2>2. CASE t = u
    <3>1. /\ cursor'[Home[u]] = 1 /\ toolCache'[Home[u]] = NoVersion
          /\ toolLock'[Home[u]] = NoTask
      BY <1>0, <1>a, <1>6, <2>2
         DEF RefreshBegin, StartBuild, DropTools, Goto, TypeOK, LockInv
    <3>2. PICK g \in [Table -> Version] : g = goal'[u]
      BY DEF TypeOK
    <3>3. Covers(Home[u], g)'
      BY <1>0, <1>a, <3>1, CoversFresh
    <3>4. QED
      BY <3>2, <3>3 DEF Covers
  <2>3. QED
    BY <2>1, <2>2
<1>7. ASSUME NEW t \in Task, RefreshBlocked(t) PROVE Covers(Home[u], goal[u])'
  BY <1>0, <1>7
     DEF RefreshBlocked, StartBuild, Goto, TypeOK, Refreshing, Building
<1>8. ASSUME NEW t \in Task, InvalidateTools(t) PROVE Covers(Home[u], goal[u])'
  <2>1. CASE t # u
    BY <1>0, <1>8, <2>1
       DEF InvalidateTools, DropTools, Goto, Refreshing, Building, TypeOK
  <2>2. CASE t = u
    <3>1. /\ cursor'[Home[u]] = 1 /\ toolCache'[Home[u]] = NoVersion
          /\ toolLock'[Home[u]] = NoTask
      BY <1>0, <1>a, <1>8, <2>2
         DEF InvalidateTools, DropTools, Goto, TypeOK, LockInv
    <3>2. PICK g \in [Table -> Version] : g = goal'[u]
      BY DEF TypeOK
    <3>3. Covers(Home[u], g)'
      BY <1>0, <1>a, <3>1, CoversFresh
    <3>4. QED
      BY <3>2, <3>3 DEF Covers
  <2>3. QED
    BY <2>1, <2>2
<1>9. ASSUME NEW t \in Task, FetchTable(t) PROVE Covers(Home[u], goal[u])'
  BY <1>0, <1>9 DEF FetchTable, TakeRow, TypeOK, Refreshing, Building
<1>10. ASSUME NEW t \in Task, Publish(t) PROVE Covers(Home[u], goal[u])'
  BY <1>0, <1>10 DEF Publish, Goto, TypeOK, Refreshing, Building
<1>11. ASSUME NEW t \in Task, Respond(t) PROVE Covers(Home[u], goal[u])'
  BY <1>0, <1>11 DEF Respond, Goto, TypeOK, Refreshing, Building
<1>12. ASSUME NEW t \in Task, BuildFails(t) PROVE Covers(Home[u], goal[u])'
  BY <1>0, <1>12 DEF BuildFails, Goto, TypeOK, Refreshing, Building
<1>13. ASSUME NEW t \in Task, ToolsCached(t) PROVE Covers(Home[u], goal[u])'
  BY <1>0, <1>13
     DEF ToolsCached, AtTools, TakeRow, TypeOK, Refreshing, Building
<1>14. ASSUME NEW t \in Task, ToolsFilled(t) PROVE Covers(Home[u], goal[u])'
  BY <1>0, <1>14 DEF ToolsFilled, TakeRow, Goto, TypeOK, Refreshing, Building
<1>15. ASSUME NEW t \in Task, ListFilled(t) PROVE Covers(Home[u], goal[u])'
  BY <1>0, <1>15 DEF ListFilled, Goto, TypeOK, Refreshing, Building
<1>16. ASSUME NEW t \in Task, ToolsAnswer(t) PROVE Covers(Home[u], goal[u])'
  BY <1>0, <1>16 DEF ToolsAnswer, Goto, TypeOK, Refreshing, Building
<1>17. ASSUME NEW t \in Task, ToolsStore(t) PROVE Covers(Home[u], goal[u])'
  BY <1>0, <1>17
     DEF ToolsStore, StoreTools, TakeRow, Goto, TypeOK, Refreshing, Building
<1>18. ASSUME NEW t \in Task, ListStore(t) PROVE Covers(Home[u], goal[u])'
  BY <1>0, <1>18 DEF ListStore, StoreTools, Goto, TypeOK, Refreshing, Building
<1>19. ASSUME NEW t \in Task, ToolsFail(t) PROVE Covers(Home[u], goal[u])'
  BY <1>0, <1>19 DEF ToolsFail, Goto, TypeOK, Refreshing, Building
<1>20. ASSUME NEW t \in Task, ListFails(t) PROVE Covers(Home[u], goal[u])'
  BY <1>0, <1>20 DEF ListFails, Goto, TypeOK, Refreshing, Building
<1>21. ASSUME NEW w \in Worker, ToolsExpire(w) PROVE Covers(Home[u], goal[u])'
  BY <1>0, <1>21 DEF ToolsExpire, TypeOK, Refreshing, Building
<1>22. ASSUME NEW w \in Worker, WorkerRestart(w)
     PROVE  Covers(Home[u], goal[u])'
  BY <1>0, <1>22 DEF WorkerRestart, TypeOK, Refreshing, Building
<1>23. ASSUME NEW t \in Task, AtTools(t), ToolsQueue(t, mode[t])
     PROVE  Covers(Home[u], goal[u])'
  BY <1>0, <1>23
     DEF AtTools, ToolsQueue, Goto, For, TypeOK, Refreshing, Building
<1>24. ASSUME NEW t \in Task, AtTools(t), ToolsLock(t, mode[t])
     PROVE  Covers(Home[u], goal[u])'
  BY <1>0, <1>24
     DEF AtTools, ToolsLock, Goto, For, TypeOK, Refreshing, Building
<1>25. ASSUME NEW t \in Task, pc[t] = "wait", ToolsLock(t, mode[t])
     PROVE  Covers(Home[u], goal[u])'
  BY <1>0, <1>25 DEF ToolsLock, Goto, For, TypeOK, Refreshing, Building
<1>26. ASSUME NEW t \in Task, pc[t] = "idle", ToolsLock(t, "list")
     PROVE  Covers(Home[u], goal[u])'
  BY <1>0, <1>26 DEF ToolsLock, Goto, For, TypeOK, Refreshing, Building
<1>27. ASSUME NEW t \in Task, pc[t] = "idle", ToolsQueue(t, "list")
     PROVE  Covers(Home[u], goal[u])'
  BY <1>0, <1>27 DEF ToolsQueue, Goto, For, TypeOK, Refreshing, Building
<1>28. CASE UNCHANGED vars
  BY <1>0, <1>28 DEF vars, TypeOK, Refreshing, Building
<1>29. QED
  BY <1>1, <1>2, <1>3, <1>4, <1>5, <1>6, <1>7, <1>8, <1>9, <1>10, <1>11, <1>12,
     <1>13, <1>14, <1>15, <1>16, <1>17, <1>18, <1>19, <1>20, <1>21, <1>22,
     <1>23, <1>24, <1>25, <1>26, <1>27, <1>28
     DEF Next, TaskNext, Write, LockTools, ListTools, Enter, Proceed,
         TakeToolLock

(* It covers all that was written on the worker as well, unless a refresh  *)
(* is still owed or was lost.                                              *)
LEMMA LocalCover ==
  ASSUME TypeOK, TypeOK', LockInv, LockInv', BoundInv, CoverInv, [Next]_vars,
         NEW u \in Task, Refreshing(u)'
  PROVE  (\/ lapsed[Home[u]] \/ OtherPending(u)
          \/ Covers(Home[u], local[Home[u]]))'
<1> DEFINE Goal == \/ lapsed[Home[u]] \/ OtherPending(u)
                  \/ Covers(Home[u], local[Home[u]])
<1> SUFFICES Goal'
  OBVIOUS
<1>a. Home[u] \in Worker
  BY HomeType
<1>b. Refreshing(u) => Goal
  BY DEF CoverInv
<1>0. ASSUME Refreshing(u), local'[Home[u]] = local[Home[u]],
             lapsed[Home[u]] => lapsed'[Home[u]],
             OtherPending(u) => OtherPending(u)'
      PROVE  Goal'
  <2>1. CASE lapsed[Home[u]] \/ OtherPending(u)
    BY <1>0, <2>1
  <2>2. CASE Covers(Home[u], local[Home[u]])
    <3>1. PICK g \in [Table -> Version] : g = local[Home[u]]
      BY <1>a DEF TypeOK
    <3>2. Covers(Home[u], g)'
      BY <1>a, <2>2, <3>1, CoversKept DEF BoundInv
    <3>3. QED
      BY <1>0, <3>1, <3>2 DEF Covers
  <2>3. QED
    BY <1>0, <1>b, <2>1, <2>2
<1> HIDE DEF Goal
<1>1. ASSUME NEW t \in Task, NEW k \in Table,
            NEW next \in {"writing", "enter"},
            AdminWrite(t, k, next)
     PROVE  Goal'
  <2>1. CASE Home[t] = Home[u]
    <3>1. t # u /\ Pending(t)'
      BY <1>0, <1>a, <1>1, <2>1
         DEF AdminWrite, Goto, For, Refreshing, Building, Pending, TypeOK
    <3>2. QED
      BY <2>1, <3>1 DEF Goal, OtherPending
  <2>2. CASE Home[t] # Home[u]
    BY <1>0, <1>a, <1>1, <2>2, HomeType
       DEF AdminWrite, Goto, For, Refreshing, Building, OtherPending, Pending,
           TypeOK
  <2>3. QED
    BY <2>1, <2>2
<1>2. ASSUME NEW t \in Task, AdminAbort(t) PROVE Goal'
  <2>1. CASE Home[t] = Home[u]
    <3>1. lapsed'[Home[u]] = TRUE
      BY <1>a, <1>2, <2>1 DEF AdminAbort, TypeOK
    <3>2. QED
      BY <3>1 DEF Goal
  <2>2. CASE Home[t] # Home[u]
    BY <1>0, <1>a, <1>2, <2>2, HomeType
       DEF AdminAbort, Goto, Refreshing, Building, OtherPending, Pending,
           TypeOK
  <2>3. QED
    BY <2>1, <2>2
<1>3. ASSUME NEW t \in Task, LoadCall(t) PROVE Goal'
  BY <1>0, <1>a, <1>3
     DEF LoadCall, Goto, For, TypeOK, LockInv, Refreshing, Building,
         OtherPending, Pending
<1>4. ASSUME NEW t \in Task, LoadSkip(t) PROVE Goal'
  BY <1>0, <1>a, <1>4
     DEF LoadSkip, Goto, TypeOK, LockInv, Refreshing, Building, OtherPending,
         Pending
<1>5. ASSUME NEW t \in Task, LoadBegin(t) PROVE Goal'
  BY <1>0, <1>a, <1>5
     DEF LoadBegin, StartBuild, Goto, TypeOK, LockInv, Refreshing, Building,
         OtherPending, Pending
<1>6. ASSUME NEW t \in Task, RefreshBegin(t) PROVE Goal'
  <2>1. CASE t # u
    BY <1>0, <1>a, <1>6, <2>1
       DEF RefreshBegin, StartBuild, DropTools, Goto, Refreshing, Building,
           OtherPending, Pending, TypeOK, LockInv
  <2>2. CASE t = u
    <3>1. /\ cursor'[Home[u]] = 1 /\ toolCache'[Home[u]] = NoVersion
          /\ toolLock'[Home[u]] = NoTask
      BY <1>0, <1>a, <1>6, <2>2
         DEF RefreshBegin, StartBuild, DropTools, Goto, TypeOK, LockInv
    <3>2. PICK g \in [Table -> Version] : g = local'[Home[u]]
      BY <1>0, <1>a DEF TypeOK
    <3>3. Covers(Home[u], g)'
      BY <1>0, <1>a, <3>1, CoversFresh
    <3>4. QED
      BY <3>2, <3>3 DEF Goal, Covers
  <2>3. QED
    BY <2>1, <2>2
<1>7. ASSUME NEW t \in Task, RefreshBlocked(t) PROVE Goal'
  BY <1>0, <1>a, <1>7
     DEF RefreshBlocked, StartBuild, Goto, TypeOK, LockInv, Refreshing,
         Building, OtherPending, Pending
<1>8. ASSUME NEW t \in Task, InvalidateTools(t) PROVE Goal'
  <2>1. CASE t # u
    BY <1>0, <1>a, <1>8, <2>1
       DEF InvalidateTools, DropTools, Goto, Refreshing, Building,
           OtherPending, Pending, TypeOK, LockInv
  <2>2. CASE t = u
    <3>1. /\ cursor'[Home[u]] = 1 /\ toolCache'[Home[u]] = NoVersion
          /\ toolLock'[Home[u]] = NoTask
      BY <1>0, <1>a, <1>8, <2>2
         DEF InvalidateTools, DropTools, Goto, TypeOK, LockInv
    <3>2. PICK g \in [Table -> Version] : g = local'[Home[u]]
      BY <1>0, <1>a DEF TypeOK
    <3>3. Covers(Home[u], g)'
      BY <1>0, <1>a, <3>1, CoversFresh
    <3>4. QED
      BY <3>2, <3>3 DEF Goal, Covers
  <2>3. QED
    BY <2>1, <2>2
<1>9. ASSUME NEW t \in Task, FetchTable(t) PROVE Goal'
  BY <1>0, <1>a, <1>9
     DEF FetchTable, TakeRow, TypeOK, LockInv, Refreshing, Building,
         OtherPending, Pending
<1>10. ASSUME NEW t \in Task, Publish(t) PROVE Goal'
  BY <1>0, <1>a, <1>10
     DEF Publish, Goto, TypeOK, LockInv, Refreshing, Building, OtherPending,
         Pending
<1>11. ASSUME NEW t \in Task, Respond(t) PROVE Goal'
  BY <1>0, <1>a, <1>11
     DEF Respond, Goto, TypeOK, LockInv, Refreshing, Building, OtherPending,
         Pending
<1>12. ASSUME NEW t \in Task, BuildFails(t) PROVE Goal'
  BY <1>0, <1>a, <1>12
     DEF BuildFails, Goto, TypeOK, LockInv, Refreshing, Building, OtherPending,
         Pending
<1>13. ASSUME NEW t \in Task, ToolsCached(t) PROVE Goal'
  BY <1>0, <1>a, <1>13
     DEF ToolsCached, AtTools, TakeRow, TypeOK, LockInv, Refreshing, Building,
         OtherPending, Pending
<1>14. ASSUME NEW t \in Task, ToolsFilled(t) PROVE Goal'
  BY <1>0, <1>a, <1>14
     DEF ToolsFilled, TakeRow, Goto, TypeOK, LockInv, Refreshing, Building,
         OtherPending, Pending
<1>15. ASSUME NEW t \in Task, ListFilled(t) PROVE Goal'
  BY <1>0, <1>a, <1>15
     DEF ListFilled, Goto, TypeOK, LockInv, Refreshing, Building, OtherPending,
         Pending
<1>16. ASSUME NEW t \in Task, ToolsAnswer(t) PROVE Goal'
  BY <1>0, <1>a, <1>16
     DEF ToolsAnswer, Goto, TypeOK, LockInv, Refreshing, Building,
         OtherPending, Pending
<1>17. ASSUME NEW t \in Task, ToolsStore(t) PROVE Goal'
  BY <1>0, <1>a, <1>17
     DEF ToolsStore, StoreTools, TakeRow, Goto, TypeOK, LockInv, Refreshing,
         Building, OtherPending, Pending
<1>18. ASSUME NEW t \in Task, ListStore(t) PROVE Goal'
  BY <1>0, <1>a, <1>18
     DEF ListStore, StoreTools, Goto, TypeOK, LockInv, Refreshing, Building,
         OtherPending, Pending
<1>19. ASSUME NEW t \in Task, ToolsFail(t) PROVE Goal'
  BY <1>0, <1>a, <1>19
     DEF ToolsFail, Goto, TypeOK, LockInv, Refreshing, Building, OtherPending,
         Pending
<1>20. ASSUME NEW t \in Task, ListFails(t) PROVE Goal'
  BY <1>0, <1>a, <1>20
     DEF ListFails, Goto, TypeOK, LockInv, Refreshing, Building, OtherPending,
         Pending
<1>21. ASSUME NEW w \in Worker, ToolsExpire(w) PROVE Goal'
  BY <1>0, <1>a, <1>21
     DEF ToolsExpire, TypeOK, LockInv, Refreshing, Building, OtherPending,
         Pending
<1>22. ASSUME NEW w \in Worker, WorkerRestart(w) PROVE Goal'
  BY <1>0, <1>a, <1>22
     DEF WorkerRestart, TypeOK, LockInv, Refreshing, Building, OtherPending,
         Pending
<1>23. ASSUME NEW t \in Task, AtTools(t), ToolsQueue(t, mode[t]) PROVE Goal'
  BY <1>0, <1>a, <1>23
     DEF AtTools, ToolsQueue, Goto, For, TypeOK, LockInv, Refreshing, Building,
         OtherPending, Pending
<1>24. ASSUME NEW t \in Task, AtTools(t), ToolsLock(t, mode[t]) PROVE Goal'
  BY <1>0, <1>a, <1>24
     DEF AtTools, ToolsLock, Goto, For, TypeOK, LockInv, Refreshing, Building,
         OtherPending, Pending
<1>25. ASSUME NEW t \in Task, pc[t] = "wait", ToolsLock(t, mode[t]) PROVE Goal'
  BY <1>0, <1>a, <1>25
     DEF ToolsLock, Goto, For, TypeOK, LockInv, Refreshing, Building,
         OtherPending, Pending
<1>26. ASSUME NEW t \in Task, pc[t] = "idle", ToolsLock(t, "list") PROVE Goal'
  BY <1>0, <1>a, <1>26
     DEF ToolsLock, Goto, For, TypeOK, LockInv, Refreshing, Building,
         OtherPending, Pending
<1>27. ASSUME NEW t \in Task, pc[t] = "idle", ToolsQueue(t, "list") PROVE Goal'
  BY <1>0, <1>a, <1>27
     DEF ToolsQueue, Goto, For, TypeOK, LockInv, Refreshing, Building,
         OtherPending, Pending
<1>28. CASE UNCHANGED vars
  BY <1>0, <1>a, <1>28
     DEF vars, TypeOK, LockInv, Refreshing, Building, OtherPending, Pending
<1>29. QED
  BY <1>1, <1>2, <1>3, <1>4, <1>5, <1>6, <1>7, <1>8, <1>9, <1>10, <1>11, <1>12,
     <1>13, <1>14, <1>15, <1>16, <1>17, <1>18, <1>19, <1>20, <1>21, <1>22,
     <1>23, <1>24, <1>25, <1>26, <1>27, <1>28
     DEF Next, TaskNext, Write, LockTools, ListTools, Enter, Proceed,
         TakeToolLock

-----------------------------------------------------------------------------
(* The promises, when a rebuild publishes.                                 *)
LEMMA SnapshotMonotone ==
  ASSUME TypeOK, CoverInv, NEW t \in Task, Publish(t), NEW v \in Worker
  PROVE  AtLeast(snapshot'[v], snapshot[v])
<1>1. CASE v # Home[t]
  <2>1. snapshot'[v] = snapshot[v]
    BY <1>1 DEF Publish, TypeOK
  <2>2. QED
    BY <2>1, VersionOrder DEF AtLeast, TypeOK
<1>2. CASE v = Home[t]
  <2>1. snapshot'[v] = raw[v] /\ \A k \in Table : k < cursor[v]
    BY <1>2 DEF Publish, TypeOK, Table
  <2>2. QED
    BY <2>1 DEF CoverInv, Covers, AtLeast
<1>3. QED
  BY <1>1, <1>2

(* Every step keeps ReadYourWrites.                                        *)
LEMMA ReadYourWritesStep ==
  ASSUME TypeOK, LockInv, CoverInv, ReadYourWrites, [Next]_vars
  PROVE  ReadYourWrites'
<1> SUFFICES ASSUME NEW u \in Task, pc'[u] = "done"
             PROVE  AtLeast(snapshot'[Home[u]], goal'[u])
  BY DEF ReadYourWrites, AtLeast
<1>a. Home[u] \in Worker
  BY HomeType
<1>0. ASSUME pc[u] = "done", goal'[u] = goal[u],
             snapshot'[Home[u]] = snapshot[Home[u]]
      PROVE  AtLeast(snapshot'[Home[u]], goal'[u])
  BY <1>0 DEF ReadYourWrites
<1>1. ASSUME NEW t \in Task, NEW k \in Table,
            NEW next \in {"writing", "enter"},
            AdminWrite(t, k, next)
     PROVE  AtLeast(snapshot'[Home[u]], goal'[u])
  BY <1>0, <1>a, <1>1 DEF AdminWrite, Goto, For, TypeOK
<1>2. ASSUME NEW t \in Task, AdminAbort(t)
     PROVE  AtLeast(snapshot'[Home[u]], goal'[u])
  BY <1>0, <1>a, <1>2 DEF AdminAbort, Goto, TypeOK
<1>3. ASSUME NEW t \in Task, LoadCall(t)
     PROVE  AtLeast(snapshot'[Home[u]], goal'[u])
  BY <1>0, <1>a, <1>3 DEF LoadCall, Goto, For, TypeOK
<1>4. ASSUME NEW t \in Task, LoadSkip(t)
     PROVE  AtLeast(snapshot'[Home[u]], goal'[u])
  BY <1>0, <1>a, <1>4 DEF LoadSkip, Goto, TypeOK
<1>5. ASSUME NEW t \in Task, LoadBegin(t)
     PROVE  AtLeast(snapshot'[Home[u]], goal'[u])
  BY <1>0, <1>a, <1>5 DEF LoadBegin, StartBuild, Goto, TypeOK
<1>6. ASSUME NEW t \in Task, RefreshBegin(t)
     PROVE  AtLeast(snapshot'[Home[u]], goal'[u])
  BY <1>0, <1>a, <1>6 DEF RefreshBegin, StartBuild, DropTools, Goto, TypeOK
<1>7. ASSUME NEW t \in Task, RefreshBlocked(t)
     PROVE  AtLeast(snapshot'[Home[u]], goal'[u])
  BY <1>0, <1>a, <1>7 DEF RefreshBlocked, StartBuild, Goto, TypeOK
<1>8. ASSUME NEW t \in Task, InvalidateTools(t)
     PROVE  AtLeast(snapshot'[Home[u]], goal'[u])
  BY <1>0, <1>a, <1>8 DEF InvalidateTools, DropTools, Goto, TypeOK
<1>9. ASSUME NEW t \in Task, FetchTable(t)
     PROVE  AtLeast(snapshot'[Home[u]], goal'[u])
  BY <1>0, <1>a, <1>9 DEF FetchTable, TakeRow, TypeOK
<1>10. ASSUME NEW t \in Task, Publish(t)
     PROVE  AtLeast(snapshot'[Home[u]], goal'[u])
  <2>1. CASE t = u
    <3>1. /\ snapshot'[Home[u]] = raw[Home[u]] /\ goal' = goal
          /\ \A k \in Table : k < cursor[Home[u]]
      BY <1>0, <1>a, <1>10, <2>1 DEF Publish, TypeOK, Table
    <3>2. Refreshing(u)
      BY <1>0, <1>a, <1>10, <2>1
         DEF Publish, Goto, Refreshing, Building, TypeOK
    <3>3. QED
      BY <3>1, <3>2 DEF CoverInv, Covers, AtLeast
  <2>2. CASE t # u
    <3>1. pc[u] = "done" /\ goal'[u] = goal[u]
      BY <1>0, <1>a, <1>10, <2>2 DEF Publish, Goto, TypeOK
    <3>2. AtLeast(snapshot'[Home[u]], snapshot[Home[u]])
      BY <1>0, <1>a, <1>10, SnapshotMonotone
    <3>3. AtLeast(snapshot[Home[u]], goal[u])
      BY <3>1 DEF ReadYourWrites
    <3>4. /\ snapshot'[Home[u]] \in [Table -> Version]
          /\ snapshot[Home[u]] \in [Table -> Version]
          /\ goal[u] \in [Table -> Version]
      BY <1>0, <1>a, <1>10, HomeType DEF Publish, TypeOK
    <3>5. QED
      BY <3>1, <3>2, <3>3, <3>4, VersionOrder DEF AtLeast
  <2>3. QED
    BY <2>1, <2>2
<1>11. ASSUME NEW t \in Task, Respond(t)
     PROVE  AtLeast(snapshot'[Home[u]], goal'[u])
  BY <1>0, <1>a, <1>11 DEF Respond, Goto, TypeOK
<1>12. ASSUME NEW t \in Task, BuildFails(t)
     PROVE  AtLeast(snapshot'[Home[u]], goal'[u])
  BY <1>0, <1>a, <1>12 DEF BuildFails, Goto, TypeOK
<1>13. ASSUME NEW t \in Task, ToolsCached(t)
     PROVE  AtLeast(snapshot'[Home[u]], goal'[u])
  BY <1>0, <1>a, <1>13 DEF ToolsCached, AtTools, TakeRow, TypeOK
<1>14. ASSUME NEW t \in Task, ToolsFilled(t)
     PROVE  AtLeast(snapshot'[Home[u]], goal'[u])
  BY <1>0, <1>a, <1>14 DEF ToolsFilled, TakeRow, Goto, TypeOK
<1>15. ASSUME NEW t \in Task, ListFilled(t)
     PROVE  AtLeast(snapshot'[Home[u]], goal'[u])
  BY <1>0, <1>a, <1>15 DEF ListFilled, Goto, TypeOK
<1>16. ASSUME NEW t \in Task, ToolsAnswer(t)
     PROVE  AtLeast(snapshot'[Home[u]], goal'[u])
  BY <1>0, <1>a, <1>16 DEF ToolsAnswer, Goto, TypeOK
<1>17. ASSUME NEW t \in Task, ToolsStore(t)
     PROVE  AtLeast(snapshot'[Home[u]], goal'[u])
  BY <1>0, <1>a, <1>17 DEF ToolsStore, StoreTools, TakeRow, Goto, TypeOK
<1>18. ASSUME NEW t \in Task, ListStore(t)
     PROVE  AtLeast(snapshot'[Home[u]], goal'[u])
  BY <1>0, <1>a, <1>18 DEF ListStore, StoreTools, Goto, TypeOK
<1>19. ASSUME NEW t \in Task, ToolsFail(t)
     PROVE  AtLeast(snapshot'[Home[u]], goal'[u])
  BY <1>0, <1>a, <1>19 DEF ToolsFail, Goto, TypeOK
<1>20. ASSUME NEW t \in Task, ListFails(t)
     PROVE  AtLeast(snapshot'[Home[u]], goal'[u])
  BY <1>0, <1>a, <1>20 DEF ListFails, Goto, TypeOK
<1>21. ASSUME NEW w \in Worker, ToolsExpire(w)
     PROVE  AtLeast(snapshot'[Home[u]], goal'[u])
  BY <1>0, <1>a, <1>21 DEF ToolsExpire, TypeOK
<1>22. ASSUME NEW w \in Worker, WorkerRestart(w)
     PROVE  AtLeast(snapshot'[Home[u]], goal'[u])
  BY <1>0, <1>a, <1>22 DEF WorkerRestart, TypeOK
<1>23. ASSUME NEW t \in Task, AtTools(t), ToolsQueue(t, mode[t])
     PROVE  AtLeast(snapshot'[Home[u]], goal'[u])
  BY <1>0, <1>a, <1>23 DEF AtTools, ToolsQueue, Goto, For, TypeOK
<1>24. ASSUME NEW t \in Task, AtTools(t), ToolsLock(t, mode[t])
     PROVE  AtLeast(snapshot'[Home[u]], goal'[u])
  BY <1>0, <1>a, <1>24 DEF AtTools, ToolsLock, Goto, For, TypeOK
<1>25. ASSUME NEW t \in Task, pc[t] = "wait", ToolsLock(t, mode[t])
     PROVE  AtLeast(snapshot'[Home[u]], goal'[u])
  BY <1>0, <1>a, <1>25 DEF ToolsLock, Goto, For, TypeOK
<1>26. ASSUME NEW t \in Task, pc[t] = "idle", ToolsLock(t, "list")
     PROVE  AtLeast(snapshot'[Home[u]], goal'[u])
  BY <1>0, <1>a, <1>26 DEF ToolsLock, Goto, For, TypeOK
<1>27. ASSUME NEW t \in Task, pc[t] = "idle", ToolsQueue(t, "list")
     PROVE  AtLeast(snapshot'[Home[u]], goal'[u])
  BY <1>0, <1>a, <1>27 DEF ToolsQueue, Goto, For, TypeOK
<1>28. CASE UNCHANGED vars
  BY <1>0, <1>a, <1>28 DEF vars, TypeOK
<1>29. QED
  BY <1>1, <1>2, <1>3, <1>4, <1>5, <1>6, <1>7, <1>8, <1>9, <1>10, <1>11, <1>12,
     <1>13, <1>14, <1>15, <1>16, <1>17, <1>18, <1>19, <1>20, <1>21, <1>22,
     <1>23, <1>24, <1>25, <1>26, <1>27, <1>28
     DEF Next, TaskNext, Write, LockTools, ListTools, Enter, Proceed,
         TakeToolLock

(* Every step keeps QuietWorkerCurrent.                                    *)
LEMMA QuietStep ==
  ASSUME TypeOK, LockInv, CoverInv, QuietWorkerCurrent, [Next]_vars
  PROVE  QuietWorkerCurrent'
<1> DEFINE Quiet(v) == ~lapsed[v] /\ \A t \in Task : Home[t] = v => ~Pending(t)
<1> SUFFICES ASSUME NEW v \in Worker, Quiet(v)'
             PROVE  AtLeast(snapshot'[v], local'[v])
  BY DEF QuietWorkerCurrent, AtLeast
<1>0. ASSUME Quiet(v), local'[v] = local[v], snapshot'[v] = snapshot[v]
      PROVE  AtLeast(snapshot'[v], local'[v])
  BY <1>0 DEF QuietWorkerCurrent
<1>1. ASSUME NEW t \in Task, NEW k \in Table,
            NEW next \in {"writing", "enter"},
            AdminWrite(t, k, next)
     PROVE  AtLeast(snapshot'[v], local'[v])
  BY <1>0, <1>1 DEF AdminWrite, Goto, For, TypeOK, LockInv, Pending, Building
<1>2. ASSUME NEW t \in Task, AdminAbort(t)
     PROVE  AtLeast(snapshot'[v], local'[v])
  BY <1>0, <1>2 DEF AdminAbort, Goto, TypeOK, LockInv, Pending, Building
<1>3. ASSUME NEW t \in Task, LoadCall(t) PROVE AtLeast(snapshot'[v], local'[v])
  BY <1>0, <1>3 DEF LoadCall, Goto, For, TypeOK, LockInv, Pending, Building
<1>4. ASSUME NEW t \in Task, LoadSkip(t) PROVE AtLeast(snapshot'[v], local'[v])
  BY <1>0, <1>4 DEF LoadSkip, Goto, TypeOK, LockInv, Pending, Building
<1>5. ASSUME NEW t \in Task, LoadBegin(t)
     PROVE  AtLeast(snapshot'[v], local'[v])
  BY <1>0, <1>5
     DEF LoadBegin, StartBuild, Goto, TypeOK, LockInv, Pending, Building
<1>6. ASSUME NEW t \in Task, RefreshBegin(t)
     PROVE  AtLeast(snapshot'[v], local'[v])
  BY <1>0, <1>6
     DEF RefreshBegin, StartBuild, DropTools, Goto, TypeOK, LockInv, Pending,
         Building
<1>7. ASSUME NEW t \in Task, RefreshBlocked(t)
     PROVE  AtLeast(snapshot'[v], local'[v])
  BY <1>0, <1>7
     DEF RefreshBlocked, StartBuild, Goto, TypeOK, LockInv, Pending, Building
<1>8. ASSUME NEW t \in Task, InvalidateTools(t)
     PROVE  AtLeast(snapshot'[v], local'[v])
  BY <1>0, <1>8
     DEF InvalidateTools, DropTools, Goto, TypeOK, LockInv, Pending, Building
<1>9. ASSUME NEW t \in Task, FetchTable(t)
     PROVE  AtLeast(snapshot'[v], local'[v])
  BY <1>0, <1>9 DEF FetchTable, TakeRow, TypeOK, LockInv, Pending, Building
<1>10. ASSUME NEW t \in Task, Publish(t) PROVE AtLeast(snapshot'[v], local'[v])
  <2>1. CASE Home[t] = v /\ mode[t] = "refresh"
    <3>1. /\ snapshot'[v] = raw[v] /\ local' = local /\ lapsed' = lapsed
          /\ \A k \in Table : k < cursor[v]
      BY <1>0, <1>10, <2>1 DEF Publish, TypeOK, Table
    <3>2. Refreshing(t)
      BY <1>0, <1>10, <2>1 DEF Publish, Refreshing, Building
    <3>3. ~OtherPending(t) /\ ~lapsed[v]
      BY <1>0, <1>10, <2>1, <3>1
         DEF Publish, Goto, OtherPending, Pending, Building, TypeOK
    <3>4. Covers(v, local[v])
      BY <2>1, <3>2, <3>3 DEF CoverInv
    <3>5. QED
      BY <3>1, <3>4 DEF Covers, AtLeast
  <2>2. CASE ~(Home[t] = v /\ mode[t] = "refresh")
    <3>1. Quiet(v) /\ local' = local
      BY <1>0, <1>10, <2>2 DEF Publish, Goto, Pending, Building, TypeOK
    <3>2. AtLeast(snapshot[v], local[v])
      BY <3>1 DEF QuietWorkerCurrent
    <3>3. AtLeast(snapshot'[v], snapshot[v])
      BY <1>0, <1>10, SnapshotMonotone
    <3>4. /\ snapshot'[v] \in [Table -> Version]
          /\ snapshot[v] \in [Table -> Version]
          /\ local[v] \in [Table -> Version]
      BY <1>0, <1>10, HomeType DEF Publish, TypeOK
    <3>5. QED
      BY <3>1, <3>2, <3>3, <3>4, VersionOrder DEF AtLeast
  <2>3. QED
    BY <2>1, <2>2
<1>11. ASSUME NEW t \in Task, Respond(t) PROVE AtLeast(snapshot'[v], local'[v])
  BY <1>0, <1>11 DEF Respond, Goto, TypeOK, LockInv, Pending, Building
<1>12. ASSUME NEW t \in Task, BuildFails(t)
     PROVE  AtLeast(snapshot'[v], local'[v])
  <2>1. CASE Home[t] = v /\ mode[t] = "refresh"
    <3>1. lapsed'[v] = TRUE
      BY <1>12, <2>1 DEF BuildFails, TypeOK
    <3>2. QED
      BY <3>1
  <2>2. CASE ~(Home[t] = v /\ mode[t] = "refresh")
    <3>1. /\ local' = local /\ snapshot' = snapshot
          /\ \A w \in Worker : w = v => lapsed'[w] = lapsed[w]
      BY <1>12, <2>2 DEF BuildFails, TypeOK
    <3>2. Quiet(v)
      BY <1>12, <2>2, <3>1
         DEF BuildFails, Goto, Pending, Building, TypeOK, LockInv
    <3>3. QED
      BY <1>0, <3>1, <3>2
  <2>3. QED
    BY <2>1, <2>2
<1>13. ASSUME NEW t \in Task, ToolsCached(t)
     PROVE  AtLeast(snapshot'[v], local'[v])
  BY <1>0, <1>13
     DEF ToolsCached, AtTools, TakeRow, TypeOK, LockInv, Pending, Building
<1>14. ASSUME NEW t \in Task, ToolsFilled(t)
     PROVE  AtLeast(snapshot'[v], local'[v])
  BY <1>0, <1>14
     DEF ToolsFilled, TakeRow, Goto, TypeOK, LockInv, Pending, Building
<1>15. ASSUME NEW t \in Task, ListFilled(t)
     PROVE  AtLeast(snapshot'[v], local'[v])
  BY <1>0, <1>15 DEF ListFilled, Goto, TypeOK, LockInv, Pending, Building
<1>16. ASSUME NEW t \in Task, ToolsAnswer(t)
     PROVE  AtLeast(snapshot'[v], local'[v])
  BY <1>0, <1>16 DEF ToolsAnswer, Goto, TypeOK, LockInv, Pending, Building
<1>17. ASSUME NEW t \in Task, ToolsStore(t)
     PROVE  AtLeast(snapshot'[v], local'[v])
  BY <1>0, <1>17
     DEF ToolsStore, StoreTools, TakeRow, Goto, TypeOK, LockInv, Pending,
         Building
<1>18. ASSUME NEW t \in Task, ListStore(t)
     PROVE  AtLeast(snapshot'[v], local'[v])
  BY <1>0, <1>18
     DEF ListStore, StoreTools, Goto, TypeOK, LockInv, Pending, Building
<1>19. ASSUME NEW t \in Task, ToolsFail(t)
     PROVE  AtLeast(snapshot'[v], local'[v])
  <2>1. CASE Home[t] = v /\ mode[t] = "refresh"
    <3>1. lapsed'[v] = TRUE
      BY <1>19, <2>1 DEF ToolsFail, TypeOK
    <3>2. QED
      BY <3>1
  <2>2. CASE ~(Home[t] = v /\ mode[t] = "refresh")
    <3>1. /\ local' = local /\ snapshot' = snapshot
          /\ \A w \in Worker : w = v => lapsed'[w] = lapsed[w]
      BY <1>19, <2>2 DEF ToolsFail, TypeOK
    <3>2. Quiet(v)
      BY <1>19, <2>2, <3>1
         DEF ToolsFail, Goto, Pending, Building, TypeOK, LockInv
    <3>3. QED
      BY <1>0, <3>1, <3>2
  <2>3. QED
    BY <2>1, <2>2
<1>20. ASSUME NEW t \in Task, ListFails(t)
     PROVE  AtLeast(snapshot'[v], local'[v])
  BY <1>0, <1>20 DEF ListFails, Goto, TypeOK, LockInv, Pending, Building
<1>21. ASSUME NEW w \in Worker, ToolsExpire(w)
     PROVE  AtLeast(snapshot'[v], local'[v])
  BY <1>0, <1>21 DEF ToolsExpire, TypeOK, LockInv, Pending, Building
<1>22. ASSUME NEW w \in Worker, WorkerRestart(w)
     PROVE  AtLeast(snapshot'[v], local'[v])
  <2>1. CASE w = v
    <3>1. local'[v] = Empty /\ snapshot'[v] = Empty
      BY <1>0, <1>22, <2>1 DEF WorkerRestart, TypeOK
    <3>2. QED
      BY <3>1 DEF AtLeast, Empty, NoVersion
  <2>2. CASE w # v
    BY <1>0, <1>22, <2>2 DEF WorkerRestart, Pending, Building, TypeOK
  <2>3. QED
    BY <2>1, <2>2
<1>23. ASSUME NEW t \in Task, AtTools(t), ToolsQueue(t, mode[t])
     PROVE  AtLeast(snapshot'[v], local'[v])
  BY <1>0, <1>23
     DEF AtTools, ToolsQueue, Goto, For, TypeOK, LockInv, Pending, Building
<1>24. ASSUME NEW t \in Task, AtTools(t), ToolsLock(t, mode[t])
     PROVE  AtLeast(snapshot'[v], local'[v])
  BY <1>0, <1>24
     DEF AtTools, ToolsLock, Goto, For, TypeOK, LockInv, Pending, Building
<1>25. ASSUME NEW t \in Task, pc[t] = "wait", ToolsLock(t, mode[t])
     PROVE  AtLeast(snapshot'[v], local'[v])
  BY <1>0, <1>25 DEF ToolsLock, Goto, For, TypeOK, LockInv, Pending, Building
<1>26. ASSUME NEW t \in Task, pc[t] = "idle", ToolsLock(t, "list")
     PROVE  AtLeast(snapshot'[v], local'[v])
  BY <1>0, <1>26 DEF ToolsLock, Goto, For, TypeOK, LockInv, Pending, Building
<1>27. ASSUME NEW t \in Task, pc[t] = "idle", ToolsQueue(t, "list")
     PROVE  AtLeast(snapshot'[v], local'[v])
  BY <1>0, <1>27 DEF ToolsQueue, Goto, For, TypeOK, LockInv, Pending, Building
<1>28. CASE UNCHANGED vars
  BY <1>0, <1>28 DEF vars, TypeOK, LockInv, Pending, Building
<1>29. QED
  BY <1>1, <1>2, <1>3, <1>4, <1>5, <1>6, <1>7, <1>8, <1>9, <1>10, <1>11, <1>12,
     <1>13, <1>14, <1>15, <1>16, <1>17, <1>18, <1>19, <1>20, <1>21, <1>22,
     <1>23, <1>24, <1>25, <1>26, <1>27, <1>28
     DEF Next, TaskNext, Write, LockTools, ListTools, Enter, Proceed,
         TakeToolLock

-----------------------------------------------------------------------------
(* The inductive invariant holds at the start.                             *)
LEMMA InitIInv == Init => IInv
<1> SUFFICES ASSUME Init PROVE IInv
  OBVIOUS
<1>1. TypeOK
  BY TableAssumption
     DEF Init, TypeOK, Empty, Version, NoVersion, Pcs, Modes
<1>2. LockInv /\ ReadYourWrites
  BY DEF Init, LockInv, Building, ReadYourWrites
<1>3. AtLeast(db, Empty)
  BY EmptyIsLeast DEF Init, TypeOK, Version
<1>4. BoundInv
  <2>1. \A w \in Worker :
          toolCache[w] <= db[Tools] /\ toolRaw[w] <= db[Tools]
    <3>1. db[Tools] = 0
      BY ToolsType DEF Init
    <3>2. NoVersion <= db[Tools]
      BY <3>1 DEF NoVersion
    <3>3. \A w \in Worker : toolCache[w] = NoVersion /\ toolRaw[w] = NoVersion
      BY Zenon DEF Init
    <3>4. QED
      BY <3>2, <3>3, Zenon
  <2>2. QED
    BY <1>3, <2>1 DEF Init, BoundInv
<1>5. /\ \A w \in Worker : cursor[w] = 1 /\ toolCache[w] = NoVersion
      /\ \A t \in Task : pc[t] = "idle"
  BY DEF Init
<1>6. ToolOrderInv /\ CoverInv
  BY <1>5, TableStart, ToolsType
     DEF ToolOrderInv, CoverInv, Covers, Refreshing, Building
<1>7. QuietWorkerCurrent
  BY DEF Init, QuietWorkerCurrent, AtLeast, Empty, NoVersion
<1>8. QED
  BY <1>1, <1>2, <1>4, <1>6, <1>7 DEF IInv, BuildInv

(* Every step keeps the inductive invariant.                               *)
LEMMA NextIInv == IInv /\ [Next]_vars => IInv'
<1> SUFFICES ASSUME IInv, [Next]_vars PROVE IInv'
  OBVIOUS
<1>1. /\ TypeOK /\ LockInv /\ BoundInv /\ ToolOrderInv /\ CoverInv
      /\ ReadYourWrites /\ QuietWorkerCurrent
  BY DEF IInv, BuildInv
<1>2. TypeOK' /\ LockInv' /\ BoundInv' /\ ToolOrderInv'
  BY <1>1, TypeStep, LockStep, BoundStep, ToolOrderStep
<1>3. CoverInv'
  <2>1. \A v \in Worker : Covers(v, snapshot[v])'
    BY <1>1, <1>2, SnapshotCover
  <2>2. ASSUME NEW u \in Task, Refreshing(u)'
        PROVE  /\ Covers(Home[u], goal[u])'
               /\ (\/ lapsed[Home[u]] \/ OtherPending(u)
                   \/ Covers(Home[u], local[Home[u]]))'
    BY <1>1, <1>2, <2>2, GoalCover, LocalCover
  <2>3. QED
    BY <2>1, <2>2 DEF CoverInv
<1>4. ReadYourWrites' /\ QuietWorkerCurrent'
  BY <1>1, ReadYourWritesStep, QuietStep
<1>5. QED
  BY <1>2, <1>3, <1>4 DEF IInv, BuildInv

(* The inductive invariant always holds.                                   *)
LEMMA Invariance == Spec => []IInv
  BY InitIInv, NextIInv, PTL DEF Spec

(* The state of every worker and handler is always of its declared type:   *)
(* the cursor of _fetch_raw_data stays within the tables it reads, and     *)
(* both locks are free or held by one handler.                             *)
THEOREM TypeCorrect == Spec => []TypeOK
  BY Invariance, PTL DEF IInv, BuildInv

(* The answer of an admin handler whose refresh() returned is never ahead  *)
(* of the snapshot of its worker: with any number of handlers, tables and  *)
(* workers, the snapshot holds every write the handler made.               *)
THEOREM ReadYourWritesHolds == Spec => []ReadYourWrites
  BY Invariance, PTL DEF IInv, BuildInv

(* A worker with no write waiting for its refresh, and none whose refresh  *)
(* was lost to an exception, serves everything written through it.         *)
THEOREM QuietWorkerCurrentHolds == Spec => []QuietWorkerCurrent
  BY Invariance, PTL DEF IInv, BuildInv

(* Every step of the cache is a step of the monotone view or a stutter.    *)
LEMMA ViewStep ==
  ASSUME IInv, [Next]_vars PROVE [View!Next]_<<db, snapshot>>
<1>a. /\ TypeOK /\ BoundInv /\ CoverInv
      /\ View!Table = Table /\ View!Empty = Empty
  BY DEF IInv, BuildInv, View!Table, Table, View!Empty, Empty, View!NoVersion, NoVersion
<1> DEFINE Goal == [View!Next]_<<db, snapshot>>
<1>0. ASSUME db' = db, snapshot' = snapshot PROVE Goal
  BY <1>0
<1> SUFFICES Goal
  OBVIOUS
<1> HIDE DEF Goal
<1>1. ASSUME NEW t \in Task, NEW k \in Table,
            NEW next \in {"writing", "enter"},
            AdminWrite(t, k, next)
     PROVE  Goal
  <2>1. View!Commit(k)
    BY <1>0, <1>1 DEF AdminWrite, View!Commit
  <2>2. QED
    BY <1>0, <1>a, <2>1 DEF Goal, View!Next
<1>2. ASSUME NEW t \in Task, AdminAbort(t) PROVE Goal
  BY <1>0, <1>2 DEF AdminAbort, Goto
<1>3. ASSUME NEW t \in Task, LoadCall(t) PROVE Goal
  BY <1>0, <1>3 DEF LoadCall, Goto, For
<1>4. ASSUME NEW t \in Task, LoadSkip(t) PROVE Goal
  BY <1>0, <1>4 DEF LoadSkip, Goto
<1>5. ASSUME NEW t \in Task, LoadBegin(t) PROVE Goal
  BY <1>0, <1>5 DEF LoadBegin, StartBuild, Goto
<1>6. ASSUME NEW t \in Task, RefreshBegin(t) PROVE Goal
  BY <1>0, <1>6 DEF RefreshBegin, StartBuild, DropTools, Goto
<1>7. ASSUME NEW t \in Task, RefreshBlocked(t) PROVE Goal
  BY <1>0, <1>7 DEF RefreshBlocked, StartBuild, Goto
<1>8. ASSUME NEW t \in Task, InvalidateTools(t) PROVE Goal
  BY <1>0, <1>8 DEF InvalidateTools, DropTools, Goto
<1>9. ASSUME NEW t \in Task, FetchTable(t) PROVE Goal
  BY <1>0, <1>9 DEF FetchTable, TakeRow
<1>10. ASSUME NEW t \in Task, Publish(t) PROVE Goal
  <2> DEFINE w == Home[t]
  <2>1. /\ w \in Worker /\ snapshot'[w] = raw[w] /\ db' = db
        /\ snapshot' = [snapshot EXCEPT ![w] = snapshot'[w]]
    BY <1>0, <1>a, <1>10, HomeType DEF Publish, TypeOK
  <2>2. AtLeast(snapshot'[w], snapshot[w])
    BY <1>0, <1>a, <1>10, <2>1, SnapshotMonotone
  <2>3. AtLeast(db, snapshot'[w])
    BY <1>0, <1>a, <2>1 DEF BoundInv
  <2>4. \A k \in Table :
          snapshot[w][k] <= snapshot'[w][k] /\ snapshot'[w][k] <= db[k]
    <3> SUFFICES ASSUME NEW k \in Table
                 PROVE  snapshot[w][k] <= raw[w][k] /\ raw[w][k] <= db[k]
      BY <2>1
    <3>1. raw[w][k] >= snapshot[w][k] /\ db[k] >= raw[w][k]
      BY <2>1, <2>2, <2>3 DEF AtLeast
    <3>2. raw[w][k] \in Int /\ snapshot[w][k] \in Int /\ db[k] \in Int
      BY <1>0, <1>a, <2>1, VersionOrder DEF TypeOK
    <3>3. QED
      BY <3>1, <3>2
  <2>5. View!Advance(w)
    BY <1>0, <1>a, <2>1, <2>4 DEF View!Advance
  <2>6. QED
    BY <2>1, <2>5 DEF Goal, View!Next
<1>11. ASSUME NEW t \in Task, Respond(t) PROVE Goal
  BY <1>0, <1>11 DEF Respond, Goto
<1>12. ASSUME NEW t \in Task, BuildFails(t) PROVE Goal
  BY <1>0, <1>12 DEF BuildFails, Goto
<1>13. ASSUME NEW t \in Task, ToolsCached(t) PROVE Goal
  BY <1>0, <1>13 DEF ToolsCached, AtTools, TakeRow
<1>14. ASSUME NEW t \in Task, ToolsFilled(t) PROVE Goal
  BY <1>0, <1>14 DEF ToolsFilled, TakeRow, Goto
<1>15. ASSUME NEW t \in Task, ListFilled(t) PROVE Goal
  BY <1>0, <1>15 DEF ListFilled, Goto
<1>16. ASSUME NEW t \in Task, ToolsAnswer(t) PROVE Goal
  BY <1>0, <1>16 DEF ToolsAnswer, Goto
<1>17. ASSUME NEW t \in Task, ToolsStore(t) PROVE Goal
  BY <1>0, <1>17 DEF ToolsStore, StoreTools, TakeRow, Goto
<1>18. ASSUME NEW t \in Task, ListStore(t) PROVE Goal
  BY <1>0, <1>18 DEF ListStore, StoreTools, Goto
<1>19. ASSUME NEW t \in Task, ToolsFail(t) PROVE Goal
  BY <1>0, <1>19 DEF ToolsFail, Goto
<1>20. ASSUME NEW t \in Task, ListFails(t) PROVE Goal
  BY <1>0, <1>20 DEF ListFails, Goto
<1>21. ASSUME NEW w \in Worker, ToolsExpire(w) PROVE Goal
  BY <1>0, <1>21 DEF ToolsExpire
<1>22. ASSUME NEW w \in Worker, WorkerRestart(w) PROVE Goal
  <2>1. View!Forget(w)
    BY <1>0, <1>a, <1>22 DEF WorkerRestart, View!Forget
  <2>2. QED
    BY <2>1 DEF Goal, View!Next
<1>23. ASSUME NEW t \in Task, AtTools(t), ToolsQueue(t, mode[t]) PROVE Goal
  BY <1>0, <1>23 DEF AtTools, ToolsQueue, Goto, For
<1>24. ASSUME NEW t \in Task, AtTools(t), ToolsLock(t, mode[t]) PROVE Goal
  BY <1>0, <1>24 DEF AtTools, ToolsLock, Goto, For
<1>25. ASSUME NEW t \in Task, pc[t] = "wait", ToolsLock(t, mode[t]) PROVE Goal
  BY <1>0, <1>25 DEF ToolsLock, Goto, For
<1>26. ASSUME NEW t \in Task, pc[t] = "idle", ToolsLock(t, "list") PROVE Goal
  BY <1>0, <1>26 DEF ToolsLock, Goto, For
<1>27. ASSUME NEW t \in Task, pc[t] = "idle", ToolsQueue(t, "list") PROVE Goal
  BY <1>0, <1>27 DEF ToolsQueue, Goto, For
<1>28. CASE UNCHANGED vars
  BY <1>0, <1>28 DEF vars
<1>29. QED
  BY <1>1, <1>2, <1>3, <1>4, <1>5, <1>6, <1>7, <1>8, <1>9, <1>10, <1>11, <1>12,
     <1>13, <1>14, <1>15, <1>16, <1>17, <1>18, <1>19, <1>20, <1>21, <1>22,
     <1>23, <1>24, <1>25, <1>26, <1>27, <1>28
     DEF Next, TaskNext, Write, LockTools, ListTools, Enter, Proceed,
         TakeToolLock

(* The cache implements the abstract view: no interleaving of rebuilds,    *)
(* failures, listings and restarts takes a worker back to older rows of a  *)
(* table or ahead of the database.                                         *)
THEOREM CacheImplementsView == Spec => ServesMonotoneView
<1>1. Init => View!Init
  BY DEF Init, View!Init, View!Table, Table, View!Empty, Empty,
         View!NoVersion, NoVersion
<1>2. IInv /\ [Next]_vars => [View!Next]_<<db, snapshot>>
  BY ViewStep
<1>3. QED
  BY <1>1, <1>2, Invariance, PTL DEF Spec, ServesMonotoneView, View!Spec
=============================================================================

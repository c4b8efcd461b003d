\* Two handlers of one worker, three tables with the tools in the middle.
CONSTANTS
  w1 = w1
  t1 = t1
  t2 = t2
  Worker = {w1}
  Task = {t1, t2}
  Home <- OneWorker
  NoTask = NoTask
  TableCount = 3
  Tools = 2
  MaxWrites = 1
SPECIFICATION FairSpec
INVARIANTS TypeOK ReadYourWrites QuietWorkerCurrent
PROPERTIES ServesMonotoneView RefreshEnds
CHECK_DEADLOCK FALSE

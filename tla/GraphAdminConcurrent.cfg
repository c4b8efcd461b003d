\* Two handlers of one worker, no failures.
CONSTANTS
  w1 = w1
  n1 = n1
  n2 = n2
  n3 = n3
  s1 = s1
  s2 = s2
  s3 = s3
  Worker = {w1}
  Task = {t1, t2}
  Home <- OneWorker
  NoTask = NoTask
  NodeId = {n1, n2}
  Slug = {s1, s2}
  NoSlug = NoSlug
  InitSlug <- OneSlug
  InitActive = {n1}
  MaxEdges = 1
  MaxRows = 0
  CanFail = FALSE
SYMMETRY HandlerSymmetry
SPECIFICATION Spec
INVARIANTS CacheMatchesDatabase
CHECK_DEADLOCK FALSE

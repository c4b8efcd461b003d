\* One handler, no failures: three active nodes, three slugs, three edges.
CONSTANTS
  w1 = w1
  n1 = n1
  n2 = n2
  n3 = n3
  s1 = s1
  s2 = s2
  s3 = s3
  Worker = {w1}
  Task = {t1}
  Home <- OneWorker
  NoTask = NoTask
  NodeId = {n1, n2, n3}
  Slug = {s1, s2, s3}
  NoSlug = NoSlug
  InitSlug <- FirstSlug
  InitActive = {n1, n2, n3}
  MaxEdges = 3
  MaxRows = 0
  CanFail = FALSE
SPECIFICATION Spec
INVARIANTS VisibleAcyclic UniqueSlugs
CHECK_DEADLOCK FALSE

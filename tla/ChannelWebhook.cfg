\* Two handlers in two workers; a text, and an update of any content;
\* failures and restarts.
CONSTANTS
  w1 = w1
  w2 = w2
  t3 = t3
  u1 = u1
  Worker = {w1, w2}
  Task = {t1, t3}
  Home <- TwoWorkers
  Update = {u1, u2}
  NoUpdate = NoUpdate
  Inputs <- TextAndAny
  MaxParts = 2
  CanFail = TRUE
SPECIFICATION FairSpec
INVARIANTS TypeOK CompletedIsAnswered AckedIsClaimed
PROPERTIES AtMostOnce ClaimedIsSettled
CHECK_DEADLOCK FALSE

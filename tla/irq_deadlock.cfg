SPECIFICATION Spec
CONSTANTS
  t1 = t1
  t2 = t2
  t3 = t3
  Threads = {t1, t2}
  ThreadOps = {"send", "recv"}
  IsrOps = {"hot_new", "hot_kept", "hot_refused", "reclaim", "anomaly", "traced", "active"}
  MaxDecisions = 1
CHECK_DEADLOCK FALSE
INVARIANTS IsrNeverSpins

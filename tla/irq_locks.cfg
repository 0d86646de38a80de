SPECIFICATION FairSpec
CONSTANTS
  t1 = t1
  t2 = t2
  t3 = t3
  Threads = {t1, t2, t3}
  ThreadOps = {"send", "recv", "ensure_channel", "drop_channel", "dump", "heap_alloc"}
  IsrOps = {"hot_new", "hot_kept", "hot_refused", "reclaim", "anomaly", "traced", "active"}
  MaxDecisions = 1
CHECK_DEADLOCK FALSE
INVARIANTS NoCircularWait
PROPERTIES IsrReturns

SPECIFICATION Spec
CONSTANTS
  Worker = {w1, w2}
  Org = {oa}
  MaxJob = 1
  MaxAttempts = 1
  BatchSize = 1
  Concurrency = 1
  BaseBackoff = 0
  MaxRequeue = 1
INVARIANTS
  JobStaysFindable
CHECK_DEADLOCK FALSE

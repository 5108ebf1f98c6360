SPECIFICATION ProgressSpec
CONSTANTS
  Worker = {w1, w2}
  Org = {oa}
  MaxJob = 1
  MaxAttempts = 3
  BatchSize = 1
  Concurrency = 1
  BaseBackoff = 1
  MaxRequeue = 0
  Memory = {m1, m2}
  Page = {home}
  Digest = {}
  Composer = {composer}
  Actor = {reviewer}
  Sees <- SeesAll
  Bind <- BindAll
  MaxCompose = 7
  MaxTouch = 1
PROPERTIES
  ImplementsLifecycle
  Settles
  Converges
CHECK_DEADLOCK FALSE

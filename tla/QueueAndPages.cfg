SPECIFICATION PartsSpec
CONSTANTS
  Parts = {"pages", "duel", "backlog"}
  x1 = x1
  oa = oa
  Worker = {x1, x2, x3}
  Org = {oa, ob}
  MaxJob = 3
  MaxAttempts = 3
  BatchSize = 2
  Concurrency = 1
  BaseBackoff = 1
  MaxRequeue = 1
  home = home
  digest = digest
  team = team
  insider = insider
  outsider = outsider
  m1 = m1
  m2 = m2
  Memory = {m1, m2}
  Page = {home, digest}
  Digest = {digest}
  Composer = {w1}
  Actor = {insider}
  Sees <- SeesAll
  Bind <- BindAll
  MaxCompose = 3
  MaxTouch = 2
SYMMETRY Sym
INVARIANTS
  NoDoubleClaim
  DeliveryBudget
  KeptUnlessRequeued
  CleanTracksDeps
  FirstIsSigned
PROPERTIES
  FairRanking
  StandingIsPropagated
  ImplementsFreshness
CHECK_DEADLOCK FALSE

SPECIFICATION PartsSpec
CONSTANTS
  Parts = {"pages"}
  x1 = x1
  oa = oa
  Worker = {x1}
  Org = {oa}
  MaxJob = 1
  MaxAttempts = 1
  BatchSize = 1
  Concurrency = 1
  BaseBackoff = 1
  MaxRequeue = 0
  home = home
  digest = digest
  team = team
  insider = insider
  outsider = outsider
  m1 = m1
  m2 = m2
  Memory = {m1, m2}
  Page = {home}
  Digest = {}
  Composer = {w1}
  Actor = {insider}
  Sees <- SeesAll
  Bind <- BindAll
  MaxCompose = 2
  MaxTouch = 0
SYMMETRY Sym
INVARIANTS
  CleanCitesStanding
CHECK_DEADLOCK FALSE

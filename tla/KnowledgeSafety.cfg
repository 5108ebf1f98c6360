SPECIFICATION KnowledgeSpec
CONSTANTS
  MaxMemory = 3
  MaxDispute = 3
  MaxFound = 2
  MaxSource = 2
  Request = {r1, r2}
  Client = {c1, c2}
  Harvester = {h1, h2}
  Key = {k1}
  File = {"wiki", "rules", "page"}
  Concept = {"wiki", "rules"}
  NoKey = "nokey"
  NoTeam = "none"
  WikiTeam = "w"
  Body <- MCBody
  MaxBulk = 1
  MaxStored = 3
  MaxJob = 3
  Statement <- MCStatement
  Chunks <- MCChunks
  Says <- MCSays
  About <- MCAbout
  Facets <- MCFacets
  Conflict <- MCConflict
  Near <- MCConflict
  MaxRun = 2
  MaxTries = 2
  c1 = c1
  h1 = h1
  m1 = m1
  m2 = m2
  u1 = u1
  u2 = u2
  t1 = t1
  t2 = t2
  Belief = {m1, m2}
  User = {u1, u2}
  Team = {t1, t2}
  Teamless = none
  Owner <- MCOwner
  Maintains <- MCMaintains
  Promoted = {m2}
  Engine = engine
  Nobody = nobody
  MaxPromotion = 4
  MaxClaim = 1
SYMMETRY Sym
INVARIANTS
  LedgerIsTrue
  QuestionIsKept
  NoPairDeadlock
  IntakeIsHonest
  DeliveredOnce
  KnownConflictIsHeld
  StatusIsEarned
  SupersededStaysClosed
PROPERTIES
  ImplementsLedger
  OnlyPeopleWithdraw
CHECK_DEADLOCK FALSE

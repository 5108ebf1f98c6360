SPECIFICATION MachinerySpec
CONSTANTS
  m1 = m1
  e1 = e1
  q1 = q1
  Scheduler = {s1}
  MaxLive = 2
  Cluster = {c1, c2}
  MaxId = 5
  Publisher = {p1}
  Target <- MCTarget
  Wikis <- MCWikis
  MaxRev = 3
  MaxMishap = 1
  Memory = {m1, m2}
  Canonical = {e1}
  Old = old
  New = new
  FetchSize = 1
  MaxDeaths = 1
  MaxCorpus = 2
  MaxConflict = 1
  MaxBacklog = 14
  Backlogs = {7}
  Hours <- MCHours
  DirtyHours = {2, 25}
  Grades = {0, 1, 2, 5}
  Stratum = {"semantic", "cross_team_graph"}
  Setups = {"s1"}
  OverallDelta = 1
  Delta = 2
  Margin = 5
  MaxEntity = 1
  Batch = 2
  Orgs = 2
  Requests = 2
  BackoffCap = 2
  MaxSweeps = 1
  Caller = {c1, c2}
  Threshold = 2
  MaxAttempts = 2
  Cooldown = 2
  MaxDrop = 1
  Text = {a, b, blank}
  Blank = blank
  MaxTexts = 4
  MaxBatch = 3
  Question = {q1, q2}
  Project = {j1}
  Scanner = {s1}
  ReprobeDepth = 2
  MissLimit = 2
  MaxAsks = 1
  MaxForget = 1
  MaxAbort = 1
INVARIANTS
  BooksAreTrue
  HerdHeld
PROPERTIES
  MovesAreSound
  CircuitRecovers
  DueIsDispatched
  RevisionArrives
  GapCloses
  StopsWhenAsked
CHECK_DEADLOCK FALSE

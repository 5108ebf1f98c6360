SPECIFICATION SurfaceSpec
CONSTANTS
  u1 = u1  u2 = u2  div = div  mem = mem  name = name  wd = wd  wm = wm
  any = any  none = none  o1 = o1  o2 = o2  alice = alice  bob = bob
  p1 = p1  p2 = p2  p3 = p3  e1 = e1  e2 = e2  s1 = s1  s2 = s2  s3 = s3
  w1 = w1  w2 = w2  x1 = x1  x2 = x2  m1 = m1  m2 = m2  r1 = r1
  Author = {u1, u2}
  Holders <- MCHolders
  Nobody = none
  Signal = {div, mem}
  Divergence = {div}
  Base = {name}
  BaseOf <- MCBaseOf
  Wording = {wd, wm}
  TextOf <- MCTextOf
  Stack = {any}
  General = any
  Unmarked = none
  MinRules = 2
  MaxRule = 2
  MaxRev = 2
  Skill = {k1}
  Agent = {a1, a2}
  Maintainer = {m1, m2}
  MaxVersion = 3
  MaxFetch = 1
  Org = {o1, o2}
  Admin = {alice, bob}
  OrgOf <- MCOrgOf
  Project = {p1, p2, p3}
  HomeOf <- MCHomeOf
  Prefix <- MCPrefix
  Path <- MCPath
  Pairing = {d1}
  Poller = {x1, x2}
  Nothing = none
  MaxPending = 1
  MaxRepo = 2
  MaxKey = 1
  Subject = {u1}
  Signin = {s1, s2, s3}
  SubjectOf <- MCSame
  NoOrg = none
  Page = {w1, w2}
  Filed <- MCFiled
  Editor = {e1, e2}
  MaxSave = 3
  Id = {1, 2, 3}
  Early = {1, 3}
  Time = {1, 2}
  Shape <- MCShape
  None = "none"
  Limit = 1
  MaxChanges = 2
  Cap = 2
  Sizes = {1, 2, 3}
  MaxLines = 2
  Grants <- MCGrants
  Bodies = {"blank", "garbage", "ping", "response", "no_such_tool", "memory_search", "skill_propose"}
  Repo <- MCRepo
  Whitelist <- MCWhitelist
  Paths <- MCPaths
  Note = {m1}
  LawRule = {r1}
  Unowned = none
  MostNotes = 1
  MaxEvents = 1
  Mem = {1, 2, 3}
  Since <- MCSince
  Begun <- MCBegun
  AsOf = {0, 1}
  Own = {3}
  Disputed <- MCDisputed
  Near = {1, 2, 3}
  PerRetriever = 2
  FusedPool = 2
  Floors = {"any", "candidate", "canonical"}
  TopKs = {1, 2}
  Lenses = {{1, 2, 3}, {2, 3}}
  Budget = 1
  MaxTime = 2
  MaxWrites = 2
  Item = {i1, i2, i3, i4}
  MaxList = 3
  Top = 3
  RankConstant = 60
  Handed = {"a", "b"}
  Detailed = {"b"}
  Stranger = "c"
  MaxPieces = 4
  Mention = {1, 2, 3, 4}
  ClusterId = {1, 2, 3}
  Fact = {1, 2}
  Output = {1, 2, 3}
INVARIANTS
  SecondOnlyByOverlap
  ShelvesAreSigned
  PairingIsHonoured
  SignInsAgree
  BrowsingIsComplete
  RepliesMatch
  AlgorithmsAreRight
  OverlapIsRefused
  AnswersAreGoverned
PROPERTIES
  PeopleAreHeard
  FullAndSettled
CHECK_DEADLOCK FALSE

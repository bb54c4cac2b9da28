SPECIFICATION Spec
CONSTANTS
  User = {u1, u2}
  Pass = {p1, p2}
  NoPass = NoPass
  ConfigUser = u1
  ConfigPass = p1
  Client = {c1, c2}
  Person = {u1}
  NewPass = {p1}
  Ip = {i1}
  EngineIp = e
  Token = {t1, t2}
  NoToken = NoToken
  Scope <- MCScope
  MaxFailures = 2
  Window = 1
  Lockout = 2
  Pg = TRUE
  MaxFaults = 1
  Party = {a, b}
  Challenge = {h1}
  Second = 2
  ChallengeTtl = 2
  Burst = 2
  Cost = 2
  MaxNow = 4
  MaxTrouble = 2
  Asker = {k1, k2}
  CacheTtl = 3
  Timeout = 1
  Address = {"me", "you", "near", "far"}
  Nowhere = ""
  Configured <- MCConfigured
  MaxForged = 2
  MaxHops = 3
  Arrival <- MCArrival
INVARIANTS SessionsHold AckedSurvives SignupHolds AnswersAreRecent KeyIsGenuine SenderChecked
PROPERTY LockoutEnds
CONSTRAINTS OneOrder FewEnds
CHECK_DEADLOCK FALSE

SPECIFICATION Spec
CONSTANTS
  root = root  answer = answer  bare = bare  h1 = h1  h2 = h2
  inbox = inbox  sent = sent seen = seen  NoHeader = NoHeader
  Header = {h1, h2}
  Env = {root, answer, bare}
  HeaderOf <- Headers
  RefsOf <- Refs
  Label = {inbox, sent}
  System = {inbox}
  Flag = {seen}
  MaxMsgs = 3
  Account = {a1}
  Body = {"b1", "b2"}
  Caller = {c1, c2}
  Href <- MCHref
  MaxUid = 2
  Batch <- MCBatch
  None = "none"
  Torn = "torn"
  MaxWrongs = 1
  Horizon = 3
  Msg = {m1, m2}
  Mailbox = {"drafts", "sent"}
  Keyword = {"seen"}
  Drafts = "drafts"
  Patches <- MCPatches
  JClient = {j1, j2}
  Limit = 1
  MaxFailed = 1
  Spelling = {"A@d", "A <a@d>"}
  Bare = {"A@d"}
  PlanKey <- MCPlanKey
  TenantFor <- MCTenantFor
  Sending = {s1, s2}
  MaxSendPerDay = 1
  MaxQuota = 1
  MaxBytes = 2
  MaxPerWindow = 1
  MaxDay = 1
SYMMETRY Alike
INVARIANTS MailboxAgrees RepliesJoin ImportIsThere QueryIsExact UpdatesEndWell PagingMissesNothing DailyLimits
CONSTRAINTS NoFlags OneHeld

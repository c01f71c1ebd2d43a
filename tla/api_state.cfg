SPECIFICATION ApiSpec
INVARIANT ApiTypeOK
INVARIANT SignedOutStaysOut
INVARIANT RefusedWithCause
INVARIANT EntriesExplained
INVARIANT DecisionsKept
INVARIANT OneTestRun
INVARIANT RunsExplained
INVARIANT RecordAgrees
INVARIANT CapturesExplained
INVARIANT KeystrokesKept
INVARIANT EditsAccounted
PROPERTY AdminsRemain
CONSTANTS
  Tabs = {w1, w2}  MaxTokens = 2  MaxLogins = 2  MaxAuthFaults = 1
  Requests = {h1, h2, h3, h4}  Invites = {i1, i2}
  AttemptLimit = 1  MaxEntries = 3  MaxEntryFaults = 1
  People = {q1, q2}  Bootstrap = TRUE  MaxDecisions = 3
  Replicas = {x1, x2}  MaxClicks = 2  MaxRunMishaps = 2
  MaxEdits = 2  MaxLoads = 2  MaxSaves = 3  MaxPageFaults = 1  Nothing = Nothing
  Handlers = {e1, e2, e3}  SocketEvents = {e1, e2}  KeepShots = 1  MaxLogFaults = 1
  MaxKeys = 3  MaxLinks = 2  MaxVisits = 2  MaxBuffer = 1  MaxPayload = 2  MaxBatches = 2
  ShareClicks = {h1, h2, h3}  MaxStays = 2  MaxStreams = 3
CHECK_DEADLOCK FALSE

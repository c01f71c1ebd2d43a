SPECIFICATION Spec
INVARIANT NoJobLost
INVARIANT NoUndercount
INVARIANT DeadLetterJustified
CONSTANTS
  j1 = j1  j2 = j2  w1 = w1  w2 = w2  s1 = s1  s2 = s2  NoJob = NoJob
  Jobs = {j1}  Previews = {}  Malformed = {}
  Workers = {w1}  Slots = {s1}
  MaxAttempts = 2  ReadBatch = 10  MaxMishaps = 4
  MaxRedisFaults = 1  MaxDbFaults = 2  MaxStops = 1
  MaxStalls = 1  MaxPauses = 0  MaxExpiries = 1
CHECK_DEADLOCK FALSE

SPECIFICATION Spec
INVARIANT StopsLoseNothing
CONSTANTS
  j1 = j1  j2 = j2  w1 = w1  w2 = w2  s1 = s1  s2 = s2  NoJob = NoJob
  Jobs = {j1}  Previews = {}  Malformed = {}
  Workers = {w1}  Slots = {s1}
  MaxAttempts = 2  ReadBatch = 10  MaxMishaps = 2
  MaxRedisFaults = 0  MaxDbFaults = 1  MaxStops = 1
  MaxStalls = 0  MaxPauses = 0  MaxExpiries = 0
CHECK_DEADLOCK FALSE

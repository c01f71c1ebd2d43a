SPECIFICATION Spec
CONSTRAINT JobsOrWorkers
INVARIANT TypeOK
INVARIANT SoleGrader
PROPERTY GradeSticks
PROPERTY ServiceSteps
SYMMETRY Symmetry
CONSTANTS
  j1 = j1  j2 = j2  w1 = w1  w2 = w2  s1 = s1  s2 = s2  NoJob = NoJob
  Jobs = {j1, j2}  Previews = {j2}  Malformed = {j2}
  Workers = {w1, w2}  Slots = {s1, s2}
  MaxAttempts = 2  ReadBatch = 10  MaxMishaps = 1
  MaxRedisFaults = 1  MaxDbFaults = 1  MaxStops = 1
  MaxStalls = 1  MaxPauses = 1  MaxExpiries = 1
CHECK_DEADLOCK FALSE

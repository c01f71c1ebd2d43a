SPECIFICATION Spec
INVARIANT EndSubmitsAll
INVARIANT OneCycle
INVARIANT RescuedOnce
SYMMETRY Symmetry
CONSTANTS
  a1 = a1  a2 = a2  x1 = x1  s1 = s1  s2 = s2
  h1 = h1  h2 = h2  c1 = c1  c2 = c2  f1 = f1
  NoAttempt = NoAttempt  NoExam = NoExam
  Attempts = {a1, a2}  Exams = {x1}  ExamOf <- MCExamOf
  Online = {}  Saves = {}  Submits = {}
  Cycles = {c1, c2}  Flushers = {}
  MaxMishaps = 1  MaxFaults = 1  MaxCrashes = 1
  MaxOverruns = 1  MaxExpiries = 0  MaxRegrades = 0
CHECK_DEADLOCK FALSE

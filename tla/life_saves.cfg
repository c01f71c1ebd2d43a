SPECIFICATION Spec
CONSTRAINT SecondSaveCalm
INVARIANT TypeOK
INVARIANT FirstJobIsCurrent
SYMMETRY Symmetry
CONSTANTS
  a1 = a1  a2 = a2  x1 = x1  s1 = s1  s2 = s2
  h1 = h1  h2 = h2  c1 = c1  c2 = c2  f1 = f1
  NoAttempt = NoAttempt  NoExam = NoExam
  Attempts = {a1}  Exams = {x1}  ExamOf <- MCExamOf
  Online = {a1}  Saves = {s1, s2}  Submits = {h1}
  Cycles = {}  Flushers = {f1}
  MaxMishaps = 1  MaxFaults = 1  MaxCrashes = 0
  MaxOverruns = 0  MaxExpiries = 0  MaxRegrades = 0
CHECK_DEADLOCK FALSE

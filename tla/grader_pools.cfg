SPECIFICATION GraderSpec
INVARIANT GraderTypeOK
INVARIANT NetworksAccounted
INVARIANT CleanHandOut
INVARIANT ContainersAccounted
INVARIANT GradedOnOwnWork
INVARIANT StuckExplained
INVARIANT SqlExplained
INVARIANT GradesExplained
INVARIANT ScriptsExplained
PROPERTY NetworkPoolRefines
PROPERTY StopEnds
PROPERTY ContainersRefine
CONSTANTS
  Phases = {p1, p2}  Warmers = {w1}  NetMax = 4  MaxNetworks = 1
  WarmCount = 1  CleanupSlots = 1  MaxNetFaults = 1  MaxNetCrashes = 1
  r1 = r1  r2 = r2  n1 = n1
  Runs = {r1, r2}  HiddenRuns = {r2}
  Conts = {k1, k2, k3}  ContNets = {n1, n2}  PoolSize = 1  MaxContFaults = 1
  Takers = {t1}  WarmUps = {v1, v2}  Boxes = {b1, b2, b3}
  BoxMax = 1  WarmSize = 1  MaxBoxFaults = 1
  Gradings = {g1, g2}  SqlSpecs <- MCSqlSpecs  SqlConts = {k1, k2, k3}
  MaxConns = 1  CreateSlots = 1  MaxSqlFaults = 1  NoVerdict = NoVerdict
  MaxText = 5  SqlScripts <- MCSqlScripts  MaxFiles = 2  NoRows = NoRows
  MaxTests = 2  NoResult = NoResult
CHECK_DEADLOCK FALSE

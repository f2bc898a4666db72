SPECIFICATION Spec
CONSTANTS
  t1 = t1
  t2 = t2
  t3 = t3
  r1 = r1
  r2 = r2
  rc1 = rc1
  TaskIds = {t1, t2, t3}
  RootIds = {r1, r2}
  Strs = {r1, r2}
  Runners = {rc1}
  Null = Null
  Kinds = {"motor", "led"}
  Callers <- MCCallers
  Programs <- MixedPrograms
  SlowKinds = {}
  FailKinds = {}
  MaxLen = 1
SYMMETRY TaskSymmetry
INVARIANTS StopTerminates
CHECK_DEADLOCK FALSE

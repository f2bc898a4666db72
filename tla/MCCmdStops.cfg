SPECIFICATION FairSpec
CONSTANTS
  t1 = t1
  t2 = t2
  t3 = t3
  r1 = r1
  r2 = r2
  rc1 = rc1
  TaskIds = {t1, t2}
  RootIds = {r1, r2}
  Strs = {r1, r2}
  Runners = {rc1}
  Null = Null
  Kinds = {"led"}
  Callers <- MCCallers
  Programs <- LoopedPrograms
  SlowKinds = {"led"}
  FailKinds = {}
  MaxLen = 1
PROPERTIES NoRevival StopIsFinal LoopGoesOn

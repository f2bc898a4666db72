SPECIFICATION Spec
CONSTANTS
  t1 = t1
  t2 = t2
  Tasks = {t1, t2}
  Cmds = {"L"}
  Drives <- MCDrives
SYMMETRY TaskSymmetry
INVARIANTS TypeOK MovesAsTold DutiesRecover

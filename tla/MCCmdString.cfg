SPECIFICATION Spec
CONSTANTS
  MaxShort = 5
  MaxPieces = 3
  Inputs <- MCInputs
  Walkers <- MCWalkers
  ShortRests = {3, 6, 9, 12, 18}
INVARIANTS CarriesOutString StaysInString KeepsTheBeat
PROPERTIES WalkAdvances WalkEnds

SPECIFICATION Spec
CONSTANTS
  Size <- MCSize
  FileIds = {7}
  Keys = {0, 2, 3}
  ReadLen = 2
  RbSize = 1
  MaxNew = 2
INVARIANTS MarkerInFile OwnFileFromStart EndsWithFile
PROPERTIES AllSongsInTurn SessionEnds

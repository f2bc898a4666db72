SPECIFICATION Spec
CONSTANTS
  Blinks = 10
  MaxResets = 2
INVARIANTS TasksFindTheirParts YieldsToMusic
PROPERTIES ComesUp ShowsState

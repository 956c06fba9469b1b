SPECIFICATION UnitsSpec
SYMMETRY Symmetry
CONSTANTS
  Readers = {r1, r2}
  Keys <- Typing
  Counts = {2}
  INPUT_BUF = 2
  WRAP = 4
  COLS = 2
  ROWS = 1
  Nobody = Nobody
CHECK_DEADLOCK FALSE
INVARIANTS
  SleepersHaveNothing HeapSound ModifiersFollowKeys UserMemSound PagesSound MallocSound
  StrideHeapSound ParserSound
PROPERTIES IsLineInput

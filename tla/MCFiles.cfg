SPECIFICATION FilesSpec
CONSTANTS
  Readers = {r1}
  Writers = {w1, w2}
  NoProc = NoProc
  PIPESIZE = 2
  WRAP = 4
  MaxN = 2
  Nobody = Nobody
  Nothing = Nothing
  q1 = q1
  p1 = p1
  p2 = p2
SYMMETRY Symmetry
CHECK_DEADLOCK FALSE
INVARIANTS SleepersJustified RefsExact BlocksSound
PROPERTIES PipeIsFifo IsByteFile

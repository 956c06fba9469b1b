SPECIFICATION Spec
CONSTANTS
  Procs = {p1, p2}
  Blocks = {b1, b2, b3, b4}
  Vals = {0}
  NoBlock = NoBlock
  Absent = Absent
  MAXOPBLOCKS = 2
  LOGSIZE = 4
  NLOG = 4
  OpBlocks = 2
INVARIANT NoLogPanic

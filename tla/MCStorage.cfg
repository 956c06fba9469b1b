SPECIFICATION StorageSpec
CONSTANTS
  Procs = {o1, o2}
  Blocks = {h1, h2}
  Vals = {0, 1}
  NoBlock = NoBlock
  Absent = Absent
  MAXOPBLOCKS = 2
  LOGSIZE = 4
  NLOG = 4
  OpBlocks = 2
  Nobody = Nobody
  None = None
  p1 = p1
  p2 = p2
  b1 = b1
  b2 = b2
  b3 = b3
  n1 = n1
  n2 = n2
  n3 = n3
  n4 = n4
  v1 = v1
  v2 = v2
SYMMETRY Symmetry
INVARIANTS QuietIsDurable Reserved CacheSound SleepersWaitForSomething
PROPERTIES AtomicCommit IsBlockStore
VIEW Live

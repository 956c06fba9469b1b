SPECIFICATION Spec
CONSTANTS
  CPUS = {c0, c1}
  BootCpu = c0
  IdeCpu = c1
  Threads = {t1, t2}
  Pipes = {pi}
  SleepLocks = {sl}
  Made <- Programs
  NoCpu = NoCpu
  NoLock = NoLock
INVARIANTS NoLockPanic InterruptDiscipline OnlyOneCircle
CHECK_DEADLOCK FALSE
SYMMETRY Symmetry
VIEW Live

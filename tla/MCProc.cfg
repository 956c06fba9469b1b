SPECIFICATION Spec
CONSTANTS
  CPUS = {c0, c1}
  BootCpu = c0
  NoCpu = NoCpu
  NPROC = 3
  MaxPid = 3
  MaxSleep = 1
  KillPids = {0, 1, 3}
INVARIANTS TypeOK OneStack NoMissedExit NoMissedTick LiveParent NoSchedPanic
PROPERTY ZombieUntilReaped
VIEW Live

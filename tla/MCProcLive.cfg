SPECIFICATION FairSpec
CONSTANTS
  CPUS = {c0}
  BootCpu = c0
  NoCpu = NoCpu
  NPROC = 3
  MaxPid = 3
  MaxSleep = 1
  KillPids = {2}
PROPERTIES RunnableRuns KilledExits OrphanReaped

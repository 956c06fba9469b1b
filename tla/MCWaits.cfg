SPECIFICATION WaitsSpec
CONSTANTS
  Procs = {1, 2, 3, 4}
  Sh = 1
  InitProc = 0
  NFILE = 5
  NOFILE = 6
  Pipes = {q1, q2}
  Nothing = Nothing
  Lines <- TypedLines
  NoProc = NoProc
  r1 = r1
  w1 = w1
  NoBlock = NoBlock
  Absent = Absent
  o1 = o1
  o2 = o2
  o3 = o3
  b1 = b1
  b2 = b2
CHECK_DEADLOCK FALSE
INVARIANT ShellSound
PROPERTIES LinesReturn WaitsEnd

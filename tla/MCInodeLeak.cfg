SPECIFICATION Spec
CONSTANTS
  Procs = {p1, p2}
  Inums = {1, 2, 3}
  NINODE = 3
  Names = {"a", "b"}
  Calls <- FlatCalls
  Nobody = Nobody
SYMMETRY Symmetry
CHECK_DEADLOCK FALSE
INVARIANT UnlinkedIsFreed

SPECIFICATION SpecCrash
CONSTANTS
  Procs = {p1, p2}
  Inums = {1, 2, 3}
  NINODE = 3
  Names = {"a", "b"}
  Calls <- TreeCalls
  Nobody = Nobody
SYMMETRY Symmetry
CHECK_DEADLOCK FALSE
INVARIANTS IcacheSound LinksCoverNames OpenIsAllocated NoFsPanic

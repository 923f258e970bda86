CONSTANTS
  Procs = {p1, p2}
  NULL = NULL
  None = None
  Programs <- MCPrograms
SPECIFICATION Spec
INVARIANTS TypeOK LoadedWasSaved StatusIsHonest CleanExit

SPECIFICATION Spec
CONSTANTS
  Names = {n1, n2}
  Works = {w1, w2}
  Templated = {FALSE, TRUE}
  Faults = {"tool", "crash"}
  MaxCommands = 5
  None = None
SYMMETRY Symmetry
CHECK_DEADLOCK FALSE
INVARIANTS
  NoSilentLoss
  OneInstancePerDatabase
  NoOrphanDatabase
  NoGhostProxy

SPECIFICATION Spec
CONSTANTS
  x = x
  Runs = {r1, r2, r3}
  Names = {feat}
  ScriptNames = {smoke, dump}
  Structured = {smoke}
  Cases = {x}
  Outputs <- MCOutputs
  Spread = TRUE
  LastSecond = 1
  LastTry = 2
  AnyScript = AnyScript
  None = None
CHECK_DEADLOCK FALSE
SYMMETRY Symmetry
INVARIANTS
  RecordKept
  LatestResolves
PROPERTIES
  ImplementsRecords

SPECIFICATION Spec
CONSTANTS
  x = x
  Runs = {r1, r2}
  Names = {feat, main}
  ScriptNames = {smoke}
  Structured = {smoke}
  Cases = {x}
  Outputs <- MoreOutputs
  Spread = TRUE
  LastSecond = 0
  LastTry = 2
  AnyScript = AnyScript
  None = None
CHECK_DEADLOCK FALSE
INVARIANTS
  CompareSymmetric

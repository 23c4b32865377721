SPECIFICATION Spec
CONSTANTS
  n1 = n1
  t = t
  m = m
  Names = {n1}
  Templates = {t}
  Clients = {c1, c2}
  Modules = {m}
  Works = {w}
  Declared <- MCDeclared
  Base <- MCBase
  Mcp = {c1, c2}
  Faults = {"tool", "psql", "odoo"}
  Minutes = {i1}
  Blank = Blank
  None = None
SYMMETRY Symmetry
INVARIANTS
  WorkIsSomewhere
PROPERTIES
  NotUnderOdoo
  ResetRepeatable
  InstallComplete

SPECIFICATION Spec
CONSTANTS
  odoo = odoo
  Repos = {odoo, addons}
  Clusters = {main}
  Faults = {"git", "config", "kill", "pg", "psql", "uv"}
  None = None
  Candidates <- MCCandidates
  Files <- MCFiles
  Explicits <- MCExplicits
  Contents = {v1, v2}
  Creators = {creator}
  Starters = {starter}
  Careful = TRUE
SYMMETRY Symmetry
INVARIANTS
  TypeOK
  InitCompletes
  StampTruthful

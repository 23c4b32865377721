SPECIFICATION Spec
CONSTANTS
  Low = 2
  High = 5
  Names = {n1, n2}
  Clients = {c1, c2}
  DefaultPort = 2
  Pins = {0, 3, 4}
  ForceFlags = {FALSE, TRUE}
  NoName = NoName
SYMMETRY Symmetry
INVARIANTS
  TypeOK
  ClaimsApart
PROPERTIES
  ConfRecordsClaim
  ExhaustedIsTrue

SPECIFICATION Spec
CONSTANTS
  i1 = i1
  i2 = i2
  r1 = r1
  Worktrees = {w1}
  RepoOf <- OneRepo
  InstanceOf <- AllOfOne
  Shared = {}
  Readonly = {}
  Tracked = {w1}
  Upstream = {w1}
  Changes = {x1, x2, x3}
  Clients = {c1, c2}
  Commands = {"fetch", "sync", "push", "pushAll", "resetAll", "pullBase"}
  None = None
SYMMETRY Symmetry
INVARIANTS TypeOK NoChangeLost TrackWasPushed RebaseIsLocal 
PROPERTY OriginOnlyGrows

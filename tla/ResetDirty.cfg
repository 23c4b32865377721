SPECIFICATION Spec
CONSTANTS
  i1 = i1
  i2 = i2
  r1 = r1
  Worktrees = {w1}
  RepoOf <- OneRepo
  InstanceOf <- AllOfOne
  Shared = {}
  Readonly = {}
  Tracked = {}
  Upstream = {}
  Changes = {x1, x2}
  Clients = {c1}
  Commands = {"resetAll"}
  None = None
PROPERTY ResetAsks

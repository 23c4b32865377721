SPECIFICATION Spec
CONSTANTS
  i1 = i1
  i2 = i2
  c1 = c1
  c2 = c2
  h1 = h1
  h2 = h2
  Unset = Unset
  Instances = {i1, i2}
  Pids = {p1, p2}
  Clients = {c1, c2}
  Hosts = {h1}
  HostOf <- OneHost
  LongLived = {h1}
  Targets <- AllTargets
  Commands = {"start", "stopWait", "kill", "restart", "restartWait", "install", "adopt"}
  Faults = {"crash", "hostKilled", "manual"}
SYMMETRY PidInstanceSymmetry
INVARIANTS
  OwnVictim
  StoppedMeansGone
  RestartReplaces

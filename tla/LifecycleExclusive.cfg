SPECIFICATION Spec
CONSTANTS
  i1 = i1
  i2 = i2
  c1 = c1
  c2 = c2
  h1 = h1
  h2 = h2
  Unset = Unset
  Instances = {i1, i2}
  Pids = {p1, p2, p3}
  Clients = {c1, c2}
  Hosts = {h1, h2}
  HostOf <- OwnHosts
  LongLived = {}
  Targets <- OwnTargets
  Commands = {"start", "startWait", "stop", "stopWait", "kill", "restart", "install", "adopt", "health"}
  Faults = {"crash"}
SYMMETRY PidSymmetry
INVARIANTS
  TypeOK
  Tracked
  AwaitsOwn
  NeverDisowned
  InstallRanInit

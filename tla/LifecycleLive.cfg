SPECIFICATION DrainingSpec
CONSTANTS
  i1 = i1
  i2 = i2
  c1 = c1
  c2 = c2
  h1 = h1
  h2 = h2
  Unset = Unset
  Instances = {i1}
  Pids = {p1, p2}
  Clients = {c1, c2}
  Hosts = {h1, h2}
  HostOf <- OwnHosts
  LongLived = {}
  Targets <- AllTargets
  Commands = {"startWait", "stop", "stopWait", "restart", "install"}
  Faults = {"crash"}
PROPERTIES
  CommandsReturn
  StopLeadsToExit

SPECIFICATION MCSpec
CONSTANTS
  Daemons = {d1, d2, d3}
  Cleaners = {c1, c2}
  None = None
  NetSettings <- TwoSettings
  AutoVip = AutoVip
  Width = 4
  Ports = {1, 2, 3, 4}
  ServicePorts = {1, 2}
  DefaultPorts = {1, 2}
  ConfigFiles <- Files
  Hosts = {"h1", "h2"}
  LogicalPorts = {1, 2}
  Locals = {0, 1, 3}
  MaxTargets = 3
  MaxPort = 3
  Stride = 1
  Sources = {"file"}
  ChurnTargets = 2
INVARIANTS LockedOwner RunningOwnsRuntime EntriesCovered BindsKept TablesAgree
PROPERTY CommandsEnd
\* Every command has run, every process has ended, every listener is bound.
CHECK_DEADLOCK FALSE

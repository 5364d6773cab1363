SPECIFICATION LockSpec
CONSTANTS
  worker1 = worker1
  worker2 = worker2
  command = command
  launcher = launcher
  cli = cli
  Thread <- ThreadsMC
  Pid <- PidsMC
  PidOf <- PidOfMC
  None = None
  Windows = FALSE
INVARIANTS MutualExclusion

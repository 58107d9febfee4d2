\* One account, crashes and a power loss: the approved preparation still ends.
SPECIFICATION Spec
CONSTANTS
  p1 = p1
  a1 = a1
  Proc = {p1}
  Nil = Nil
  Account = {a1}
  NumServices = 2
  MaxOps = 4
  MaxAborts = 1
  MaxFailures = 0
  MaxOutside = 0
  MaxPowerLosses = 1
  MaxInAll = 2
  MaxFaults <- FaultBounds
PROPERTY PreparedEventually

\* Two runs of two accounts over two services, with one fault of every kind.
SPECIFICATION Spec
CONSTANTS
  p1 = p1
  p2 = p2
  a1 = a1
  a2 = a2
  Proc = {p1, p2}
  Nil = Nil
  Account = {a1, a2}
  NumServices = 2
  MaxOps = 4
  MaxAborts = 2
  MaxFailures = 1
  MaxOutside = 1
  MaxPowerLosses = 0
  MaxInAll = 2
  MaxFaults <- FaultBounds
SYMMETRY Symmetry
INVARIANTS EnablesOnlyApproved NoForgottenEnable PendingIsFirst CompleteMeansEnabled


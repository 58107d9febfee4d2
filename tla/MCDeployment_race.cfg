\* Two processes racing for one node directory, while somebody else acts at any moment, between
\* the check and the request of a delete too.
SPECIFICATION Spec
CONSTANTS
  p1 = p1
  p2 = p2
  Proc = {p1, p2}
  Created = {"address", "disk", "instance"}
  Commands = {"plan", "apply", "resume", "destroy_plan", "destroy", "purge_plan", "purge"}
  DnsModes = {"cloud"}
  InstallConnect = FALSE
  RaceDelete = TRUE
  MaxPlans = 2
  MaxAborts = 1
  MaxFailures = 1
  MaxTampers = 1
  MaxFaults <- FaultBounds
INVARIANTS LockedMemoryIsCurrent NoOrphan DestroyedIsClean
SYMMETRY Symmetry

\* The full topology: repeated often enough, an interrupted resume completes and an interrupted destroy ends.
SPECIFICATION ProgressSpec
CONSTANTS
  p1 = p1
  Proc = {p1}
  Created = {"network", "subnet", "web", "turn", "ssh", "address", "disk", "instance"}
  Commands = {"plan", "apply", "resume", "destroy_plan", "destroy", "purge_plan", "purge"}
  DnsModes = {"cloud", "external"}
  InstallConnect = TRUE
  RaceDelete = FALSE
  MaxPlans = 1
  MaxAborts = 2
  MaxFailures = 0
  MaxTampers = 0
  MaxFaults <- FaultBounds
INVARIANTS ParentsExist
PROPERTIES ResumeCompletes DestroyCompletes

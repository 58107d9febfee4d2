\* A failed provider operation is never left behind.
SPECIFICATION ProgressSpec
CONSTANTS
  p1 = p1
  Proc = {p1}
  Created = {"address", "disk", "instance"}
  Commands = {"plan", "apply", "resume"}
  DnsModes = {"cloud", "external"}
  InstallConnect = TRUE
  RaceDelete = FALSE
  MaxPlans = 1
  MaxAborts = 0
  MaxFailures = 1
  MaxTampers = 0
  MaxFaults <- FaultBounds
PROPERTIES ResumeCompletes

\* One process, every command, a crash, and somebody else changing resources or DNS.
SPECIFICATION Spec
CONSTANTS
  p1 = p1
  Proc = {p1}
  Created = {"address", "disk", "instance"}
  Commands = {"plan", "apply", "resume", "pending_only", "connect", "destroy_plan", "destroy",
              "purge_plan", "purge"}
  DnsModes = {"cloud", "external"}
  InstallConnect = TRUE
  RaceDelete = FALSE
  MaxPlans = 2
  MaxAborts = 1
  MaxFailures = 1
  MaxTampers = 1
  MaxFaults <- FaultBounds
INVARIANTS DeletesOnlyApproved
PROPERTIES DestroyFollowsApproval CompletionIsProven DnsReplacesOnlyWhatWasShown

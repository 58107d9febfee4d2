\* One process, every command, two crashes and a failed operation anywhere.
SPECIFICATION Spec
CONSTANTS
  p1 = p1
  Proc = {p1}
  Created = {"network", "address", "disk", "instance"}
  Commands = {"plan", "apply", "resume", "pending_only", "connect", "destroy_plan", "destroy",
              "purge_plan", "purge"}
  DnsModes = {"cloud", "external"}
  InstallConnect = TRUE
  RaceDelete = FALSE
  MaxPlans = 2
  MaxAborts = 2
  MaxFailures = 1
  MaxTampers = 0
  MaxFaults <- FaultBounds
INVARIANTS NoCreateWhileDestroying ReceiptIsOfThisHost
PROPERTIES EffectsFollowApproval LedgerSpec

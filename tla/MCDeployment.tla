---- MODULE MCDeployment ----
(* Instances of the deployment for TLC. *)
EXTENDS DeploymentProperties, TLC
CONSTANTS MaxAborts, MaxFailures, MaxTampers
FaultBounds == [abort |-> MaxAborts, fail |-> MaxFailures, tamper |-> MaxTampers]
Symmetry == Permutations(Proc)
=============================================================================

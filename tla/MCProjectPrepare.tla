---- MODULE MCProjectPrepare ----
(* Instances of the project preparation for TLC. *)
EXTENDS ProjectPrepare, TLC
CONSTANTS MaxAborts, MaxFailures, MaxOutside, MaxPowerLosses
FaultBounds == [abort |-> MaxAborts, fail |-> MaxFailures, outside |-> MaxOutside,
                power |-> MaxPowerLosses]
Symmetry == Permutations(Proc) \cup Permutations(Account)
=============================================================================

----------------------------- MODULE MCHostInstall -----------------------------
(* Instances of the host installation for TLC. *)
EXTENDS HostInstall
OneOfEach == [k \in Fault |-> 1]
=============================================================================

----------------------------- MODULE MCLocalWiring -----------------------------
(* An instance of the local wiring for TLC. *)
EXTENDS LocalWiring
WiringFaults == [k \in Fault |-> IF k = "end" THEN 3 ELSE IF k = "power" THEN 2 ELSE 1]
=============================================================================

---------------------------- MODULE DurableRegister ----------------------------
(***************************************************************************)
(* What the state store promises to the deployment, without its files,     *)
(* keys, processes and locks: one register.  Versions are put one after    *)
(* the other and acknowledged once put; a crash may take back what was     *)
(* put last, never what was acknowledged.                                  *)
(***************************************************************************)
EXTENDS Naturals

VARIABLES visible, acknowledged

vars == <<visible, acknowledged>>

Init ==
  /\ visible = 0
  /\ acknowledged = 0

Put ==
  /\ visible' = visible + 1
  /\ UNCHANGED acknowledged

Acknowledge ==
  /\ acknowledged' = visible
  /\ UNCHANGED visible

TakeBack ==
  /\ visible' \in acknowledged .. visible
  /\ UNCHANGED acknowledged

Next == Put \/ Acknowledge \/ TakeBack

Spec == Init /\ [][Next]_vars
=============================================================================

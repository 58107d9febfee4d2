--------------------------- MODULE WriteAheadLedger ---------------------------
(***************************************************************************)
(* What the deployer promises about the resources it creates, without its  *)
(* processes, files, requests or phases.  A ledger names every slot the    *)
(* deployment may have a resource in; a resource appears only under a slot *)
(* entered before, one slot in doubt at a time; it vanishes only after its *)
(* slot was condemned by an approval, and its entry is struck only once it *)
(* is gone.                                                                *)
(***************************************************************************)
CONSTANT Slot

VARIABLES ledger, exists, doomed

vars == <<ledger, exists, doomed>>

Init ==
  /\ ledger = {}
  /\ exists = {}
  /\ doomed = {}

(* A slot is entered while every earlier entry is accounted for. *)
Enter(s) ==
  /\ doomed = {}
  /\ ledger \subseteq exists
  /\ s \notin ledger
  /\ ledger' = ledger \cup {s}
  /\ UNCHANGED <<exists, doomed>>

Appear(s) ==
  /\ s \in ledger \ exists
  /\ doomed = {}
  /\ exists' = exists \cup {s}
  /\ UNCHANGED <<ledger, doomed>>

Condemn(D) ==
  /\ doomed = {}
  /\ ledger \subseteq exists
  /\ D \subseteq ledger
  /\ doomed' = D
  /\ UNCHANGED <<ledger, exists>>

Vanish(s) ==
  /\ s \in doomed \cap exists
  /\ exists' = exists \ {s}
  /\ UNCHANGED <<ledger, doomed>>

Strike(s) ==
  /\ s \in doomed \ exists
  /\ ledger' = ledger \ {s}
  /\ doomed' = doomed \ {s}
  /\ UNCHANGED exists

Next ==
  \/ \E s \in Slot : Enter(s) \/ Appear(s) \/ Vanish(s) \/ Strike(s)
  \/ \E D \in SUBSET Slot : Condemn(D)

Spec == Init /\ [][Next]_vars
=============================================================================

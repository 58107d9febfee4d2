--------------------------- MODULE DeploymentState ---------------------------
(***************************************************************************)
(* The authenticated schema-v1 state of one deployment, the plans that     *)
(* change it and the validation every write of it passes                   *)
(* (deployer-core/src/model.rs and plan.rs).  The module has no variables: *)
(* it gives the component Deployment its data and its pure rules.          *)
(*                                                                         *)
(* A resource is identified by its numeric id.  The ids of the resources   *)
(* this deployment creates are the ids of the effects that create them, so *)
(* NoId (0) stands for an empty slot and Foreign for the id of a same-name *)
(* resource somebody else put in place of ours.                            *)
(***************************************************************************)
EXTENDS Integers, FiniteSets

CONSTANT Created        \* the slots an initial plan fills (Dns is apart)

(***************************************************************************)
(* The eight slots of the fixed topology and the A record.                 *)
(***************************************************************************)
AllCreated == {"network", "subnet", "web", "turn", "ssh", "address", "disk",
               "instance"}
Address  == "address"
Disk     == "disk"
Instance == "instance"
Dns      == "dns"

ASSUME CreatedAssumption ==
  /\ Created \subseteq AllCreated
  /\ {Address, Disk, Instance} \subseteq Created

Slots == Created \cup {Dns}

NoId    == 0
Foreign == -1

(***************************************************************************)
(* Position of a slot in the effects of an initial plan, and in the        *)
(* targets of a destroy plan.                                              *)
(***************************************************************************)
CreateRank ==
  [network |-> 1, subnet |-> 2, web |-> 3, turn |-> 4, ssh |-> 5,
   address |-> 6, disk |-> 7, instance |-> 8, dns |-> 9]

(* Mutant: the network goes before the subnet in it. *)
NetworkFirst ==
  [dns |-> 1, instance |-> 2, disk |-> 3, web |-> 4, turn |-> 5, ssh |-> 6,
   address |-> 7, network |-> 8, subnet |-> 9]

DestroyRank ==
  [dns |-> 1, instance |-> 2, disk |-> 3, web |-> 4, turn |-> 5, ssh |-> 6,
   address |-> 7, subnet |-> 8, network |-> 9]

(***************************************************************************)
(* The recorded resources a create request names by self link.             *)
(***************************************************************************)
Needs(s) ==
  Created \cap CASE s = "subnet"                  -> {"network"}
                 [] s \in {"web", "turn", "ssh"}  -> {"network"}
                 [] s = Instance                  -> {"subnet", Disk, Address}
                 [] OTHER                         -> {}

(***************************************************************************)
(* Values of the domain's A record: none, what stood there before the      *)
(* deployment (one address or many), the reserved address of this node,    *)
(* anything else.                                                          *)
(***************************************************************************)
DnsValues == {"absent", "old", "many", "node", "other"}

(***************************************************************************)
(* A deployment plan.  Its digest binds every field, so the plan stands    *)
(* for its own digest; no is its generation (a continuation names the      *)
(* digest of the plan before it), dns who answers for the zone, and cur    *)
(* the value of the A record it observed.                                  *)
(***************************************************************************)
Plan == [stage : {"none", "initial", "continuation"},
         no    : Nat,
         dns   : {"external", "cloud"},
         cur   : DnsValues]

NoPlan == [stage |-> "none", no |-> 0, dns |-> "external", cur |-> "absent"]

(***************************************************************************)
(* A journaled effect; op says that its provider operation is recorded.    *)
(* The operation's request id is the effect id.                            *)
(***************************************************************************)
Effect == [action : {"none", "create", "update", "delete"},
           slot   : Slots,
           id     : Nat,
           target : Nat,
           cur    : DnsValues,
           op     : BOOLEAN]

NoEffect == [action |-> "none", slot |-> Dns, id |-> 0, target |-> NoId,
             cur |-> "absent", op |-> FALSE]

(***************************************************************************)
(* A destroy plan freezes the id of every resource it deletes, the boot    *)
(* disk it found, and whether that disk is purged.                         *)
(***************************************************************************)
DestroyPlan == [target : [Slots -> Nat], disk : Nat, purge : BOOLEAN]

NoTargets     == [s \in Slots |-> NoId]
NoDestroyPlan == [target |-> NoTargets, disk |-> NoId, purge |-> FALSE]

Targets(dp) == {s \in Slots : dp.target[s] # NoId}

(***************************************************************************)
(* The active destroy plan and its cursor.  The targets are a vector in    *)
(* DestroyRank order and next_target_index splits it into a deleted prefix *)
(* and the suffix left; left is that suffix as a set.                      *)
(***************************************************************************)
ActiveDestroy == [on : BOOLEAN, plan : DestroyPlan, left : SUBSET Slots]

NoDestroy == [on |-> FALSE, plan |-> NoDestroyPlan, left |-> {}]

IsCurrent(active, s) ==
  /\ s \in active.left
  /\ \A t \in active.left : DestroyRank[s] <= DestroyRank[t]

(***************************************************************************)
(* The state.  Phase "none" stands for a node directory without state.json.*)
(* The pinned SSH identity is set and cleared together with the host       *)
(* receipt, so receipt stands for both; installed stands for installed and *)
(* service_active, which every writer sets to the same value.              *)
(***************************************************************************)
Phases == {"none", "applying", "waiting_user", "installed", "complete",
           "destroying", "destroyed"}

State == [phase     : Phases,
          plan      : Plan,
          pending   : Effect,
          destroy   : ActiveDestroy,
          res       : [Slots -> Nat],
          receipt   : BOOLEAN,
          requested : BOOLEAN,
          installed : BOOLEAN]

NoState == [phase |-> "none", plan |-> NoPlan, pending |-> NoEffect,
            destroy |-> NoDestroy, res |-> NoTargets, receipt |-> FALSE,
            requested |-> FALSE, installed |-> FALSE]

InfrastructureComplete(s) == \A t \in Created : s.res[t] # NoId
HasPending(s) == s.pending.action # "none"

-----------------------------------------------------------------------------
(***************************************************************************)
(* Validation: a state that breaks one of these rules is never persisted.  *)
(***************************************************************************)
ValidateEffect(s) ==
  HasPending(s) =>
    /\ s.phase \notin {"complete", "destroyed"}
    /\ s.pending.action = "create" => s.pending.target = NoId
    /\ s.pending.action = "delete" => s.pending.target # NoId

ValidatePhase(s) ==
  CASE s.phase = "waiting_user" ->
         InfrastructureComplete(s) /\ ~HasPending(s) /\ ~s.receipt
    [] s.phase \in {"installed", "complete"} ->
         /\ InfrastructureComplete(s) /\ ~HasPending(s) /\ s.receipt
         /\ (s.phase = "complete" /\ s.requested) => s.installed
    [] s.phase = "destroyed" ->
         /\ ~HasPending(s) /\ ~s.destroy.on
         /\ \A t \in Slots \ {Disk} : s.res[t] = NoId
    [] OTHER -> TRUE

PendingMatchesTarget(e, active) ==
  /\ e.action = "delete"
  /\ IsCurrent(active, e.slot)
  /\ e.target = active.plan.target[e.slot]

(* Mutant: any journaled effect may outlive the start of a destroy. *)
ValidateActiveDestroyAlone(s) ==
  LET active == s.destroy IN
  IF ~active.on THEN s.phase # "destroying"
  ELSE /\ s.phase = "destroying"
       /\ \A t \in Targets(active.plan) :
            s.res[t] = IF t \in active.left THEN active.plan.target[t] ELSE NoId
       /\ \A t \in Slots : s.res[t] # NoId =>
            \/ t \in active.left
            \/ t = Disk /\ ~active.plan.purge /\ s.res[t] = active.plan.disk

ValidateActiveDestroy(s) ==
  LET active == s.destroy IN
  IF ~active.on THEN s.phase # "destroying"
  ELSE /\ s.phase = "destroying"
       /\ \A t \in Targets(active.plan) :
            s.res[t] = IF t \in active.left THEN active.plan.target[t] ELSE NoId
       /\ \A t \in Slots : s.res[t] # NoId =>
            \/ t \in active.left
            \/ t = Disk /\ ~active.plan.purge /\ s.res[t] = active.plan.disk
       /\ HasPending(s) => PendingMatchesTarget(s.pending, active)

ValidateHost(s) ==
  s.receipt => \/ s.res[Address] # NoId
               \/ s.destroy.plan.target[Address] # NoId

Validate(s) ==
  /\ ValidateEffect(s)
  /\ ValidatePhase(s)
  /\ ValidateActiveDestroy(s)
  /\ ValidateHost(s)
  /\ s.installed => s.requested

-----------------------------------------------------------------------------
(***************************************************************************)
(* Plans.                                                                  *)
(***************************************************************************)

(* build_plan without recorded state: the eight creates, DNS only observed. *)
InitialPlan(dns, cur) ==
  [stage |-> "initial", no |-> 1, dns |-> dns, cur |-> cur]

(* build_plan over recorded state: a DNS continuation and nothing else. *)
CanContinue(s, dns) ==
  /\ s.res[Dns] = NoId
  /\ s.res[Address] # NoId
  /\ dns = "cloud"

ContinuationPlan(s, cur) ==
  [stage |-> "continuation", no |-> s.plan.no + 1, dns |-> "cloud",
   cur |-> cur]

DnsAction(cur) == IF cur = "absent" THEN "create" ELSE "update"

(* automatic_cloud_dns_effect: the initial plan's own A-record effect. *)
AutomaticDns(plan, s) ==
  /\ plan.stage = "initial" /\ plan.dns = "cloud"
  /\ s.res[Dns] = NoId
  /\ s.res[Address] # NoId

(* planned_matches over the plan's effects and the automatic DNS effect. *)
PlanMatches(plan, s, e) ==
  \/ /\ plan.stage = "initial"
     /\ e.action = "create" /\ e.slot \in Created
  \/ /\ plan.stage = "continuation" \/ AutomaticDns(plan, s)
     /\ e.slot = Dns /\ e.action = DnsAction(plan.cur) /\ e.cur = plan.cur

(* The first effect of the plan whose slot is still empty. *)
NextPlanned(plan, s, t) ==
  /\ s.res[t] = NoId
  /\ \/ /\ plan.stage = "initial" /\ t \in Created
        /\ \A u \in Created : s.res[u] = NoId => CreateRank[t] <= CreateRank[u]
     \/ plan.stage = "continuation" /\ t = Dns

(* DestroyPlan::from_state: every recorded resource, the disk if purged. *)
DestroyPlanOf(s, purge) ==
  [target |-> [t \in Slots |-> IF t = Disk /\ ~purge THEN NoId ELSE s.res[t]],
   disk   |-> s.res[Disk],
   purge  |-> purge]

ActiveDestroyOf(dp) == [on |-> TRUE, plan |-> dp, left |-> Targets(dp)]

(* apply_receipt, ActiveDestroyPlan::advance and the cleared journal. *)
ApplyReceipt(s) ==
  LET e == s.pending IN
  [s EXCEPT !.res[e.slot] = IF e.action = "delete" THEN NoId ELSE e.id,
            !.destroy.left = IF e.action = "delete" THEN @ \ {e.slot} ELSE @,
            !.pending = NoEffect]
=============================================================================

------------------------- MODULE DeploymentProperties -------------------------
(***************************************************************************)
(* What must be true of every deployment: the properties the runs check    *)
(* and the invariant the proofs rest on.                                   *)
(***************************************************************************)
EXTENDS Deployment

(***************************************************************************)
(* An operation that can still change the cloud: a running insert, or a    *)
(* running delete whose target is still there.                             *)
(***************************************************************************)
InFlight(o) ==
  /\ o.st = "running" /\ o.slot # Dns
  /\ o.action = "create" \/ cloud[o.slot] = o.target

(* ... to what this deployment put in place, or by adding to it.           *)
OnOurs(o) == InFlight(o) /\ (o.action = "create" \/ o.target # Foreign)

(* A resource or record of ours is in place, recorded or journaled. *)
Accounted(t, id) ==
  \/ stored.res[t] = id
  \/ /\ stored.pending.action \in {"create", "update"}
     /\ stored.pending.slot = t /\ stored.pending.id = id

(***************************************************************************)
(* Nothing is ever orphaned: whatever was lost with a dying process, every *)
(* resource and A record this deployment put in place is recorded in       *)
(* state.json or is the journaled effect there, and every operation that   *)
(* can still change that belongs to the journaled effect, even while       *)
(* others replace resources between the check of a delete and its request. *)
(* It is what "records each cloud mutation before executing it" promises   *)
(* (execute_effect and resume_pending in engine.rs).                       *)
(***************************************************************************)
NoOrphan ==
  /\ \A t \in Created : cloud[t] > NoId => Accounted(t, cloud[t])
  /\ zone.by # NoId => Accounted(Dns, zone.by)
  /\ \A o \in ops : OnOurs(o) =>
       /\ stored.pending.id = o.id
       /\ stored.pending.slot = o.slot
       /\ stored.pending.action = o.action

(***************************************************************************)
(* A delete in flight removes a resource id of the active approved destroy *)
(* plan that the cursor has not passed; a boot disk only under a purge     *)
(* plan (destroy and advance in engine.rs and model.rs).                   *)
(***************************************************************************)
DeletesOnlyApproved ==
  \A o \in ops : (InFlight(o) /\ o.action = "delete") =>
    /\ stored.destroy.on
    /\ o.slot \in stored.destroy.left
    /\ o.target = stored.destroy.plan.target[o.slot]
    /\ o.slot = Disk => stored.destroy.plan.purge

(***************************************************************************)
(* Once a destroy is recorded, no insert is running and none will be: a    *)
(* resume that loses the race against destroy cannot rebuild what destroy  *)
(* takes down (validate_active_destroy, validate_effect).                  *)
(***************************************************************************)
NoCreateWhileDestroying ==
  stored.phase \in {"destroying", "destroyed"} =>
    ~\E o \in ops : InFlight(o) /\ o.action = "create"

(***************************************************************************)
(* A destroyed deployment leaves nothing of ours behind but the boot disk  *)
(* its state still records, and no A record it wrote.                      *)
(***************************************************************************)
DestroyedIsClean ==
  stored.phase = "destroyed" =>
    /\ \A t \in Created : cloud[t] > NoId => t = Disk /\ stored.res[Disk] = cloud[Disk]
    /\ zone.by = NoId

(***************************************************************************)
(* Creation and teardown never leave a resource without the ones it names: *)
(* a subnet or firewall without its network, an instance without its       *)
(* subnet, disk or address (effect order in build_plan, target order in    *)
(* DestroyPlan::from_state).                                               *)
(***************************************************************************)
ParentsExist ==
  faults["tamper"] = 0 =>
    \A t \in Created : cloud[t] # NoId => \A d \in Needs(t) : cloud[d] # NoId

(***************************************************************************)
(* At most one process is past the directory lock, and it works on the     *)
(* state that is on disk, so no write ever overwrites one it has not read  *)
(* (StateStore holds the lock for its whole life).                         *)
(***************************************************************************)
SameRecord(s, t) ==
  s.res = t.res /\ s.pending = t.pending /\ s.destroy = t.destroy
    /\ s.phase = t.phase /\ s.plan = t.plan /\ s.receipt = t.receipt

LockedMemoryIsCurrent ==
  \A p \in Proc :
    /\ lock = p <=> proc[p].pc \notin Unlocked
    /\ lock = p => SameRecord(proc[p].mem, stored)

(***************************************************************************)
(* The host receipt speaks of the recorded instance: the installer         *)
(* completed there before the receipt was written (install_host).          *)
(***************************************************************************)
ReceiptIsOfThisHost ==
  (stored.receipt /\ stored.res[Instance] # NoId) =>
    host = stored.res[Instance]

-----------------------------------------------------------------------------
(***************************************************************************)
(* A deployment is declared complete only when it serves, whatever         *)
(* happened to it since its host was installed: its resources are          *)
(* recorded, the host installer completed on the recorded instance, a      *)
(* requested Connect daemon runs, and the instance is live, its address    *)
(* reserved and the domain resolved to it, each at that very moment unless *)
(* somebody changed it after the verification began (verify_product and    *)
(* the write after it at the end of resume_plan).                          *)
(***************************************************************************)
CompletionIsProven ==
  [][(stored.phase # "complete" /\ stored'.phase = "complete") =>
       /\ InfrastructureComplete(stored')
       /\ host = stored'.res[Instance]
       /\ local.creds
       /\ stored'.requested => local.daemon
       /\ \E p \in Proc : LET began == proc[p].began IN
            /\ lock = p
            /\ cloud[Instance] = began.instance => cloud[Instance] = host
            /\ cloud[Address] = began.address =>
                 cloud[Address] = stored'.res[Address]
            /\ zone.value = began.dns => zone.value = "node"]_vars

(***************************************************************************)
(* A destroy starts only with the plan the operator was shown, and the     *)
(* plan stays frozen from then on while its targets are worked off one by  *)
(* one, each gone from the cloud when it is crossed off (destroy,          *)
(* plan_destroy and advance).                                              *)
(***************************************************************************)
DestroyFollowsApproval ==
  [][LET old == stored.destroy  new == stored'.destroy IN
     /\ (~old.on /\ new.on) => new.plan = shown.destroy
     /\ (old.on /\ new.on) =>
          /\ new.plan = old.plan
          /\ \E t \in Slots : old.left \ {t} \subseteq new.left
          /\ new.left \subseteq old.left
          /\ \A t \in old.left \ new.left :
               IF t = Dns THEN zone.by = NoId
                          ELSE cloud[t] # old.plan.target[t]
     /\ (old.on /\ ~new.on) => old.left = {}]_vars

(***************************************************************************)
(* The approved plan of a state changes only to a plan the operator        *)
(* approved, which is in plan.json by then, and it is never journaled      *)
(* for an effect outside it (apply, resume_plan and execute_effect).       *)
(***************************************************************************)
EffectsFollowApproval ==
  [][/\ stored'.plan # stored.plan =>
          /\ \E p \in Proc : lock = p /\ proc[p].approved = stored'.plan
          /\ storedPlan = stored'.plan
     /\ (~HasPending(stored) /\ stored'.pending.action \in {"create", "update"})
          => PlanMatches(stored.plan, stored, stored'.pending)]_vars

(***************************************************************************)
(* Besides those who tamper with it, the A record is changed by the        *)
(* operator a waiting command asked, by the journaled effect over the      *)
(* address the approved plan showed, if there is one address with the TTL  *)
(* the plan would write, or by an approved destroy that finds the node's   *)
(* address there: what somebody else put there meanwhile is never          *)
(* overwritten (start_dns_update and start_dns_delete).                    *)
(***************************************************************************)
DnsReplacesOnlyWhatWasShown ==
  [][(zone' # zone /\ faults' = faults) =>
       \/ /\ stored.phase = "waiting_user"
          /\ zone'.value = "node" /\ zone'.by = NoId
       \/ /\ zone.value = stored.plan.cur /\ zone.value # "many" /\ zone.standard
          /\ zone'.value = "node" /\ zone'.by = stored.pending.id
       \/ /\ zone.value = "node"
          /\ zone'.value = "absent" /\ zone'.by = NoId
          /\ stored.destroy.on /\ Dns \in stored.destroy.left]_vars

(***************************************************************************)
(* The deployment implements the write-ahead ledger while nobody else      *)
(* touches its resources.                                                  *)
(***************************************************************************)
Recorded == {t \in Created : stored.res[t] # NoId}
Journaled == IF stored.pending.action = "create" THEN {stored.pending.slot} \ {Dns}
                                                 ELSE {}

Ledger == INSTANCE WriteAheadLedger WITH
  Slot   <- Created,
  ledger <- Recorded \cup Journaled,
  exists <- {t \in Created : cloud[t] > NoId},
  doomed <- stored.destroy.left \ {Dns}

LedgerSpec == Ledger!Spec

-----------------------------------------------------------------------------
(***************************************************************************)
(* Liveness: a started command keeps running, the provider finishes its    *)
(* operations, the operator creates the A record asked for and repeats the *)
(* command a document tells him to repeat.                                 *)
(***************************************************************************)
Progress ==
  /\ \A p \in Proc : WF_vars(Step(p))
  /\ WF_vars(\E o \in ops : OperationDone(o))
  /\ WF_vars(OperatorSetsDns)

OperatorResumes == \A p \in Proc : SF_vars(Resume(p, "resume"))
OperatorFinishesDestroy ==
  \A p \in Proc : SF_vars(/\ stored.phase = "destroying"
                          /\ \E purge \in BOOLEAN : OpenDestroy(p, purge))

ProgressSpec == Spec /\ Progress /\ OperatorResumes /\ OperatorFinishesDestroy

(***************************************************************************)
(* The journaled A-record effect meets a record that no request of it      *)
(* matches: several addresses, or one with another TTL.  Planning reads    *)
(* the addresses alone, so the plan was approved all the same.             *)
(***************************************************************************)
RecordNeverMatches ==
  LET e == stored.pending IN
  /\ e.slot = Dns /\ e.action \in {"create", "update"} /\ ~e.op
  /\ e.cur = "many" \/ ~zone.standard

(***************************************************************************)
(* However often a deployment is interrupted, repeating deploy resume      *)
(* brings it to completion, unless the operator destroys it first or its   *)
(* A record is one no update accepts (README.md, "preserve the node state  *)
(* and resume it").                                                        *)
(***************************************************************************)
ResumeCompletes ==
  (stored.phase = "applying") ~>
    (stored.phase \in {"complete", "destroying"} \/ RecordNeverMatches)

(***************************************************************************)
(* However often a destroy is interrupted, repeating it ends it.           *)
(***************************************************************************)
DestroyCompletes == (stored.phase = "destroying") ~> (stored.phase = "destroyed")

=============================================================================

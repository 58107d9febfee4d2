------------------------- MODULE DeploymentInvariant -------------------------
(***************************************************************************)
(* The inductive invariant of the deployment.  It ties together what the   *)
(* lock holder has in memory, what state.json says, the provider           *)
(* operations ever requested and what stands in the cloud.                 *)
(***************************************************************************)
EXTENDS DeploymentProperties

(* Steps before the first write of a command, steps at which an effect is  *)
(* journaled, and steps that need one.                                     *)
Opening    == {"plan_file", "state_file"}
Journaling == {"effects", "dns", "targets"}
Executing  == {"pending", "deleting", "record", "poll", "receipt"}

MayBeAt(step, m) ==
  /\ step \in Journaling => ~HasPending(m)
  /\ step \in Executing => HasPending(m)
  /\ step = "deleting" => m.pending.action = "delete" /\ m.pending.slot # Dns

(***************************************************************************)
(* The control state of a process agrees with its memory: nothing in       *)
(* memory without the lock, a deployment past the first write, a journaled *)
(* effect exactly while one is executed.                                   *)
(***************************************************************************)
ControlAgrees ==
  \A p \in Proc : LET pc == proc[p].pc  m == proc[p].mem IN
    /\ pc \in Unlocked => m = NoState
    /\ pc \notin Unlocked \cup Opening => m.phase # "none"
    /\ MayBeAt(pc, m)

(***************************************************************************)
(* state.json passed validation, and is empty until its first write.       *)
(***************************************************************************)
StoredIsValid ==
  /\ Validate(stored)
  /\ stored.phase = "none" => stored = NoState

(***************************************************************************)
(* The journal: a cleared journal is empty; a creating effect has an empty *)
(* slot; a deleting one belongs to an active destroy, whose plan spares    *)
(* the disk unless it purges it.                                           *)
(***************************************************************************)
SoundJournal(s) ==
  /\ ~HasPending(s) => s.pending = NoEffect
  /\ s.pending.action \in {"create", "update"} => s.res[s.pending.slot] = NoId
  /\ s.pending.action = "delete" => s.destroy.on
  /\ ~s.destroy.on => s.destroy.left = {}
  /\ s.destroy.plan.target[Disk] # NoId => s.destroy.plan.purge

JournalIsSound == SoundJournal(stored)

(***************************************************************************)
(* Effect ids are fresh: the journaled effect has the last one, recorded   *)
(* resources and requested operations have older or equal ones.            *)
(***************************************************************************)
IdsAreFresh ==
  /\ HasPending(stored) => /\ stored.pending.id = lastId
                           /\ stored.pending.id > 0
                           /\ stored.pending.target < stored.pending.id
  /\ \A t \in Slots : stored.res[t] <= lastId
  /\ \A o \in ops : o.id \in 1..lastId
  /\ \A o1, o2 \in ops : o1.id = o2.id => o1 = o2

(***************************************************************************)
(* An operation is the request of one effect: of the journaled one if it   *)
(* has its id; a delete is for a resource older than itself, or for what   *)
(* somebody put in its place after the check; only the A record is ever    *)
(* updated.                                                                *)
(***************************************************************************)
Strayed(o) == RaceDelete /\ o.target = Foreign

OperationsAreEffects ==
  /\ stored.pending.action = "update" => stored.pending.slot = Dns
  /\ \A o \in ops : o.slot # Dns =>
       /\ o.action \in {"create", "delete"}
       /\ o.action = "delete" => o.target \in 1..(o.id - 1) \/ Strayed(o)
  /\ \A o \in ops : (HasPending(stored) /\ o.id = stored.pending.id) =>
       /\ o.slot = stored.pending.slot
       /\ o.action = stored.pending.action
       /\ (o.action = "delete" /\ o.slot # Dns) =>
            o.target = stored.pending.target \/ Strayed(o)

ZoneIsOurs == zone.by # NoId => zone.value = "node"

(***************************************************************************)
(* What the lock holder has established about the cloud before it requests *)
(* a delete, and before it records the receipt of an effect.               *)
(***************************************************************************)
Earned(step, e) ==
  /\ step = "deleting" =>
       \/ cloud[e.slot] = e.target \/ Requested(e)
       \/ RaceDelete /\ cloud[e.slot] \in {NoId, Foreign}
  /\ (step = "receipt" /\ e.action = "create" /\ e.slot # Dns) =>
       \E o \in ops : o.id = e.id /\ o.st # "running"
  /\ (step = "receipt" /\ e.action = "delete") =>
       IF e.slot = Dns THEN zone.by = NoId ELSE cloud[e.slot] # e.target

ReceiptIsEarned == \A p \in Proc : Earned(proc[p].pc, stored.pending)

(* The part that needs no assumption on the environment ... *)
Discipline ==
  /\ TypeOK
  /\ ControlAgrees
  /\ LockedMemoryIsCurrent
  /\ StoredIsValid
  /\ JournalIsSound

(* ... and the part that relates state.json to the cloud. *)
CloudAgrees ==
  /\ IdsAreFresh
  /\ OperationsAreEffects
  /\ ZoneIsOurs
  /\ NoOrphan

IInv == Discipline /\ CloudAgrees /\ ReceiptIsEarned
=============================================================================

------------------------------ MODULE Deployment ------------------------------
(***************************************************************************)
(* The deployer CLI over one deployment: any number of dirextalk-deployer  *)
(* processes, the node directory they share, Google Cloud, the A record of *)
(* the domain and the operator's machine.                                  *)
(*                                                                         *)
(* One action is the code between two points where the process may die or  *)
(* an awaited call may fail: a durable write, a mutating request, an       *)
(* installer run.  Checks made on the way are guards; where one fails the  *)
(* command returns an error, which drops its memory and its lock (Quit).   *)
(***************************************************************************)
EXTENDS DeploymentState

CONSTANTS
  Proc,            \* deployer processes the operator may run
  Commands,        \* the commands the operator runs in this instance
  DnsModes,        \* who the observation finds answering for the zone
  InstallConnect,  \* the config's install_connect
  RaceDelete,      \* may others act between a delete's check and its request
  MaxPlans,        \* bound on the generations of approved deployment plans
  MaxFaults        \* bounds on faults: aborts, failed operations, tampering

Faults == {"abort", "fail", "tamper"}

ASSUME ConstantsAssumption ==
  /\ Commands \subseteq {"plan", "apply", "resume", "pending_only", "connect",
                         "destroy_plan", "destroy", "purge_plan", "purge"}
  /\ DnsModes \subseteq {"external", "cloud"}
  /\ InstallConnect \in BOOLEAN
  /\ RaceDelete \in BOOLEAN
  /\ MaxPlans \in Nat
  /\ MaxFaults \in [Faults -> Nat]
  /\ "none" \notin Proc

VARIABLES
  stored,      \* state.json: authenticated, replaced atomically
  storedPlan,  \* plan.json: the plan of the last apply
  nodeDir,     \* the node directory exists
  lock,        \* the process holding the directory's exclusive lock
  proc,        \* the command each process is executing
  shown,       \* the plans last displayed for approval
  lastId,      \* the last effect id minted (ids are fresh UUIDs)
  cloud,       \* numeric id of the resource under each of our names
  ops,         \* provider operations by effect id
  zone,        \* the domain's A record and the effect that wrote it
  host,        \* the instance the host installer completed on
  local,       \* product credentials and Connect daemon on this machine
  faults       \* faults so far

vars == <<stored, storedPlan, nodeDir, lock, proc, shown, lastId, cloud, ops,
          zone, host, local, faults>>

outside == <<cloud, ops, zone, host>>
files   == <<stored, storedPlan, nodeDir>>

(***************************************************************************)
(* A process: the step it is at, the command, its in-memory copy of the    *)
(* state, the plan it built or loaded and the plan the operator approved.  *)
(* began is a history: what there was to see when the verification of the  *)
(* product began.                                                          *)
(***************************************************************************)
Unlocked == {"idle", "observed", "fresh"}
Steps == Unlocked \cup
  {"plan_file", "state_file", "resume", "pending", "deleting", "record",
   "poll", "receipt", "effects", "dns", "host", "installing", "hosted",
   "product", "connect", "wired", "verify", "reach", "doctor", "verified",
   "destroy", "targets", "uninstall", "destroyed", "linked"}

(* What others can change of that which a verification looks at. *)
Sight == [instance : Nat \cup {Foreign}, address : Nat \cup {Foreign},
          dns : DnsValues]
Unseen == [instance |-> NoId, address |-> NoId, dns |-> "absent"]

Process == [pc : Steps, cmd : Commands \cup {"none"}, mem : State,
            plan : Plan, approved : Plan, began : Sight]

Idle == [pc |-> "idle", cmd |-> "none", mem |-> NoState, plan |-> NoPlan,
         approved |-> NoPlan, began |-> Unseen]

Operation == [id : Nat, slot : Slots, action : {"create", "update", "delete"},
              target : Int, st : {"running", "done", "failed"}]

(* No destroy plan was displayed yet; a purge plan always has a disk. *)
Unreviewed == [NoDestroyPlan EXCEPT !.purge = TRUE]

TypeOK ==
  /\ stored \in State
  /\ storedPlan \in Plan
  /\ nodeDir \in BOOLEAN
  /\ lock \in Proc \cup {"none"}
  /\ proc \in [Proc -> Process]
  /\ shown \in [deploy : Plan, destroy : DestroyPlan]
  /\ lastId \in Nat
  /\ cloud \in [Created -> Nat \cup {Foreign}]
  /\ \A o \in ops : o \in Operation
  /\ zone \in [value : DnsValues, by : Nat, standard : BOOLEAN]
  /\ host \in Nat
  /\ local \in [creds : BOOLEAN, daemon : BOOLEAN]
  /\ faults \in [Faults -> Nat]

(***************************************************************************)
(* The A record as others write it.  standard says that it lives 300       *)
(* seconds, the only TTL an update expects and writes.                     *)
(***************************************************************************)
RecordsOfOthers(values) ==
  {r \in [value : values, by : {NoId}, standard : BOOLEAN] :
     r.value \in {"absent", "many"} => r.standard}

Init ==
  /\ stored = NoState
  /\ storedPlan = NoPlan
  /\ nodeDir = FALSE
  /\ lock = "none"
  /\ proc = [p \in Proc |-> Idle]
  /\ shown = [deploy |-> NoPlan, destroy |-> Unreviewed]
  /\ lastId = 0
  /\ cloud = [s \in Created |-> NoId]
  /\ ops = {}
  /\ zone \in RecordsOfOthers({"absent", "old", "many"})
  /\ host = NoId
  /\ local = [creds |-> FALSE, daemon |-> FALSE]
  /\ faults = [f \in Faults |-> 0]

-----------------------------------------------------------------------------
(***************************************************************************)
(* How a step ends.                                                        *)
(***************************************************************************)

(* The command returns: memory is dropped, the lock is released. *)
Quit(p) ==
  /\ proc' = [proc EXCEPT ![p] = Idle]
  /\ lock' = IF lock = p THEN "none" ELSE lock

Goto(p, step) == proc' = [proc EXCEPT ![p].pc = step] /\ UNCHANGED lock

(* StateStore::write: an invalid state is an error, a valid one replaces   *)
(* state.json before anything else happens.                                *)
WriteState(p, s, step) ==
  \/ /\ Validate(s)
     /\ stored' = s
     /\ proc' = [proc EXCEPT ![p].pc = step, ![p].mem = s]
     /\ UNCHANGED lock
  \/ /\ ~Validate(s)
     /\ Quit(p)
     /\ UNCHANGED stored

(* The write that ends a command. *)
WriteLast(p, s) ==
  /\ stored' = IF Validate(s) THEN s ELSE stored
  /\ Quit(p)

(* Mutant: the directory's lock is advisory and nobody asks for it. *)
OpenStoreUnlocked(p) == nodeDir /\ stored.phase # "none"

(* Opening the directory takes its exclusive lock and reads state.json.    *)
OpenStore(p) == nodeDir /\ stored.phase # "none" /\ lock = "none"

(* revalidate_resource: the recorded resource is still the one observed. *)
Live(s, t) == IF t = Dns THEN zone.value = "node" ELSE cloud[t] = s.res[t]
AllLive(s) == \A t \in Slots : s.res[t] # NoId => Live(s, t)

(* Cloud DNS or the public resolvers answer with the node's address. *)
DnsReady == zone.value = "node"

-----------------------------------------------------------------------------
(***************************************************************************)
(* deploy plan and deploy apply.  The observation (projects, zone, prices) *)
(* is made before the node directory is looked up and locked.              *)
(***************************************************************************)
Observations == [stage : {"none"}, no : {0}, dns : DnsModes, cur : {zone.value}]

BuiltPlan(obs) ==
  IF stored.phase = "none" THEN InitialPlan(obs.dns, obs.cur)
                           ELSE ContinuationPlan(stored, obs.cur)

DeployPlan(p) ==
  /\ "plan" \in Commands
  /\ proc[p].pc = "idle"
  /\ nodeDir => OpenStore(p)
  /\ stored.plan.no < MaxPlans
  /\ \E obs \in Observations :
       /\ nodeDir => CanContinue(stored, obs.dns)
       /\ shown' = [shown EXCEPT !.deploy = BuiltPlan(obs)]
  /\ UNCHANGED <<files, lock, proc, lastId, outside, local, faults>>

ApplyObserve(p) ==
  /\ "apply" \in Commands
  /\ proc[p].pc = "idle"
  /\ shown.deploy # NoPlan
  /\ \E obs \in Observations :
       proc' = [proc EXCEPT ![p] = [Idle EXCEPT !.pc = "observed",
                  !.cmd = "apply", !.plan = obs, !.approved = shown.deploy]]
  /\ UNCHANGED <<files, lock, shown, lastId, outside, local, faults>>

(* find_for_config finds a locked, readable state and the continuation     *)
(* built on it is the approved one.                                        *)
ApplyFound(p) ==
  /\ proc[p].pc = "observed"
  /\ OpenStore(p)
  /\ LET plan == BuiltPlan(proc[p].plan) IN
     /\ CanContinue(stored, proc[p].plan.dns)
     /\ plan = proc[p].approved
     /\ proc' = [proc EXCEPT ![p].pc = "plan_file", ![p].mem = stored,
                             ![p].plan = plan]
     /\ lock' = p
  /\ UNCHANGED <<files, shown, lastId, outside, local, faults>>

ApplyNotFound(p) ==
  /\ proc[p].pc = "observed"
  /\ ~nodeDir
  /\ proc' = [proc EXCEPT ![p].pc = "fresh",
                ![p].plan = InitialPlan(proc[p].plan.dns, proc[p].plan.cur)]
  /\ UNCHANGED <<files, lock, shown, lastId, outside, local, faults>>

(* The directory is there but locked, without state.json, or its state     *)
(* admits no such plan, or the approval is for another plan.               *)
ApplyRefused(p) ==
  /\ proc[p].pc = "observed"
  /\ nodeDir
  /\ ~ /\ OpenStore(p)
       /\ CanContinue(stored, proc[p].plan.dns)
       /\ BuiltPlan(proc[p].plan) = proc[p].approved
  /\ Quit(p)
  /\ UNCHANGED <<files, shown, lastId, outside, local, faults>>

(* open_for_plan creates and locks the directory before the approval is    *)
(* compared and the (possibly no longer missing) state is read.            *)
ApplyOpenFresh(p) ==
  /\ proc[p].pc = "fresh"
  /\ IF lock = "none"
       THEN /\ nodeDir' = TRUE
            /\ IF proc[p].plan = proc[p].approved /\ stored.phase = "none"
                 THEN /\ lock' = p
                      /\ proc' = [proc EXCEPT ![p].pc = "plan_file"]
                 ELSE Quit(p)
       ELSE Quit(p) /\ UNCHANGED nodeDir
  /\ UNCHANGED <<stored, storedPlan, shown, lastId, outside, local, faults>>

WritePlanFile(p) ==
  /\ proc[p].pc = "plan_file"
  /\ storedPlan' = proc[p].plan
  /\ Goto(p, "state_file")
  /\ UNCHANGED <<stored, nodeDir, shown, lastId, outside, local, faults>>

FreshState(plan) ==
  [NoState EXCEPT !.phase = "applying", !.plan = plan,
                  !.requested = InstallConnect]

WriteApplying(p) ==
  /\ proc[p].pc = "state_file"
  /\ WriteState(p,
       IF proc[p].mem.phase = "none" THEN FreshState(proc[p].plan)
       ELSE [proc[p].mem EXCEPT !.phase = "applying", !.plan = proc[p].plan],
       "resume")
  /\ UNCHANGED <<storedPlan, nodeDir, shown, lastId, outside, local, faults>>

-----------------------------------------------------------------------------
(***************************************************************************)
(* deploy resume: resume_plan, also the second half of apply, and          *)
(* resume_pending_only.                                                    *)
(***************************************************************************)
Resume(p, cmd) ==
  /\ cmd \in Commands \cap {"resume", "pending_only"}
  /\ proc[p].pc = "idle"
  /\ OpenStore(p)
  /\ lock' = p
  /\ proc' = [proc EXCEPT ![p] = [Idle EXCEPT !.pc = "resume", !.cmd = cmd,
                !.mem = stored, !.plan = storedPlan]]
  /\ UNCHANGED <<files, shown, lastId, outside, local, faults>>

(* The plan is the one the state approved and the journaled effect, if     *)
(* any, is one of its effects; pending_only also needs an effect.          *)
PlanBinds(plan, s) ==
  plan = s.plan /\ (HasPending(s) => PlanMatches(plan, s, s.pending))

(* Mutant: plan.json is resumed without comparing it to the state. *)
ResumePlanUnbound(p) ==
  /\ proc[p].pc = "resume"
  /\ LET s == proc[p].mem IN
     IF proc[p].cmd = "pending_only" => HasPending(s)
       THEN Goto(p, IF HasPending(s) THEN "pending" ELSE "effects")
       ELSE Quit(p)
  /\ UNCHANGED <<files, shown, lastId, outside, local, faults>>

ResumePlan(p) ==
  /\ proc[p].pc = "resume"
  /\ LET s == proc[p].mem IN
     IF PlanBinds(proc[p].plan, s)
          /\ (proc[p].cmd = "pending_only" => HasPending(s))
       THEN Goto(p, IF HasPending(s) THEN "pending" ELSE "effects")
       ELSE Quit(p)
  /\ UNCHANGED <<files, shown, lastId, outside, local, faults>>

(* Mutant: the effect is kept in memory until its operation is recorded. *)
JournalEffectInMemory(p, action, t, target, cur) ==
  /\ proc' = [proc EXCEPT ![p].pc = "pending", ![p].mem.pending =
                [action |-> action, slot |-> t, id |-> lastId + 1,
                 target |-> target, cur |-> cur, op |-> FALSE]]
  /\ lastId' = lastId + 1
  /\ UNCHANGED <<stored, lock>>

(* execute_effect: the effect is durable before its request exists.        *)
JournalEffect(p, action, t, target, cur) ==
  LET s == [proc[p].mem EXCEPT !.pending =
              [action |-> action, slot |-> t, id |-> lastId + 1,
               target |-> target, cur |-> cur, op |-> FALSE]]
  IN /\ WriteState(p, s, "pending")
     /\ lastId' = IF Validate(s) THEN lastId + 1 ELSE lastId

(* The loop over the plan's effects. *)
NextEffect(p) ==
  /\ proc[p].pc = "effects"
  /\ \/ \E t \in Slots :
          /\ NextPlanned(proc[p].plan, proc[p].mem, t)
          /\ LET cur == IF t = Dns THEN proc[p].plan.cur ELSE "absent" IN
             JournalEffect(p, IF t = Dns THEN DnsAction(cur) ELSE "create", t,
                           NoId, cur)
     \/ /\ \A t \in Slots : ~NextPlanned(proc[p].plan, proc[p].mem, t)
        /\ Goto(p, "dns")
        /\ UNCHANGED <<stored, lastId>>
  /\ UNCHANGED <<storedPlan, nodeDir, shown, outside, local, faults>>

(* External DNS that does not answer yet stops the command; Cloud DNS      *)
(* observed by the initial plan gets its record.                           *)
ResolveDns(p) ==
  /\ proc[p].pc = "dns"
  /\ \/ /\ proc[p].plan.dns = "external" /\ ~DnsReady
        /\ WriteLast(p, [proc[p].mem EXCEPT !.phase = "waiting_user"])
        /\ UNCHANGED lastId
     \/ /\ AutomaticDns(proc[p].plan, proc[p].mem)
        /\ JournalEffect(p, DnsAction(proc[p].plan.cur), Dns, NoId,
                         proc[p].plan.cur)
     \/ /\ ~(proc[p].plan.dns = "external" /\ ~DnsReady)
        /\ ~AutomaticDns(proc[p].plan, proc[p].mem)
        /\ Goto(p, "host")
        /\ UNCHANGED <<stored, lastId>>
  /\ UNCHANGED <<storedPlan, nodeDir, shown, outside, local, faults>>

-----------------------------------------------------------------------------
(***************************************************************************)
(* resume_pending: one journaled effect from request to receipt.  A        *)
(* request carries the effect id, so the provider answers a repeated one   *)
(* with the operation it already has.                                      *)
(***************************************************************************)
Pending(p) == proc[p].mem.pending
Requested(e) == \E o \in ops : o.id = e.id

Submit(e, target) ==
  ops' = IF Requested(e) THEN ops
         ELSE ops \cup {[id |-> e.id, slot |-> e.slot, action |-> e.action,
                         target |-> target, st |-> "running"]}

ReadyToStart(p, action) ==
  /\ proc[p].pc = "pending"
  /\ ~Pending(p).op
  /\ Pending(p).action \in action

(* Mutant: the request id is minted anew for every request. *)
StartCreateAnew(p) ==
  /\ ReadyToStart(p, {"create"}) /\ Pending(p).slot # Dns
  /\ LET e == Pending(p) IN
     IF cloud[e.slot] = NoId /\ \A d \in Needs(e.slot) : cloud[d] # NoId
       THEN Submit(e, NoId) /\ Goto(p, "record")
       ELSE Quit(p) /\ UNCHANGED ops
  /\ UNCHANGED <<files, shown, lastId, cloud, zone, host, local, faults>>

(* start_create_effect; the API refuses a taken name or a missing parent. *)
StartCreate(p) ==
  /\ ReadyToStart(p, {"create"}) /\ Pending(p).slot # Dns
  /\ LET e == Pending(p)
         startable == /\ \A d \in Needs(e.slot) : proc[p].mem.res[d] # NoId
                      /\ \/ Requested(e)
                         \/ /\ cloud[e.slot] = NoId
                            /\ \A d \in Needs(e.slot) : cloud[d] # NoId
     IN IF startable THEN Submit(e, NoId) /\ Goto(p, "record")
                     ELSE Quit(p) /\ UNCHANGED ops
  /\ UNCHANGED <<files, shown, lastId, cloud, zone, host, local, faults>>

(* Mutant: whatever stands under the name is deleted. *)
CheckDeleteByName(p) ==
  /\ ReadyToStart(p, {"delete"}) /\ Pending(p).slot # Dns
  /\ Goto(p, IF cloud[Pending(p).slot] = NoId THEN "receipt" ELSE "deleting")
  /\ UNCHANGED <<files, shown, lastId, outside, local, faults>>

(* Mutant: a target that is already gone is an error. *)
CheckDeletePresent(p) ==
  /\ ReadyToStart(p, {"delete"}) /\ Pending(p).slot # Dns
  /\ IF cloud[Pending(p).slot] = Pending(p).target
       THEN Goto(p, "deleting") ELSE Quit(p)
  /\ UNCHANGED <<files, shown, lastId, outside, local, faults>>

(* A delete first reads the target: absent is done, replaced is an error. *)
CheckDelete(p) ==
  /\ ReadyToStart(p, {"delete"}) /\ Pending(p).slot # Dns
  /\ LET e == Pending(p) IN
     IF cloud[e.slot] = NoId THEN Goto(p, "receipt")
     ELSE IF cloud[e.slot] = e.target THEN Goto(p, "deleting")
     ELSE Quit(p)
  /\ UNCHANGED <<files, shown, lastId, outside, local, faults>>

(* ... then asks for the deletion by name.  *)
RequestDelete(p) ==
  /\ proc[p].pc = "deleting"
  /\ LET e == Pending(p) IN
     IF cloud[e.slot] # NoId \/ Requested(e)
       THEN Submit(e, cloud[e.slot]) /\ Goto(p, "record")
       ELSE Quit(p) /\ UNCHANGED ops
  /\ UNCHANGED <<files, shown, lastId, cloud, zone, host, local, faults>>

DnsGoal(e) == IF e.action = "delete" THEN "absent" ELSE "node"

(* start_dns_change: the record is read once more and replaced as a whole. *)
ChangeDns(e) ==
  /\ Submit(e, NoId)
  /\ zone' = [value |-> DnsGoal(e), standard |-> TRUE,
              by |-> IF DnsGoal(e) = "node" THEN e.id ELSE NoId]

(* Mutant: whatever the record says by now is replaced. *)
StartDnsBlind(p) ==
  /\ ReadyToStart(p, {"create", "update", "delete"}) /\ Pending(p).slot = Dns
  /\ ChangeDns(Pending(p)) /\ Goto(p, "record")
  /\ UNCHANGED <<files, shown, lastId, cloud, host, local, faults>>

(* dns_change_already_satisfied compares the record as a whole with the    *)
(* one an update writes, and with the one it expects: one address, with    *)
(* the TTL of its own, whatever TTL the observed record had.  A delete     *)
(* compares the address, then expects the very record it has just read.    *)
Satisfied(e) ==
  /\ zone.value = DnsGoal(e) /\ zone.standard
  /\ e.cur # "many"
Expected(e) ==
  /\ zone.value = e.cur /\ e.cur # "many"
  /\ zone.standard \/ e.action = "delete"

(* start_dns_update and start_dns_delete: the new record is already there, *)
(* or the expected old one is replaced in one change, or it is an error.   *)
StartDns(p) ==
  /\ ReadyToStart(p, {"create", "update", "delete"}) /\ Pending(p).slot = Dns
  /\ LET e == Pending(p) IN
     CASE Satisfied(e) -> Goto(p, "receipt") /\ UNCHANGED <<ops, zone>>
       [] ~Satisfied(e) /\ Expected(e) ->
            ChangeDns(e) /\ Goto(p, "record")
       [] OTHER -> Quit(p) /\ UNCHANGED <<ops, zone>>
  /\ UNCHANGED <<files, shown, lastId, cloud, host, local, faults>>

RecordOperation(p) ==
  /\ proc[p].pc = "record"
  /\ WriteState(p, [proc[p].mem EXCEPT !.pending.op = TRUE], "poll")
  /\ UNCHANGED <<storedPlan, nodeDir, shown, lastId, outside, local, faults>>

(* require_resource_absent and require_dns_absent.  *)
Gone(t) == IF t = Dns THEN zone.value = "absent" ELSE cloud[t] = NoId

(* What is read back has the properties that were asked for.  *)
InPlace(e) == IF e.slot = Dns THEN zone.value = "node" ELSE cloud[e.slot] = e.id

(* The postcondition read after the operation succeeded. *)
Happened(e) == IF e.action = "delete" THEN Gone(e.slot) ELSE InPlace(e)

(* poll_operation, of the operation the request was answered with.  *)
Over(o, e) == o.id = e.id /\ o.st # "running"

(* Mutant: an accepted operation is taken for a finished one. *)
PollEffectAccepted(p) ==
  /\ \/ proc[p].pc = "poll"
     \/ proc[p].pc = "pending" /\ Pending(p).op
  /\ Goto(p, "receipt")
  /\ UNCHANGED <<files, shown, lastId, outside, local, faults>>

(* poll_effect waits while the operation runs; failure is an error. *)
PollEffect(p) ==
  /\ \/ proc[p].pc = "poll"
     \/ proc[p].pc = "pending" /\ Pending(p).op
  /\ \E o \in ops :
       /\ Over(o, Pending(p))
       /\ IF o.st = "done" /\ Happened(Pending(p))
            THEN Goto(p, "receipt") ELSE Quit(p)
  /\ UNCHANGED <<files, shown, lastId, outside, local, faults>>

(* revalidate_effect, apply_receipt, advance and the write that clears the *)
(* journal.                                                                *)
RecordReceipt(p) ==
  /\ proc[p].pc = "receipt"
  /\ LET s == proc[p].mem
         e == s.pending
         accepted == IF e.action = "delete"
                       THEN s.destroy.on /\ PendingMatchesTarget(e, s.destroy)
                       ELSE Happened(e)
     IN CASE ~accepted -> Quit(p) /\ UNCHANGED stored
          [] accepted /\ proc[p].cmd = "pending_only" ->
               WriteLast(p, ApplyReceipt(s))
          [] OTHER ->
               WriteState(p, ApplyReceipt(s),
                 IF proc[p].cmd \in {"destroy", "purge"} THEN "targets"
                                                         ELSE "effects")
  /\ UNCHANGED <<storedPlan, nodeDir, shown, lastId, outside, local, faults>>

-----------------------------------------------------------------------------
(***************************************************************************)
(* The rest of resume_plan: host, product, Connect, verification.          *)
(***************************************************************************)
RevalidateHost(p) ==
  /\ proc[p].pc = "host"
  /\ LET s == proc[p].mem IN
     CASE s.receipt                -> Goto(p, "product")
       [] ~s.receipt /\ AllLive(s) -> Goto(p, "installing")
       [] OTHER                    -> Quit(p)
  /\ UNCHANGED <<files, shown, lastId, outside, local, faults>>

(* Mutant: the installer is started and not waited for. *)
InstallHostDetached(p) ==
  /\ proc[p].pc = "installing"
  /\ IF Live(proc[p].mem, Instance) /\ Live(proc[p].mem, Address)
       THEN Goto(p, "hosted") ELSE Quit(p)
  /\ UNCHANGED <<files, shown, lastId, outside, local, faults>>

(* install_host reads instance and address again before every attempt at a *)
(* connection; what runs on the host then is the module HostInstall.       *)
InstallHost(p) ==
  /\ proc[p].pc = "installing"
  /\ LET s == proc[p].mem IN
     IF Live(s, Instance) /\ Live(s, Address)
       THEN host' = s.res[Instance] /\ Goto(p, "hosted")
       ELSE Quit(p) /\ UNCHANGED host
  /\ UNCHANGED <<files, shown, lastId, cloud, ops, zone, local, faults>>

WriteInstalled(p) ==
  /\ proc[p].pc = "hosted"
  /\ WriteState(p, [proc[p].mem EXCEPT !.receipt = TRUE, !.phase = "installed"],
                "product")
  /\ UNCHANGED <<storedPlan, nodeDir, shown, lastId, outside, local, faults>>

(* Mutant: instance and address are not read again. *)
HostAnswersByReceipt(s) == host = s.res[Instance] /\ DnsReady

(* The product answers: over the pinned SSH identity of the installed host *)
(* (verified_transport) and under its domain, on the recorded address.     *)
HostAnswers(s) ==
  /\ host = s.res[Instance] /\ Live(s, Instance) /\ Live(s, Address)
  /\ DnsReady

CompleteProduct(p) ==
  /\ proc[p].pc = "product"
  /\ IF local.creds \/ HostAnswers(proc[p].mem)
       THEN local' = [local EXCEPT !.creds = TRUE] /\ Goto(p, "connect")
       ELSE Quit(p) /\ UNCHANGED local
  /\ UNCHANGED <<files, shown, lastId, outside, faults>>

InstallConnectStep(p) ==
  /\ proc[p].pc = "connect"
  /\ IF proc[p].mem.requested /\ ~proc[p].mem.installed
       THEN local' = [local EXCEPT !.daemon = TRUE] /\ Goto(p, "wired")
       ELSE Goto(p, "verify") /\ UNCHANGED local
  /\ UNCHANGED <<files, shown, lastId, outside, faults>>

WriteWiring(p) ==
  /\ proc[p].pc = "wired"
  /\ WriteState(p, [proc[p].mem EXCEPT !.installed = TRUE], "verify")
  /\ UNCHANGED <<storedPlan, nodeDir, shown, lastId, outside, local, faults>>

(***************************************************************************)
(* verify_product, one awaited check after the other: the stored           *)
(* credentials and the host's own proofs over SSH, the public API under    *)
(* the domain, the MCP endpoint and the Connect daemon.  Others may change *)
(* what was looked at before the state is written.                         *)
(***************************************************************************)
Begin(p) ==
  /\ proc' = [proc EXCEPT ![p].pc = "reach", ![p].began =
                [instance |-> cloud[Instance], address |-> cloud[Address],
                 dns |-> zone.value]]
  /\ UNCHANGED lock

VerifyHost(p) ==
  /\ proc[p].pc = "verify"
  /\ IF local.creds /\ HostAnswers(proc[p].mem) THEN Begin(p) ELSE Quit(p)
  /\ UNCHANGED <<files, shown, lastId, outside, local, faults>>

VerifyHttp(p) ==
  /\ proc[p].pc = "reach"
  /\ IF HostAnswers(proc[p].mem) THEN Goto(p, "doctor") ELSE Quit(p)
  /\ UNCHANGED <<files, shown, lastId, outside, local, faults>>

VerifyConnect(p) ==
  /\ proc[p].pc = "doctor"
  /\ LET s == proc[p].mem IN
     IF HostAnswers(s) /\ (s.requested => local.daemon)
       THEN Goto(p, "verified") ELSE Quit(p)
  /\ UNCHANGED <<files, shown, lastId, outside, local, faults>>

WriteComplete(p) ==
  /\ proc[p].pc = "verified"
  /\ WriteLast(p, [proc[p].mem EXCEPT !.phase = "complete"])
  /\ UNCHANGED <<storedPlan, nodeDir, shown, lastId, outside, local, faults>>

(* connect install: any phase, once product credentials are stored. *)
ConnectInstall(p) ==
  /\ "connect" \in Commands
  /\ proc[p].pc = "idle"
  /\ OpenStore(p) /\ AllLive(stored) /\ local.creds
  /\ local' = [local EXCEPT !.daemon = TRUE]
  /\ lock' = p
  /\ proc' = [proc EXCEPT ![p] = [Idle EXCEPT !.pc = "linked",
                !.cmd = "connect", !.mem = stored]]
  /\ UNCHANGED <<files, shown, lastId, outside, faults>>

WriteLinked(p) ==
  /\ proc[p].pc = "linked"
  /\ WriteLast(p, [proc[p].mem EXCEPT !.requested = TRUE, !.installed = TRUE])
  /\ UNCHANGED <<storedPlan, nodeDir, shown, lastId, outside, local, faults>>

-----------------------------------------------------------------------------
(***************************************************************************)
(* deploy destroy.                                                         *)
(***************************************************************************)
PlanDestroy(s, purge) ==
  IF s.destroy.on THEN s.destroy.plan ELSE DestroyPlanOf(s, purge)

CanPlanDestroy(s, purge) ==
  IF s.destroy.on THEN s.destroy.plan.purge = purge
  ELSE AllLive(s) /\ (purge => s.res[Disk] # NoId)

(* Without an approval the command displays the plan and changes nothing. *)
ShowDestroyPlan(p, purge) ==
  /\ (IF purge THEN "purge_plan" ELSE "destroy_plan") \in Commands
  /\ proc[p].pc = "idle"
  /\ OpenStore(p) /\ CanPlanDestroy(stored, purge)
  /\ shown' = [shown EXCEPT !.destroy = PlanDestroy(stored, purge)]
  /\ UNCHANGED <<files, lock, proc, lastId, outside, local, faults>>

(* Mutant: an approval is for whatever plan is built now. *)
OpenDestroyUnreviewed(p, purge) ==
  LET cmd == IF purge THEN "purge" ELSE "destroy" IN
  /\ cmd \in Commands
  /\ proc[p].pc = "idle"
  /\ OpenStore(p) /\ CanPlanDestroy(stored, purge)
  /\ lock' = p
  /\ proc' = [proc EXCEPT ![p] = [Idle EXCEPT !.pc = "destroy", !.cmd = cmd,
                !.mem = stored]]
  /\ UNCHANGED <<files, shown, lastId, outside, local, faults>>

(* With one, the plan rebuilt now must be the plan that was displayed. *)
OpenDestroy(p, purge) ==
  LET cmd == IF purge THEN "purge" ELSE "destroy" IN
  /\ cmd \in Commands
  /\ proc[p].pc = "idle"
  /\ OpenStore(p) /\ CanPlanDestroy(stored, purge)
  /\ shown.destroy = PlanDestroy(stored, purge)
  /\ lock' = p
  /\ proc' = [proc EXCEPT ![p] = [Idle EXCEPT !.pc = "destroy", !.cmd = cmd,
                !.mem = stored]]
  /\ UNCHANGED <<files, shown, lastId, outside, local, faults>>

BeginDestroy(p) ==
  /\ proc[p].pc = "destroy"
  /\ LET s == proc[p].mem IN
     IF s.phase = "destroying"
       THEN /\ Goto(p, IF HasPending(s) THEN "pending" ELSE "targets")
            /\ UNCHANGED stored
       ELSE WriteState(p, [s EXCEPT !.phase = "destroying",
              !.destroy = ActiveDestroyOf(
                            DestroyPlanOf(s, proc[p].cmd = "purge"))],
              "targets")
  /\ UNCHANGED <<storedPlan, nodeDir, shown, lastId, outside, local, faults>>

(* The loop over the remaining targets: the recorded and the observed      *)
(* resource must still be the approved one before its delete is journaled. *)
(* An empty slot, which the code passes over without moving the cursor,    *)
(* cannot be a remaining target: ValidateActiveDestroy keeps them filled.  *)
NextTarget(p) ==
  /\ proc[p].pc = "targets"
  /\ LET s == proc[p].mem IN
     \/ \E t \in Slots :
          /\ IsCurrent(s.destroy, t)
          /\ IF s.res[t] = s.destroy.plan.target[t] /\ Live(s, t)
               THEN JournalEffect(p, "delete", t, s.res[t],
                                  IF t = Dns THEN "node" ELSE "absent")
               ELSE Quit(p) /\ UNCHANGED <<stored, lastId>>
     \/ /\ s.destroy.left = {}
        /\ Goto(p, "uninstall")
        /\ UNCHANGED <<stored, lastId>>
  /\ UNCHANGED <<storedPlan, nodeDir, shown, outside, local, faults>>

UninstallConnect(p) ==
  /\ proc[p].pc = "uninstall"
  /\ IF proc[p].mem.installed
       THEN /\ local' = [local EXCEPT !.daemon = FALSE]
            /\ proc' = [proc EXCEPT ![p].pc = "destroyed", ![p].mem =
                          [@ EXCEPT !.requested = FALSE, !.installed = FALSE]]
            /\ UNCHANGED lock
       ELSE Goto(p, "destroyed") /\ UNCHANGED local
  /\ UNCHANGED <<files, shown, lastId, outside, faults>>

(* Mutant: the receipt of a retained disk is dropped with the others. *)
WriteDestroyedEmpty(p) ==
  /\ proc[p].pc = "destroyed"
  /\ WriteLast(p, [proc[p].mem EXCEPT !.phase = "destroyed", !.res = NoTargets,
                     !.destroy = NoDestroy, !.receipt = FALSE])
  /\ UNCHANGED <<storedPlan, nodeDir, shown, lastId, outside, local, faults>>

WriteDestroyed(p) ==
  /\ proc[p].pc = "destroyed"
  /\ WriteLast(p, [proc[p].mem EXCEPT !.phase = "destroyed",
                     !.destroy = NoDestroy, !.receipt = FALSE])
  /\ UNCHANGED <<storedPlan, nodeDir, shown, lastId, outside, local, faults>>

-----------------------------------------------------------------------------
(***************************************************************************)
(* What the code does not control.                                         *)
(***************************************************************************)
Spend(f) ==
  /\ faults[f] < MaxFaults[f]
  /\ faults' = [faults EXCEPT ![f] = @ + 1]

(* The process dies, or an awaited call fails or times out. *)
Abort(p) ==
  /\ proc[p].pc # "idle"
  /\ Spend("abort")
  /\ Quit(p)
  /\ UNCHANGED <<files, shown, lastId, outside, local>>

(* A running operation takes effect.  An insert whose name was taken in    *)
(* the meantime fails.                                                     *)
OperationDone(o) ==
  /\ o.st = "running"
  /\ LET taken == o.slot # Dns /\ o.action = "create" /\ cloud[o.slot] # NoId IN
     /\ ops' = (ops \ {o}) \cup
                 {[o EXCEPT !.st = IF taken THEN "failed" ELSE "done"]}
     /\ cloud' = CASE o.slot = Dns \/ taken -> cloud
                   [] o.slot # Dns /\ o.action = "create" /\ ~taken ->
                        [cloud EXCEPT ![o.slot] = o.id]
                   [] OTHER -> [cloud EXCEPT ![o.slot] =
                                  IF @ = o.target THEN NoId ELSE @]
  /\ UNCHANGED <<files, lock, proc, shown, lastId, zone, host, local, faults>>

OperationFails(o) ==
  /\ o.st = "running" /\ o.slot # Dns
  /\ Spend("fail")
  /\ ops' = (ops \ {o}) \cup {[o EXCEPT !.st = "failed"]}
  /\ UNCHANGED <<files, lock, proc, shown, lastId, cloud, zone, host, local>>

(* Somebody deletes a resource under one of our names or puts another one  *)
(* in its place.                                                           *)
Tamper(s) ==
  /\ Spend("tamper")
  /\ ~RaceDelete => \A p \in Proc : proc[p].pc # "deleting"
  /\ \E id \in {NoId, Foreign} \ {cloud[s]} : cloud' = [cloud EXCEPT ![s] = id]
  /\ UNCHANGED <<files, lock, proc, shown, lastId, ops, zone, host, local>>

TamperDns ==
  /\ Spend("tamper")
  /\ zone' \in RecordsOfOthers({"absent", "other"} \ {zone.value})
  /\ UNCHANGED <<files, lock, proc, shown, lastId, cloud, ops, host, local>>

(* The operator creates the A record the waiting command asked for. *)
OperatorSetsDns ==
  /\ stored.phase = "waiting_user" /\ ~DnsReady
  /\ zone' \in RecordsOfOthers({"node"})
  /\ UNCHANGED <<files, lock, proc, shown, lastId, cloud, ops, host, local,
                 faults>>

-----------------------------------------------------------------------------
(* What a process does by itself once a command is started. *)
Step(p) ==
  \/ ApplyFound(p) \/ ApplyNotFound(p) \/ ApplyRefused(p) \/ ApplyOpenFresh(p)
  \/ WritePlanFile(p) \/ WriteApplying(p)
  \/ ResumePlan(p) \/ NextEffect(p) \/ ResolveDns(p)
  \/ StartCreate(p) \/ CheckDelete(p) \/ RequestDelete(p) \/ StartDns(p)
  \/ RecordOperation(p) \/ PollEffect(p) \/ RecordReceipt(p)
  \/ RevalidateHost(p) \/ InstallHost(p) \/ WriteInstalled(p)
  \/ CompleteProduct(p) \/ InstallConnectStep(p) \/ WriteWiring(p)
  \/ VerifyHost(p) \/ VerifyHttp(p) \/ VerifyConnect(p) \/ WriteComplete(p)
  \/ WriteLinked(p)
  \/ BeginDestroy(p) \/ NextTarget(p) \/ UninstallConnect(p)
  \/ WriteDestroyed(p)

(* The operator starts a command. *)
Start(p) ==
  \/ DeployPlan(p) \/ ApplyObserve(p)
  \/ \E cmd \in {"resume", "pending_only"} : Resume(p, cmd)
  \/ ConnectInstall(p)
  \/ \E purge \in BOOLEAN : ShowDestroyPlan(p, purge) \/ OpenDestroy(p, purge)

Environment ==
  \/ \E o \in ops : OperationDone(o) \/ OperationFails(o)
  \/ \E s \in Created : Tamper(s)
  \/ TamperDns
  \/ OperatorSetsDns

Next == (\E p \in Proc : Start(p) \/ Step(p) \/ Abort(p)) \/ Environment

Spec == Init /\ [][Next]_vars
=============================================================================

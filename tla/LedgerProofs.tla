----------------------------- MODULE LedgerProofs -----------------------------
(***************************************************************************)
(* The deployment against its own record, against what the operator        *)
(* approved and against the write-ahead ledger.  First what a command may  *)
(* change of state.json, and what it has made sure of by then; none of     *)
(* that needs an assumption on the environment.  Then the properties that  *)
(* need the cloud too.                                                     *)
(***************************************************************************)
EXTENDS DeploymentProofs
-----------------------------------------------------------------------------
(* The writes of state.json, by what they leave alone.                      *)

SameEffect(e, f) ==
  /\ e.action = f.action /\ e.slot = f.slot /\ e.id = f.id
  /\ e.target = f.target /\ e.cur = f.cur

\* The first write of an apply.
Replans(p) ==
  /\ proc[p].pc = "state_file"
  /\ stored'.phase = "applying" /\ stored'.plan = proc[p].plan
  /\ stored'.res = stored.res /\ stored'.pending = stored.pending
  /\ stored'.destroy = stored.destroy /\ stored'.receipt = stored.receipt

\* An effect of the plan is journaled.
Plans(p) ==
  /\ proc[p].pc \in {"effects", "dns"} /\ ~HasPending(stored)
  /\ stored'.phase = stored.phase /\ stored'.plan = stored.plan
  /\ stored'.res = stored.res /\ stored'.destroy = stored.destroy
  /\ stored'.receipt = stored.receipt
  /\ stored'.pending.action \in {"create", "update"}
  /\ stored.res[stored'.pending.slot] = NoId
  /\ PlanMatches(proc[p].plan, stored, stored'.pending)

\* The delete of a target is journaled.
PlansDelete(p) ==
  /\ proc[p].pc = "targets" /\ ~HasPending(stored)
  /\ stored'.phase = stored.phase /\ stored'.plan = stored.plan
  /\ stored'.res = stored.res /\ stored'.destroy = stored.destroy
  /\ stored'.receipt = stored.receipt
  /\ stored'.pending.action = "delete"
  /\ stored'.pending.slot = Dns => stored'.pending.cur = "node"

\* A step of the deployment is marked as done.
Marks(p) ==
  /\ proc[p].pc \in {"dns", "record", "hosted", "wired", "verified", "linked"}
  /\ stored'.plan = stored.plan /\ stored'.res = stored.res
  /\ stored'.destroy = stored.destroy /\ SameEffect(stored'.pending, stored.pending)
  /\ IF proc[p].pc = "hosted" THEN stored'.receipt ELSE stored'.receipt = stored.receipt
  /\ stored'.phase = CASE proc[p].pc = "dns" -> "waiting_user"
                       [] proc[p].pc = "hosted" -> "installed"
                       [] proc[p].pc = "verified" -> "complete"
                       [] OTHER -> stored.phase
  /\ proc[p].pc = "verified" => stored'.requested = proc[p].mem.requested

\* The receipt of the journaled effect.
Receives(p) ==
  LET e == stored.pending IN
  /\ proc[p].pc = "receipt"
  /\ stored'.phase = stored.phase /\ stored'.plan = stored.plan
  /\ stored'.receipt = stored.receipt /\ stored'.pending = NoEffect
  /\ stored'.res = [stored.res EXCEPT ![e.slot] = IF e.action = "delete" THEN NoId ELSE e.id]
  /\ stored'.destroy.on = stored.destroy.on /\ stored'.destroy.plan = stored.destroy.plan
  /\ stored'.destroy.left = IF e.action = "delete" THEN stored.destroy.left \ {e.slot}
                                                   ELSE stored.destroy.left
  /\ IF e.action = "delete" THEN stored.destroy.on /\ PendingMatchesTarget(e, stored.destroy)
                            ELSE Happened(e)

\* A destroy begins, and ends.
Condemns(p) ==
  /\ proc[p].pc = "destroy" /\ stored.phase # "destroying"
  /\ stored'.phase = "destroying" /\ stored'.plan = stored.plan
  /\ stored'.res = stored.res /\ stored'.pending = stored.pending
  /\ stored'.receipt = stored.receipt
  /\ stored'.destroy = ActiveDestroyOf(DestroyPlanOf(stored, proc[p].cmd = "purge"))

Clears(p) ==
  /\ proc[p].pc = "destroyed"
  /\ stored'.phase = "destroyed" /\ stored'.plan = stored.plan
  /\ stored'.res = stored.res /\ stored'.pending = stored.pending
  /\ stored'.receipt = FALSE /\ stored'.destroy = NoDestroy

LEMMA WriteOutcome ==
  ASSUME NEW p, NEW s, stored' # stored,
         WriteLast(p, s) \/ \E step \in Steps : WriteState(p, s, step)
  PROVE  stored' = s /\ Validate(s)
BY DEF WriteLast, WriteState

\* The holder's memory, where it writes.
LEMMA Memory ==
  ASSUME Discipline, NEW p \in Proc, proc[p].pc \notin Unlocked
  PROVE  /\ lock = p
         /\ proc[p].mem \in State /\ stored \in State
         /\ proc[p].mem.phase = stored.phase /\ proc[p].mem.plan = stored.plan
         /\ proc[p].mem.res = stored.res /\ proc[p].mem.pending = stored.pending
         /\ proc[p].mem.destroy = stored.destroy /\ proc[p].mem.receipt = stored.receipt
         /\ MayBeAt(proc[p].pc, stored)
BY MemoryIsSound, ProcessFields
   DEF Discipline, TypeOK, SameRecord, ControlAgrees, MayBeAt, HasPending

LEMMA WrittenReplans ==
  ASSUME Discipline, NEW p \in Proc, WriteApplying(p), stored' # stored
  PROVE  Validate(stored') /\ Replans(p)
<1> DEFINE m == proc[p].mem
           s == IF m.phase = "none" THEN FreshState(proc[p].plan)
                ELSE [m EXCEPT !.phase = "applying", !.plan = proc[p].plan]
<1>1. proc[p].pc = "state_file" /\ proc[p].pc \notin Unlocked
  BY DEF WriteApplying, Unlocked
<1>2. WriteState(p, s, "resume") /\ "resume" \in Steps
  BY DEF WriteApplying, Steps
<1> HIDE DEF s
<1>3. stored' = s /\ Validate(s)
  BY <1>2, WriteOutcome
<1>4. CASE m.phase = "none"
  <2>1. stored = NoState
    BY <1>1, <1>4, Memory DEF Discipline, StoredIsValid
  <2>2. s = FreshState(proc[p].plan)
    BY <1>4 DEF s
  <2> QED
    BY <1>1, <1>3, <2>1, <2>2 DEF Replans, FreshState, NoState
<1>5. CASE m.phase # "none"
  <2>1. s = [m EXCEPT !.phase = "applying", !.plan = proc[p].plan]
    BY <1>5 DEF s
  <2> QED
    BY <1>1, <1>3, <2>1, Memory DEF Replans, State
<1> QED
  BY <1>4, <1>5

LEMMA JournalIs ==
  ASSUME Discipline, NEW p \in Proc, NEW action, NEW t, NEW target, NEW cur,
         JournalEffect(p, action, t, target, cur), proc[p].pc \in Journaling, stored' # stored
  PROVE  /\ Validate(stored') /\ ~HasPending(stored)
         /\ stored'.phase = stored.phase /\ stored'.plan = stored.plan
         /\ stored'.res = stored.res /\ stored'.destroy = stored.destroy
         /\ stored'.receipt = stored.receipt
         /\ stored'.pending.action = action /\ stored'.pending.slot = t
         /\ stored'.pending.cur = cur
<1> DEFINE m == proc[p].mem
           e == [action |-> action, slot |-> t, id |-> lastId + 1,
                 target |-> target, cur |-> cur, op |-> FALSE]
           s == [m EXCEPT !.pending = e]
<1>1. proc[p].pc \notin Unlocked
  BY DEF Journaling, Unlocked
<1>2. WriteState(p, s, "pending") /\ "pending" \in Steps
  BY DEF JournalEffect, Steps
<1>3. e.action = action /\ e.slot = t /\ e.cur = cur
  OBVIOUS
<1> HIDE DEF e
<1>4. /\ s.phase = stored.phase /\ s.plan = stored.plan /\ s.res = stored.res
      /\ s.destroy = stored.destroy /\ s.receipt = stored.receipt /\ s.pending = e
  BY <1>1, Memory DEF State
<1> HIDE DEF s
<1>5. stored' = s /\ Validate(s)
  BY <1>2, WriteOutcome
<1> QED
  BY <1>1, <1>3, <1>4, <1>5, Memory DEF MayBeAt

LEMMA WrittenPlans ==
  ASSUME Discipline, NEW p \in Proc, NextEffect(p), stored' # stored
  PROVE  Validate(stored') /\ Plans(p)
<1> DEFINE plan == proc[p].plan
           m == proc[p].mem
<1>1. proc[p].pc = "effects" /\ proc[p].pc \in Journaling /\ proc[p].pc \notin Unlocked
  BY DEF NextEffect, Journaling, Unlocked
<1>2. PICK t \in Slots :
        /\ NextPlanned(plan, m, t)
        /\ JournalEffect(p, IF t = Dns THEN DnsAction(IF t = Dns THEN plan.cur ELSE "absent")
                            ELSE "create", t, NoId, IF t = Dns THEN plan.cur ELSE "absent")
  BY DEF NextEffect
<1>3. m.res = stored.res
  BY <1>1, Memory
<1>4. CASE t = Dns
  <2>1. JournalEffect(p, DnsAction(plan.cur), Dns, NoId, plan.cur)
    BY <1>2, <1>4
  <2>2. plan.stage = "continuation" /\ m.res[Dns] = NoId
    BY <1>2, <1>4, SlotFacts DEF NextPlanned
  <2>3. DnsAction(plan.cur) \in {"create", "update"}
    BY DEF DnsAction
  <2> QED
    BY <1>1, <1>3, <2>1, <2>2, <2>3, JournalIs DEF Plans, PlanMatches
<1>5. CASE t # Dns
  <2>1. JournalEffect(p, "create", t, NoId, "absent")
    BY <1>2, <1>5
  <2>2. plan.stage = "initial" /\ m.res[t] = NoId /\ t \in Created
    BY <1>2, <1>5 DEF NextPlanned
  <2> QED
    BY <1>1, <1>3, <2>1, <2>2, JournalIs DEF Plans, PlanMatches
<1> QED
  BY <1>4, <1>5

LEMMA WrittenDns ==
  ASSUME Discipline, NEW p \in Proc, ResolveDns(p), stored' # stored
  PROVE  Validate(stored') /\ (Plans(p) \/ Marks(p))
<1> DEFINE plan == proc[p].plan
           m == proc[p].mem
<1>1. proc[p].pc = "dns" /\ proc[p].pc \in Journaling /\ proc[p].pc \notin Unlocked
  BY DEF ResolveDns, Journaling, Unlocked
<1>2. m.res = stored.res
  BY <1>1, Memory
<1>3. CASE WriteLast(p, [m EXCEPT !.phase = "waiting_user"])
  <2> DEFINE s == [m EXCEPT !.phase = "waiting_user"]
  <2>1. stored' = s /\ Validate(s)
    BY <1>3, WriteOutcome
  <2>2. /\ s.phase = "waiting_user" /\ s.plan = stored.plan /\ s.res = stored.res
        /\ s.destroy = stored.destroy /\ s.pending = stored.pending /\ s.receipt = stored.receipt
    BY <1>1, Memory DEF State
  <2> HIDE DEF s
  <2> QED
    BY <1>1, <2>1, <2>2 DEF Marks, SameEffect
<1>4. CASE AutomaticDns(plan, m) /\ JournalEffect(p, DnsAction(plan.cur), Dns, NoId, plan.cur)
  <2>1. DnsAction(plan.cur) \in {"create", "update"}
    BY DEF DnsAction
  <2>2. AutomaticDns(plan, stored) /\ stored.res[Dns] = NoId
    BY <1>2, <1>4 DEF AutomaticDns
  <2> QED
    BY <1>1, <1>4, <2>1, <2>2, JournalIs DEF Plans, PlanMatches
<1> QED
  BY <1>3, <1>4 DEF ResolveDns

LEMMA WrittenMarks ==
  ASSUME Discipline, NEW p \in Proc,
         RecordOperation(p) \/ WriteInstalled(p) \/ WriteWiring(p) \/ WriteComplete(p)
           \/ WriteLinked(p),
         stored' # stored
  PROVE  Validate(stored') /\ Marks(p)
<1> DEFINE m == proc[p].mem
<1> USE DEF SameEffect
<1>1. CASE RecordOperation(p)
  <2> DEFINE s == [m EXCEPT !.pending.op = TRUE]
  <2>1. /\ proc[p].pc = "record" /\ proc[p].pc \notin Unlocked
        /\ WriteState(p, s, "poll") /\ "poll" \in Steps
    BY <1>1 DEF RecordOperation, Unlocked, Steps
  <2>2. stored.pending \in Effect
    BY StoredFields DEF Discipline
  <2>3. /\ s.phase = stored.phase /\ s.plan = stored.plan /\ s.res = stored.res
        /\ s.destroy = stored.destroy /\ SameEffect(s.pending, stored.pending)
        /\ s.receipt = stored.receipt
    BY <2>1, <2>2, Memory DEF State, Effect
  <2> HIDE DEF s
  <2>4. stored' = s /\ Validate(s)
    BY <2>1, WriteOutcome
  <2> QED
    BY <2>1, <2>3, <2>4 DEF Marks
<1>2. CASE WriteInstalled(p)
  <2> DEFINE s == [m EXCEPT !.receipt = TRUE, !.phase = "installed"]
  <2>1. /\ proc[p].pc = "hosted" /\ proc[p].pc \notin Unlocked
        /\ WriteState(p, s, "product") /\ "product" \in Steps
    BY <1>2 DEF WriteInstalled, Unlocked, Steps
  <2>2. /\ s.phase = "installed" /\ s.plan = stored.plan /\ s.res = stored.res
        /\ s.destroy = stored.destroy /\ s.pending = stored.pending /\ s.receipt = TRUE
    BY <2>1, Memory DEF State
  <2> HIDE DEF s
  <2>3. stored' = s /\ Validate(s)
    BY <2>1, WriteOutcome
  <2> QED
    BY <2>1, <2>2, <2>3 DEF Marks
<1>3. CASE WriteWiring(p)
  <2> DEFINE s == [m EXCEPT !.installed = TRUE]
  <2>1. /\ proc[p].pc = "wired" /\ proc[p].pc \notin Unlocked
        /\ WriteState(p, s, "verify") /\ "verify" \in Steps
    BY <1>3 DEF WriteWiring, Unlocked, Steps
  <2>2. /\ s.phase = stored.phase /\ s.plan = stored.plan /\ s.res = stored.res
        /\ s.destroy = stored.destroy /\ s.pending = stored.pending
        /\ s.receipt = stored.receipt
    BY <2>1, Memory DEF State
  <2> HIDE DEF s
  <2>3. stored' = s /\ Validate(s)
    BY <2>1, WriteOutcome
  <2> QED
    BY <2>1, <2>2, <2>3 DEF Marks
<1>4. CASE WriteComplete(p)
  <2> DEFINE s == [m EXCEPT !.phase = "complete"]
  <2>1. /\ proc[p].pc = "verified" /\ proc[p].pc \notin Unlocked /\ WriteLast(p, s)
    BY <1>4 DEF WriteComplete, Unlocked
  <2>2. /\ s.phase = "complete" /\ s.plan = stored.plan /\ s.res = stored.res
        /\ s.destroy = stored.destroy /\ s.pending = stored.pending
        /\ s.receipt = stored.receipt /\ s.requested = m.requested
    BY <2>1, Memory DEF State
  <2> HIDE DEF s
  <2>3. stored' = s /\ Validate(s)
    BY <2>1, WriteOutcome
  <2> QED
    BY <2>1, <2>2, <2>3 DEF Marks
<1>5. CASE WriteLinked(p)
  <2> DEFINE s == [m EXCEPT !.requested = TRUE, !.installed = TRUE]
  <2>1. proc[p].pc = "linked" /\ proc[p].pc \notin Unlocked /\ WriteLast(p, s)
    BY <1>5 DEF WriteLinked, Unlocked
  <2>2. /\ s.phase = stored.phase /\ s.plan = stored.plan /\ s.res = stored.res
        /\ s.destroy = stored.destroy /\ s.pending = stored.pending
        /\ s.receipt = stored.receipt
    BY <2>1, Memory DEF State
  <2> HIDE DEF s
  <2>3. stored' = s /\ Validate(s)
    BY <2>1, WriteOutcome
  <2> QED
    BY <2>1, <2>2, <2>3 DEF Marks
<1> QED
  BY <1>1, <1>2, <1>3, <1>4, <1>5

LEMMA WrittenReceipt ==
  ASSUME Discipline, NEW p \in Proc, RecordReceipt(p), stored' # stored
  PROVE  Validate(stored') /\ Receives(p)
<1> DEFINE m == proc[p].mem
           s == ApplyReceipt(m)
           e == stored.pending
<1>1. proc[p].pc = "receipt" /\ proc[p].pc \notin Unlocked
  BY DEF RecordReceipt, Unlocked
<1>2. m.pending = e /\ m.destroy = stored.destroy /\ m \in State
  BY <1>1, Memory
<1>3. IF e.action = "delete" THEN stored.destroy.on /\ PendingMatchesTarget(e, stored.destroy)
                             ELSE Happened(e)
  BY <1>2 DEF RecordReceipt
<1>4. WriteLast(p, s) \/ WriteState(p, s, "targets") \/ WriteState(p, s, "effects")
  BY DEF RecordReceipt
<1>5. /\ s.phase = stored.phase /\ s.plan = stored.plan /\ s.receipt = stored.receipt
      /\ s.pending = NoEffect
      /\ s.res = [stored.res EXCEPT ![e.slot] = IF e.action = "delete" THEN NoId ELSE e.id]
      /\ s.destroy = [stored.destroy EXCEPT !.left =
                        IF e.action = "delete" THEN @ \ {e.slot} ELSE @]
  BY <1>1, <1>2, Memory DEF ApplyReceipt, State
<1>6. stored.destroy \in ActiveDestroy
  BY StoredFields DEF Discipline
<1> HIDE DEF s
<1>7. /\ s.destroy.on = stored.destroy.on /\ s.destroy.plan = stored.destroy.plan
      /\ s.destroy.left = IF e.action = "delete" THEN stored.destroy.left \ {e.slot}
                                                 ELSE stored.destroy.left
  BY <1>5, <1>6 DEF ActiveDestroy
<1>8. stored' = s /\ Validate(s)
  BY <1>4, WriteOutcome DEF Steps
<1> QED
  BY <1>1, <1>3, <1>5, <1>7, <1>8 DEF Receives

LEMMA WrittenDestroy ==
  ASSUME Discipline, NEW p \in Proc, BeginDestroy(p) \/ WriteDestroyed(p), stored' # stored
  PROVE  Validate(stored') /\ (Condemns(p) \/ Clears(p))
<1> DEFINE m == proc[p].mem
<1>1. CASE BeginDestroy(p)
  <2> DEFINE dp == DestroyPlanOf(m, proc[p].cmd = "purge")
             s == [m EXCEPT !.phase = "destroying", !.destroy = ActiveDestroyOf(dp)]
  <2>1. /\ proc[p].pc = "destroy" /\ proc[p].pc \notin Unlocked /\ m.phase # "destroying"
        /\ WriteState(p, s, "targets") /\ "targets" \in Steps
    BY <1>1 DEF BeginDestroy, Unlocked, Steps
  <2>2. dp = DestroyPlanOf(stored, proc[p].cmd = "purge")
    BY <2>1, Memory DEF DestroyPlanOf
  <2> HIDE DEF dp
  <2>3. /\ s.phase = "destroying" /\ s.plan = stored.plan /\ s.res = stored.res
        /\ s.pending = stored.pending /\ s.receipt = stored.receipt
        /\ s.destroy = ActiveDestroyOf(dp)
    BY <2>1, Memory DEF State
  <2> HIDE DEF s
  <2>4. stored' = s /\ Validate(s)
    BY <2>1, WriteOutcome
  <2> QED
    BY <2>1, <2>2, <2>3, <2>4, Memory DEF Condemns
<1>2. CASE WriteDestroyed(p)
  <2> DEFINE s == [m EXCEPT !.phase = "destroyed", !.destroy = NoDestroy, !.receipt = FALSE]
  <2>1. proc[p].pc = "destroyed" /\ proc[p].pc \notin Unlocked /\ WriteLast(p, s)
    BY <1>2 DEF WriteDestroyed, Unlocked
  <2>2. /\ s.phase = "destroyed" /\ s.plan = stored.plan /\ s.res = stored.res
        /\ s.pending = stored.pending /\ s.receipt = FALSE /\ s.destroy = NoDestroy
    BY <2>1, Memory DEF State
  <2> HIDE DEF s
  <2>3. stored' = s /\ Validate(s)
    BY <2>1, WriteOutcome
  <2> QED
    BY <2>1, <2>2, <2>3 DEF Clears
<1> QED
  BY <1>1, <1>2

LEMMA WrittenDelete ==
  ASSUME Discipline, NEW p \in Proc, NextTarget(p), stored' # stored
  PROVE  Validate(stored') /\ PlansDelete(p)
<1>1. proc[p].pc = "targets" /\ proc[p].pc \in Journaling
  BY DEF NextTarget, Journaling
<1>2. PICK t \in Slots : JournalEffect(p, "delete", t, proc[p].mem.res[t],
                                       IF t = Dns THEN "node" ELSE "absent")
  BY DEF NextTarget
<1> QED
  BY <1>1, <1>2, JournalIs DEF PlansDelete

(* Whatever changes state.json is one of these writes, by the lock holder. *)
Writes(p) == \/ Replans(p) \/ Plans(p) \/ PlansDelete(p) \/ Marks(p)
             \/ Receives(p) \/ Condemns(p) \/ Clears(p)

LEMMA StepWrites ==
  ASSUME Discipline, NEW p \in Proc, Step(p), stored' # stored
  PROVE  Validate(stored') /\ Writes(p)
<1> USE DEF files
<1>1. CASE WriteApplying(p)
  BY <1>1, WrittenReplans DEF Writes
<1>2. CASE NextEffect(p)
  BY <1>2, WrittenPlans DEF Writes
<1>3. CASE ResolveDns(p)
  BY <1>3, WrittenDns DEF Writes
<1>4. CASE RecordOperation(p) \/ WriteInstalled(p) \/ WriteWiring(p) \/ WriteComplete(p)
             \/ WriteLinked(p)
  BY <1>4, WrittenMarks DEF Writes
<1>5. CASE RecordReceipt(p)
  BY <1>5, WrittenReceipt DEF Writes
<1>6. CASE BeginDestroy(p) \/ WriteDestroyed(p)
  BY <1>6, WrittenDestroy DEF Writes
<1>7. CASE NextTarget(p)
  BY <1>7, WrittenDelete DEF Writes
<1>8. CASE \/ ApplyFound(p) \/ ApplyNotFound(p) \/ ApplyRefused(p) \/ ApplyOpenFresh(p)
           \/ WritePlanFile(p) \/ ResumePlan(p)
  BY <1>8 DEF ApplyFound, ApplyNotFound, ApplyRefused, ApplyOpenFresh, WritePlanFile, ResumePlan
<1>9. CASE StartCreate(p) \/ CheckDelete(p) \/ RequestDelete(p) \/ StartDns(p) \/ PollEffect(p)
  BY <1>9 DEF StartCreate, CheckDelete, RequestDelete, StartDns, PollEffect
<1>10. CASE \/ RevalidateHost(p) \/ InstallHost(p) \/ CompleteProduct(p)
            \/ InstallConnectStep(p) \/ VerifyHost(p) \/ VerifyHttp(p) \/ VerifyConnect(p)
            \/ UninstallConnect(p)
  BY <1>10 DEF RevalidateHost, InstallHost, CompleteProduct, InstallConnectStep, VerifyHost,
               VerifyHttp, VerifyConnect, UninstallConnect
<1> QED
  BY <1>1, <1>2, <1>3, <1>4, <1>5, <1>6, <1>7, <1>8, <1>9, <1>10 DEF Step

LEMMA Written ==
  ASSUME Discipline, [Next]_vars, stored' # stored
  PROVE  Validate(stored') /\ \E p \in Proc : Step(p) /\ Writes(p) /\ proc[p].pc \notin Unlocked
<1> USE DEF files
<1>2. ASSUME NEW p \in Proc, Start(p) PROVE FALSE
  BY <1>2 DEF Start, DeployPlan, ApplyObserve, Resume, ConnectInstall, ShowDestroyPlan, OpenDestroy
<1>3. ASSUME NEW p \in Proc, Abort(p) PROVE FALSE
  BY <1>3 DEF Abort
<1>4. ASSUME Environment PROVE FALSE
  BY <1>4 DEF Environment, OperationDone, OperationFails, Tamper, TamperDns, OperatorSetsDns
<1>5. \E p \in Proc : Step(p)
  BY <1>2, <1>3, <1>4 DEF Next, vars
<1>6. \A p \in Proc : Writes(p) => proc[p].pc \notin Unlocked
  BY DEF Writes, Replans, Plans, PlansDelete, Marks, Receives, Condemns, Clears, Unlocked
<1> QED
  BY <1>5, <1>6, StepWrites

LEMMA PlanStays ==
  ASSUME Discipline, NEW p \in Proc, Step(p), proc[p].pc # "state_file"
  PROVE  stored'.plan = stored.plan
BY StepWrites DEF Writes, Replans, Plans, PlansDelete, Marks, Receives, Condemns, Clears

-----------------------------------------------------------------------------
(* What a process has made sure of at the step it is at.                    *)

\* Steps of a resumed plan that work on it.
Bound(q) == q.pc \in {"effects", "dns"} \/ (q.pc \in Executing /\ q.cmd \notin {"destroy", "purge"})

Claim(q) ==
  /\ q.pc = "installing" => ~stored.receipt
  /\ q.pc = "hosted" => host = stored.res[Instance]
  /\ q.pc \in {"uninstall", "destroyed"} => stored.destroy.left = {}
  /\ q.pc \in Opening => q.approved = q.plan
  /\ q.pc = "state_file" => storedPlan = q.plan
  /\ q.pc \in {"destroy", "targets"} => q.cmd \in {"destroy", "purge"}
  /\ Bound(q) => q.plan = stored.plan
  /\ q.pc = "destroy" /\ ~stored.destroy.on =>
       shown.destroy = DestroyPlanOf(stored, q.cmd = "purge")

HostIsRecorded ==
  /\ ReceiptIsOfThisHost
  /\ stored.receipt /\ ~stored.destroy.on => stored.res[Instance] # NoId

RecordInv == Discipline /\ HostIsRecorded /\ \A p \in Proc : Claim(proc[p])

LEMMA UnlockedClaims == ASSUME NEW q, q.pc \in Unlocked PROVE Claim(q) /\ Claim(q)'
BY DEF Unlocked, Claim, Bound, Opening, Executing

\* How the steps of a process end: at a step of the same command.
At(p, step) ==
  /\ proc'[p].pc = step /\ proc'[p].cmd = proc[p].cmd
  /\ proc'[p].plan = proc[p].plan /\ proc'[p].approved = proc[p].approved

LEMMA EndsAt ==
  ASSUME TypeOK, NEW p \in Proc
  PROVE  /\ Quit(p) => proc'[p].pc = "idle"
         /\ \A step : Goto(p, step) => At(p, step)
         /\ \A s, step : WriteState(p, s, step) => proc'[p].pc = "idle" \/ At(p, step)
         /\ \A s : WriteLast(p, s) => proc'[p].pc = "idle"
<1>1. proc \in [Proc -> Process] /\ proc[p] \in Process
  BY DEF TypeOK
<1>2. Quit(p) => proc'[p].pc = "idle"
  BY <1>1 DEF Quit, Idle
<1>3. \A step : Goto(p, step) => At(p, step)
  BY <1>1 DEF Goto, At, Process
<1>4. \A s : WriteLast(p, s) => proc'[p].pc = "idle"
  BY <1>2 DEF WriteLast
<1>5. ASSUME NEW s, NEW step, WriteState(p, s, step)
      PROVE  proc'[p].pc = "idle" \/ At(p, step)
  <2>1. CASE Validate(s)
    BY <1>1, <1>5, <2>1 DEF WriteState, At, Process
  <2>2. CASE ~Validate(s)
    BY <1>2, <1>5, <2>2 DEF WriteState
  <2> QED
    BY <2>1, <2>2
<1> QED
  BY <1>2, <1>3, <1>4, <1>5

\* Steps that claim nothing.
Modest == {"idle", "observed", "fresh", "resume", "host", "product", "connect", "wired",
           "verify", "reach", "doctor", "verified", "linked"}

LEMMA ModestClaims == ASSUME NEW p \in Proc, proc'[p].pc \in Modest PROVE Claim(proc[p])'
BY DEF Modest, Claim, Bound, Opening, Executing

\* A step of an effect keeps the command and the plan.
LEMMA EffectClaims ==
  ASSUME NEW p \in Proc, NEW step \in Executing, At(p, step), stored'.plan = stored.plan,
         \/ proc[p].cmd \in {"destroy", "purge"}
         \/ proc[p].plan = stored.plan
  PROVE  Claim(proc[p])'
BY DEF Claim, Bound, Opening, Executing, At

LEMMA ClaimsOpening ==
  ASSUME RecordInv, NEW p \in Proc,
         \/ ApplyFound(p) \/ ApplyNotFound(p) \/ ApplyRefused(p) \/ ApplyOpenFresh(p)
         \/ WritePlanFile(p) \/ WriteApplying(p) \/ ResumePlan(p)
  PROVE  Claim(proc[p])'
<1>0. TypeOK /\ proc \in [Proc -> Process] /\ proc[p] \in Process /\ Claim(proc[p])
  BY DEF RecordInv, Discipline, TypeOK
<1>1. CASE ApplyFound(p)
  <2>1. /\ proc'[p].pc = "plan_file" /\ proc'[p].plan = proc'[p].approved
    BY <1>0, <1>1 DEF ApplyFound, Process
  <2> QED
    BY <2>1 DEF Claim, Bound, Opening, Executing
<1>2. CASE ApplyNotFound(p)
  <2>1. proc'[p].pc = "fresh"
    BY <1>0, <1>2 DEF ApplyNotFound, Process
  <2> QED
    BY <2>1, ModestClaims DEF Modest
<1>3. CASE ApplyRefused(p)
  BY <1>0, <1>3, EndsAt, ModestClaims DEF ApplyRefused, Modest
<1>4. CASE ApplyOpenFresh(p)
  <2>1. CASE Quit(p)
    BY <1>0, <2>1, EndsAt, ModestClaims DEF Modest
  <2>2. CASE ~Quit(p)
    <3>1. /\ proc' = [proc EXCEPT ![p].pc = "plan_file"] /\ proc[p].plan = proc[p].approved
      BY <1>4, <2>2 DEF ApplyOpenFresh
    <3>2. proc'[p].pc = "plan_file" /\ proc'[p].plan = proc'[p].approved
      BY <1>0, <3>1 DEF Process
    <3> QED
      BY <3>2 DEF Claim, Bound, Opening, Executing
  <2> QED
    BY <2>1, <2>2
<1>5. CASE WritePlanFile(p)
  <2>1. At(p, "state_file") /\ storedPlan' = proc[p].plan /\ proc[p].pc = "plan_file"
    BY <1>0, <1>5, EndsAt DEF WritePlanFile
  <2>2. proc[p].approved = proc[p].plan
    BY <1>0, <2>1 DEF Claim, Opening
  <2> QED
    BY <2>1, <2>2 DEF At, Claim, Bound, Opening, Executing
<1>6. CASE WriteApplying(p)
  <2>1. proc'[p].pc = "idle" \/ At(p, "resume")
    BY <1>0, <1>6, EndsAt DEF WriteApplying
  <2> QED
    BY <2>1, ModestClaims DEF At, Modest
<1>7. CASE ResumePlan(p)
  <2>1. CASE Quit(p)
    BY <1>0, <2>1, EndsAt, ModestClaims DEF Modest
  <2>2. CASE ~Quit(p)
    <3>1. /\ proc[p].pc = "resume" /\ proc[p].plan = proc[p].mem.plan
          /\ Goto(p, "pending") \/ Goto(p, "effects")
          /\ stored' = stored
      BY <1>7, <2>2 DEF ResumePlan, PlanBinds, files
    <3>2. proc[p].plan = stored.plan
      BY <3>1, Memory DEF RecordInv, Unlocked
    <3>3. At(p, "pending") \/ At(p, "effects")
      BY <1>0, <3>1, EndsAt
    <3> QED
      BY <3>1, <3>2, <3>3 DEF At, Claim, Bound, Opening, Executing
  <2> QED
    BY <2>1, <2>2
<1> QED
  BY <1>1, <1>2, <1>3, <1>4, <1>5, <1>6, <1>7

LEMMA OthersRest ==
  ASSUME TypeOK, NEW p \in Proc, Step(p), NEW q \in Proc, q # p
  PROVE  proc'[q] = proc[q]
<1>0. proc \in [Proc -> Process]
  BY DEF TypeOK
<1>1. Quit(p) => proc'[q] = proc[q]
  BY <1>0 DEF Quit
<1>2. \A step : Goto(p, step) => proc'[q] = proc[q]
  BY <1>0 DEF Goto
<1>3. \A s, step : WriteState(p, s, step) => proc'[q] = proc[q]
  BY <1>0, <1>1 DEF WriteState
<1>4. \A s : WriteLast(p, s) => proc'[q] = proc[q]
  BY <1>1 DEF WriteLast
<1>5. \A action, t, target, cur : JournalEffect(p, action, t, target, cur) => proc'[q] = proc[q]
  BY <1>3 DEF JournalEffect
<1>6. CASE \/ ApplyFound(p) \/ ApplyNotFound(p) \/ ApplyRefused(p) \/ ApplyOpenFresh(p)
           \/ WritePlanFile(p) \/ WriteApplying(p) \/ ResumePlan(p)
  BY <1>0, <1>1, <1>2, <1>3, <1>6
     DEF ApplyFound, ApplyNotFound, ApplyRefused, ApplyOpenFresh, WritePlanFile, WriteApplying,
         ResumePlan
<1>7. CASE NextEffect(p) \/ ResolveDns(p) \/ NextTarget(p)
  BY <1>1, <1>2, <1>4, <1>5, <1>7 DEF NextEffect, ResolveDns, NextTarget
<1>8. CASE \/ StartCreate(p) \/ CheckDelete(p) \/ RequestDelete(p) \/ StartDns(p)
           \/ RecordOperation(p) \/ PollEffect(p) \/ RecordReceipt(p)
  BY <1>1, <1>2, <1>3, <1>4, <1>8
     DEF StartCreate, CheckDelete, RequestDelete, StartDns, RecordOperation, PollEffect,
         RecordReceipt
<1>9. CASE \/ RevalidateHost(p) \/ InstallHost(p) \/ WriteInstalled(p) \/ CompleteProduct(p)
           \/ InstallConnectStep(p) \/ WriteWiring(p) \/ VerifyHost(p) \/ VerifyHttp(p)
           \/ VerifyConnect(p) \/ WriteComplete(p) \/ WriteLinked(p)
  BY <1>0, <1>1, <1>2, <1>3, <1>4, <1>9
     DEF RevalidateHost, InstallHost, WriteInstalled, CompleteProduct, InstallConnectStep,
         WriteWiring, VerifyHost, Begin, VerifyHttp, VerifyConnect, WriteComplete, WriteLinked
<1>10. CASE BeginDestroy(p) \/ UninstallConnect(p) \/ WriteDestroyed(p)
  BY <1>0, <1>2, <1>3, <1>4, <1>10 DEF BeginDestroy, UninstallConnect, WriteDestroyed
<1> QED
  BY <1>6, <1>7, <1>8, <1>9, <1>10 DEF Step

LEMMA UnlockedSteps ==
  ASSUME NEW p \in Proc, Step(p), proc[p].pc \in Unlocked
  PROVE  ApplyFound(p) \/ ApplyNotFound(p) \/ ApplyRefused(p) \/ ApplyOpenFresh(p)
BY DEF Step, Unlocked, WritePlanFile, WriteApplying, ResumePlan, NextEffect, ResolveDns,
       StartCreate, CheckDelete, RequestDelete, StartDns, ReadyToStart, RecordOperation,
       PollEffect, RecordReceipt, RevalidateHost, InstallHost, WriteInstalled,
       CompleteProduct, InstallConnectStep, WriteWiring, VerifyHost, VerifyHttp,
       VerifyConnect, WriteComplete, WriteLinked, BeginDestroy, NextTarget, UninstallConnect,
       WriteDestroyed

LEMMA ClaimsPlanned ==
  ASSUME RecordInv, NEW p \in Proc, NextEffect(p) \/ ResolveDns(p)
  PROVE  Claim(proc[p])'
<1>0. TypeOK /\ Discipline /\ Claim(proc[p])
  BY DEF RecordInv, Discipline
<1>1. proc[p].pc \in {"effects", "dns"} /\ proc[p].plan = stored.plan
  BY <1>0 DEF NextEffect, ResolveDns, Claim, Bound
<1>2. stored'.plan = stored.plan
  BY <1>0, <1>1, PlanStays DEF Step
<1>3. \A action, t, target, cur :
        JournalEffect(p, action, t, target, cur) => proc'[p].pc = "idle" \/ At(p, "pending")
  BY <1>0, EndsAt DEF JournalEffect
<1>4. \/ proc'[p].pc = "idle" \/ At(p, "pending") \/ At(p, "dns") \/ At(p, "host")
  <2>1. CASE NextEffect(p)
    BY <1>0, <1>3, <2>1, EndsAt DEF NextEffect
  <2>2. CASE ResolveDns(p)
    BY <1>0, <1>3, <2>2, EndsAt DEF ResolveDns
  <2> QED
    BY <2>1, <2>2
<1>5. CASE At(p, "dns")
  BY <1>1, <1>2, <1>5 DEF At, Claim, Bound, Opening, Executing
<1>6. CASE At(p, "pending")
  BY <1>1, <1>2, <1>6, EffectClaims DEF Executing
<1>7. CASE proc'[p].pc = "idle" \/ At(p, "host")
  BY <1>7, ModestClaims DEF At, Modest
<1> QED
  BY <1>4, <1>5, <1>6, <1>7

LEMMA ClaimsEffect ==
  ASSUME RecordInv, NEW p \in Proc,
         \/ StartCreate(p) \/ CheckDelete(p) \/ RequestDelete(p) \/ StartDns(p)
         \/ RecordOperation(p) \/ PollEffect(p) \/ RecordReceipt(p)
  PROVE  Claim(proc[p])'
<1>0. TypeOK /\ Discipline /\ Claim(proc[p])
  BY DEF RecordInv, Discipline
<1>1. proc[p].pc \in Executing
  BY DEF StartCreate, CheckDelete, RequestDelete, StartDns, RecordOperation, PollEffect,
         RecordReceipt, ReadyToStart, Executing
<1>2. proc[p].cmd \in {"destroy", "purge"} \/ proc[p].plan = stored.plan
  BY <1>0, <1>1 DEF Claim, Bound
<1>3. stored'.plan = stored.plan
  BY <1>0, <1>1, PlanStays DEF Step, Executing
<1>4. CASE StartCreate(p) \/ CheckDelete(p) \/ RequestDelete(p) \/ StartDns(p)
             \/ RecordOperation(p) \/ PollEffect(p)
  <2>1. \/ proc'[p].pc = "idle" \/ At(p, "record") \/ At(p, "receipt") \/ At(p, "deleting")
        \/ At(p, "poll")
    BY <1>0, <1>4, EndsAt
       DEF StartCreate, CheckDelete, RequestDelete, StartDns, RecordOperation, PollEffect
  <2> QED
    BY <1>2, <1>3, <2>1, EffectClaims, ModestClaims DEF Executing, Modest
<1>5. CASE RecordReceipt(p)
  <2>1. \/ proc'[p].pc = "idle"
        \/ At(p, "targets") /\ proc[p].cmd \in {"destroy", "purge"}
        \/ At(p, "effects") /\ proc[p].cmd \notin {"destroy", "purge"}
    BY <1>0, <1>5, EndsAt DEF RecordReceipt
  <2>2. CASE proc'[p].pc = "idle"
    BY <2>2, ModestClaims DEF Modest
  <2>3. CASE At(p, "targets") /\ proc[p].cmd \in {"destroy", "purge"}
    BY <2>3 DEF At, Claim, Bound, Opening, Executing
  <2>4. CASE At(p, "effects") /\ proc[p].cmd \notin {"destroy", "purge"}
    BY <1>2, <1>3, <2>4 DEF At, Claim, Bound, Opening, Executing
  <2> QED
    BY <2>1, <2>2, <2>3, <2>4
<1> QED
  BY <1>4, <1>5

LEMMA ClaimsFinishing ==
  ASSUME RecordInv, NEW p \in Proc,
         \/ RevalidateHost(p) \/ InstallHost(p) \/ WriteInstalled(p) \/ CompleteProduct(p)
         \/ InstallConnectStep(p) \/ WriteWiring(p) \/ VerifyHost(p) \/ VerifyHttp(p)
         \/ VerifyConnect(p) \/ WriteComplete(p) \/ WriteLinked(p)
  PROVE  Claim(proc[p])'
<1>0. TypeOK /\ Discipline /\ proc \in [Proc -> Process] /\ proc[p] \in Process
  BY DEF RecordInv, Discipline, TypeOK
<1>1. CASE InstallHost(p)
  <2>1. \/ proc'[p].pc = "idle"
        \/ At(p, "hosted") /\ host' = proc[p].mem.res[Instance]
    BY <1>0, <1>1, EndsAt DEF InstallHost
  <2>2. proc[p].mem.res = stored.res /\ stored' = stored
    BY <1>0, <1>1, Memory DEF InstallHost, Unlocked, files
  <2>3. CASE At(p, "hosted") /\ host' = proc[p].mem.res[Instance]
    BY <2>2, <2>3 DEF At, Claim, Bound, Opening, Executing
  <2> QED
    BY <2>1, <2>3, ModestClaims DEF At, Modest
<1>2. CASE CompleteProduct(p) \/ InstallConnectStep(p)
  <2>1. proc'[p].pc = "idle" \/ At(p, "connect") \/ At(p, "wired") \/ At(p, "verify")
    BY <1>0, <1>2, EndsAt DEF CompleteProduct, InstallConnectStep
  <2> QED
    BY <2>1, ModestClaims DEF At, Modest
<1>3. CASE WriteInstalled(p) \/ WriteWiring(p) \/ WriteComplete(p) \/ WriteLinked(p)
  <2>1. proc'[p].pc = "idle" \/ At(p, "product") \/ At(p, "verify")
    BY <1>0, <1>3, EndsAt DEF WriteInstalled, WriteWiring, WriteComplete, WriteLinked
  <2> QED
    BY <2>1, ModestClaims DEF At, Modest
<1>4. CASE RevalidateHost(p)
  <2>1. \/ proc'[p].pc = "idle" \/ At(p, "product")
        \/ At(p, "installing") /\ ~proc[p].mem.receipt
    BY <1>0, <1>4, EndsAt DEF RevalidateHost
  <2>2. proc[p].mem.receipt = stored.receipt /\ stored' = stored
    BY <1>0, <1>4, Memory DEF RevalidateHost, Unlocked, files
  <2>3. CASE At(p, "installing") /\ ~proc[p].mem.receipt
    BY <2>2, <2>3 DEF At, Claim, Bound, Opening, Executing
  <2> QED
    BY <2>1, <2>3, ModestClaims DEF At, Modest
<1>5. CASE VerifyHost(p) \/ VerifyHttp(p) \/ VerifyConnect(p)
  <2>1. Begin(p) => proc'[p].pc = "reach"
    BY <1>0 DEF Begin, Process
  <2>2. proc'[p].pc \in {"idle", "reach", "doctor", "verified"}
    BY <1>0, <1>5, <2>1, EndsAt DEF VerifyHost, VerifyHttp, VerifyConnect, At
  <2> QED
    BY <2>2, ModestClaims DEF Modest
<1> QED
  BY <1>1, <1>2, <1>3, <1>4, <1>5

LEMMA ClaimsDestroying ==
  ASSUME RecordInv, NEW p \in Proc,
         BeginDestroy(p) \/ NextTarget(p) \/ UninstallConnect(p) \/ WriteDestroyed(p)
  PROVE  Claim(proc[p])'
<1>0. TypeOK /\ Discipline /\ Claim(proc[p])
  BY DEF RecordInv, Discipline
<1>1. CASE BeginDestroy(p)
  <2>1. proc[p].cmd \in {"destroy", "purge"} /\ proc[p].pc = "destroy"
    BY <1>0, <1>1 DEF BeginDestroy, Claim
  <2>2. proc'[p].pc = "idle" \/ At(p, "pending") \/ At(p, "targets")
    BY <1>0, <1>1, EndsAt DEF BeginDestroy
  <2>3. stored'.plan = stored.plan
    BY <1>0, <1>1, <2>1, PlanStays DEF Step
  <2>4. CASE At(p, "targets")
    BY <2>1, <2>4 DEF At, Claim, Bound, Opening, Executing
  <2>5. CASE At(p, "pending")
    BY <2>1, <2>3, <2>5, EffectClaims DEF Executing
  <2> QED
    BY <2>2, <2>4, <2>5, ModestClaims DEF Modest
<1>2. CASE NextTarget(p)
  <2>1. proc[p].cmd \in {"destroy", "purge"} /\ proc[p].pc = "targets"
    BY <1>0, <1>2 DEF NextTarget, Claim
  <2>2. \/ proc'[p].pc = "idle" \/ At(p, "pending")
        \/ At(p, "uninstall") /\ stored' = stored /\ proc[p].mem.destroy.left = {}
    <3>1. \A action, t, target, cur :
            JournalEffect(p, action, t, target, cur) => proc'[p].pc = "idle" \/ At(p, "pending")
      BY <1>0, EndsAt DEF JournalEffect
    <3> QED
      BY <1>0, <1>2, <3>1, EndsAt DEF NextTarget
  <2>3. stored'.plan = stored.plan
    BY <1>0, <1>2, <2>1, PlanStays DEF Step
  <2>4. proc[p].mem.destroy = stored.destroy
    BY <1>0, <2>1, Memory DEF Unlocked
  <2>5. CASE At(p, "uninstall") /\ stored' = stored /\ proc[p].mem.destroy.left = {}
    BY <2>4, <2>5 DEF At, Claim, Bound, Opening, Executing
  <2>6. CASE At(p, "pending")
    BY <2>1, <2>3, <2>6, EffectClaims DEF Executing
  <2> QED
    BY <2>2, <2>5, <2>6, ModestClaims DEF Modest
<1>3. CASE UninstallConnect(p)
  <2>1. /\ proc[p].pc = "uninstall" /\ stored' = stored
        /\ proc'[p].pc = "destroyed"
    BY <1>0, <1>3, EndsAt DEF UninstallConnect, files, At, TypeOK, Process
  <2>2. stored.destroy.left = {}
    BY <1>0, <2>1 DEF Claim
  <2> QED
    BY <2>1, <2>2 DEF Claim, Bound, Opening, Executing
<1>4. CASE WriteDestroyed(p)
  BY <1>0, <1>4, EndsAt, ModestClaims DEF WriteDestroyed, Modest
<1> QED
  BY <1>1, <1>2, <1>3, <1>4

(* A step of p leaves what the others claim alone: they have no lock.       *)
LEMMA StepClaims ==
  ASSUME RecordInv, NEW p \in Proc, Step(p)
  PROVE  \A q \in Proc : Claim(proc[q])'
<1>1. Claim(proc[p])'
  BY ClaimsOpening, ClaimsPlanned, ClaimsEffect, ClaimsFinishing, ClaimsDestroying DEF Step
<1>2. ASSUME NEW q \in Proc, q # p
      PROVE  Claim(proc[q])'
  <2>1. proc'[q] = proc[q]
    BY <1>2, OthersRest DEF RecordInv, Discipline
  <2>2. CASE proc[q].pc \in Unlocked
    BY <2>1, <2>2, UnlockedClaims
  <2>3. CASE proc[q].pc \notin Unlocked
    <3>1. lock = q /\ proc[p].pc \in Unlocked
      BY <1>2, <2>3 DEF RecordInv, Discipline, LockedMemoryIsCurrent
    <3>2. ApplyFound(p) \/ ApplyNotFound(p) \/ ApplyRefused(p) \/ ApplyOpenFresh(p)
      BY <3>1, UnlockedSteps
    <3>3. UNCHANGED <<stored, storedPlan, shown, host>>
      BY <3>2 DEF ApplyFound, ApplyNotFound, ApplyRefused, ApplyOpenFresh, files, outside
    <3> QED
      BY <2>1, <3>3 DEF RecordInv, Claim, Bound
  <2> QED
    BY <2>2, <2>3
<1> QED
  BY <1>1, <1>2

LEMMA Freed ==
  ASSUME RecordInv, lock = "none", NEW q \in Proc
  PROVE  proc[q].pc \in Unlocked
BY ConstantsAssumption DEF RecordInv, Discipline, LockedMemoryIsCurrent

\* A command that opens the directory finds every other process without the lock.
LEMMA OpensClaims ==
  ASSUME RecordInv, lock = "none", NEW p \in Proc, NEW new,
         proc' = [proc EXCEPT ![p] = new], Claim(proc[p])'
  PROVE  \A q \in Proc : Claim(proc[q])'
<1>1. ASSUME NEW q \in Proc, q # p
      PROVE  Claim(proc[q])'
  <2>1. proc'[q] = proc[q]
    BY <1>1 DEF RecordInv, Discipline, TypeOK
  <2> QED
    BY <2>1, Freed, UnlockedClaims
<1> QED
  BY <1>1

LEMMA StartClaims ==
  ASSUME RecordInv, NEW p \in Proc, Start(p)
  PROVE  \A q \in Proc : Claim(proc[q])'
<1>0. TypeOK /\ proc \in [Proc -> Process] /\ proc[p] \in Process
  BY DEF RecordInv, Discipline, TypeOK
<1>1. CASE DeployPlan(p)
  <2>1. shown'.destroy = shown.destroy
    BY <1>0, <1>1 DEF DeployPlan, TypeOK
  <2>2. UNCHANGED <<stored, storedPlan, host, proc>>
    BY <1>1 DEF DeployPlan, files, outside
  <2> QED
    BY <2>1, <2>2 DEF RecordInv, Claim, Bound
<1>2. CASE ApplyObserve(p)
  <2>0. PICK obs \in Observations :
          proc' = [proc EXCEPT ![p] = [Idle EXCEPT !.pc = "observed", !.cmd = "apply",
                                         !.plan = obs, !.approved = shown.deploy]]
    BY <1>2 DEF ApplyObserve
  <2> DEFINE new == [Idle EXCEPT !.pc = "observed", !.cmd = "apply", !.plan = obs,
                                 !.approved = shown.deploy]
  <2>1. proc' = [proc EXCEPT ![p] = new] /\ new.pc = "observed"
    BY <2>0 DEF Idle
  <2> HIDE DEF new
  <2>2. UNCHANGED <<stored, storedPlan, shown, host>>
    BY <1>2 DEF ApplyObserve, files, outside
  <2>3. ASSUME NEW q \in Proc
        PROVE  Claim(proc[q])'
    <3>1. CASE q = p
      BY <1>0, <2>1, <3>1, ModestClaims DEF Modest
    <3>2. CASE q # p
      BY <1>0, <2>1, <2>2, <3>2 DEF RecordInv, Claim, Bound
    <3> QED
      BY <3>1, <3>2
  <2> QED
    BY <2>3
<1>3. CASE ConnectInstall(p) \/ \E cmd \in {"resume", "pending_only"} : Resume(p, cmd)
  <2>1. PICK new : /\ proc' = [proc EXCEPT ![p] = new] /\ new.pc \in {"linked", "resume"}
                   /\ lock = "none"
    BY <1>3 DEF ConnectInstall, Resume, Idle, OpenStore
  <2>2. Claim(proc[p])'
    BY <1>0, <2>1, ModestClaims DEF Modest
  <2> QED
    BY <2>1, <2>2, OpensClaims
<1>4. ASSUME NEW purge \in BOOLEAN, ShowDestroyPlan(p, purge)
      PROVE  \A q \in Proc : Claim(proc[q])'
  BY <1>4, Freed, UnlockedClaims DEF ShowDestroyPlan, OpenStore
<1>5. ASSUME NEW purge \in BOOLEAN, OpenDestroy(p, purge)
      PROVE  \A q \in Proc : Claim(proc[q])'
  <2> DEFINE name == IF purge THEN "purge" ELSE "destroy"
             new  == [Idle EXCEPT !.pc = "destroy", !.cmd = name, !.mem = stored]
  <2>1. /\ proc' = [proc EXCEPT ![p] = new] /\ lock = "none"
        /\ UNCHANGED <<stored, shown>> /\ shown.destroy = PlanDestroy(stored, purge)
    BY <1>5 DEF OpenDestroy, OpenStore, files
  <2>2. new.pc = "destroy" /\ new.cmd = name
    BY DEF Idle
  <2>3. name \in {"destroy", "purge"} /\ ((name = "purge") = purge)
    OBVIOUS
  <2> HIDE DEF new, name
  <2>4. proc'[p] = new
    BY <1>0, <2>1
  <2>5. ~stored.destroy.on => shown.destroy = DestroyPlanOf(stored, name = "purge")
    BY <2>1, <2>3 DEF PlanDestroy
  <2>6. Claim(proc[p])'
    BY <2>1, <2>2, <2>3, <2>4, <2>5 DEF Claim, Bound, Opening, Executing, DestroyPlanOf
  <2> QED
    BY <2>1, <2>6, OpensClaims
<1> QED
  BY <1>1, <1>2, <1>3, <1>4, <1>5 DEF Start

LEMMA ClaimsNext ==
  ASSUME RecordInv, [Next]_vars
  PROVE  \A q \in Proc : Claim(proc[q])'
<1>0. TypeOK /\ proc \in [Proc -> Process]
  BY DEF RecordInv, Discipline, TypeOK
<1>1. ASSUME NEW p \in Proc, Abort(p)
      PROVE  \A q \in Proc : Claim(proc[q])'
  <2>1. UNCHANGED <<stored, storedPlan, shown, host>> /\ Quit(p)
    BY <1>1 DEF Abort, files, outside
  <2>2. ASSUME NEW q \in Proc
        PROVE  Claim(proc[q])'
    <3>1. CASE q = p
      BY <1>0, <2>1, <3>1, EndsAt, ModestClaims DEF Modest
    <3>2. CASE q # p
      BY <1>0, <2>1, <3>2 DEF Quit, RecordInv, Claim, Bound
    <3> QED
      BY <3>1, <3>2
  <2> QED
    BY <2>2
<1>2. CASE Environment \/ UNCHANGED vars
  <2>1. UNCHANGED <<stored, storedPlan, shown, host, proc>>
    BY <1>2 DEF Environment, OperationDone, OperationFails, Tamper, TamperDns, OperatorSetsDns,
                files, outside, vars
  <2> QED
    BY <2>1 DEF RecordInv, Claim, Bound
<1> QED
  BY <1>1, <1>2, StartClaims, StepClaims DEF Next

-----------------------------------------------------------------------------
(* The host receipt.                                                        *)

LEMMA HostMoves ==
  ASSUME RecordInv, [Next]_vars, host' # host
  PROVE  ~stored.receipt /\ stored' = stored
<1> USE DEF outside
<1>1. ASSUME NEW p \in Proc, InstallHost(p)
      PROVE  ~stored.receipt /\ stored' = stored
  <2>1. proc[p].pc = "installing" /\ stored' = stored
    BY <1>1 DEF InstallHost, files
  <2> QED
    BY <2>1 DEF RecordInv, Claim
<1>2. ASSUME NEW p \in Proc, Start(p) PROVE FALSE
  BY <1>2 DEF Start, DeployPlan, ApplyObserve, Resume, ConnectInstall, ShowDestroyPlan, OpenDestroy
<1>3. ASSUME NEW p \in Proc, Abort(p) PROVE FALSE
  BY <1>3 DEF Abort
<1>4. ASSUME Environment PROVE FALSE
  BY <1>4 DEF Environment, OperationDone, OperationFails, Tamper, TamperDns, OperatorSetsDns
<1>5. ASSUME NEW p \in Proc,
             \/ ApplyFound(p) \/ ApplyNotFound(p) \/ ApplyRefused(p) \/ ApplyOpenFresh(p)
             \/ WritePlanFile(p) \/ WriteApplying(p)
             \/ ResumePlan(p) \/ NextEffect(p) \/ ResolveDns(p)
             \/ StartCreate(p) \/ CheckDelete(p) \/ RequestDelete(p) \/ StartDns(p)
             \/ RecordOperation(p) \/ PollEffect(p) \/ RecordReceipt(p)
      PROVE  FALSE
  BY <1>5 DEF ApplyFound, ApplyNotFound, ApplyRefused, ApplyOpenFresh, WritePlanFile,
              WriteApplying, ResumePlan, NextEffect, ResolveDns, StartCreate, CheckDelete,
              RequestDelete, StartDns, RecordOperation, PollEffect, RecordReceipt
<1>6. ASSUME NEW p \in Proc,
             \/ RevalidateHost(p) \/ WriteInstalled(p) \/ CompleteProduct(p)
             \/ InstallConnectStep(p) \/ WriteWiring(p) \/ VerifyHost(p) \/ VerifyHttp(p)
             \/ VerifyConnect(p) \/ WriteComplete(p) \/ WriteLinked(p)
             \/ BeginDestroy(p) \/ NextTarget(p) \/ UninstallConnect(p) \/ WriteDestroyed(p)
      PROVE  FALSE
  BY <1>6 DEF RevalidateHost, WriteInstalled, CompleteProduct, InstallConnectStep, WriteWiring,
              VerifyHost, VerifyHttp, VerifyConnect, WriteComplete, WriteLinked, BeginDestroy,
              NextTarget, UninstallConnect, WriteDestroyed
<1>7. \E p \in Proc : Step(p)
  BY <1>2, <1>3, <1>4 DEF Next, vars
<1> QED
  BY <1>1, <1>5, <1>6, <1>7 DEF Step

\* What is received never fills the instance's slot behind a host receipt.
LEMMA ReceivedInstance ==
  ASSUME Discipline, HostIsRecorded, NEW p \in Proc, Receives(p),
         stored.pending.slot = Instance, stored.receipt
  PROVE  stored.pending.action = "delete"
<1>1. HasPending(stored) /\ stored.pending.action \in {"none", "create", "update", "delete"}
  <2>1. proc[p].pc \notin Unlocked /\ proc[p].pc \in Executing
    BY DEF Receives, Unlocked, Executing
  <2>2. HasPending(stored)
    BY <2>1, Memory DEF MayBeAt
  <2>3. stored.pending \in Effect
    BY StoredFields DEF Discipline
  <2> QED
    BY <2>2, <2>3 DEF Effect
<1>2. CASE stored.destroy.on
  BY <1>1, <1>2 DEF Discipline, StoredIsValid, Validate, ValidateActiveDestroy, PendingMatchesTarget
<1>3. CASE ~stored.destroy.on
  <2>1. stored.res[Instance] # NoId
    BY <1>3 DEF HostIsRecorded
  <2> QED
    BY <1>1, <2>1 DEF Discipline, JournalIsSound, SoundJournal, HasPending
<1> QED
  BY <1>2, <1>3

LEMMA HostWritten ==
  ASSUME RecordInv, NEW p \in Proc, Writes(p), Validate(stored'), host' = host
  PROVE  HostIsRecorded'
<1> USE DEF HostIsRecorded, ReceiptIsOfThisHost
<1>0. Discipline /\ HostIsRecorded /\ Claim(proc[p])
  BY DEF RecordInv
<1>1. CASE Replans(p) \/ Plans(p) \/ PlansDelete(p)
  BY <1>0, <1>1 DEF Replans, Plans, PlansDelete
<1>2. CASE Marks(p)
  <2>1. CASE proc[p].pc = "hosted"
    <3>1. host = stored.res[Instance] /\ stored'.res = stored.res /\ stored'.phase = "installed"
      BY <1>0, <1>2, <2>1 DEF Claim, Marks
    <3>2. InfrastructureComplete(stored')
      BY <3>1 DEF Validate, ValidatePhase
    <3> QED
      BY <3>1, <3>2, SlotFacts DEF InfrastructureComplete
  <2>2. CASE proc[p].pc # "hosted"
    BY <1>0, <1>2, <2>2 DEF Marks
  <2> QED
    BY <2>1, <2>2
<1>3. CASE Receives(p)
  <2>1. stored.res \in [Slots -> Nat] /\ stored.pending.slot \in Slots
    BY <1>0, StoredFields DEF Discipline, Effect
  <2>2. CASE stored.pending.slot # Instance
    <3>1. stored'.res[Instance] = stored.res[Instance] /\ stored'.receipt = stored.receipt
          /\ stored'.destroy.on = stored.destroy.on
      BY <1>3, <2>1, <2>2, SlotFacts DEF Receives
    <3> QED
      BY <1>0, <3>1
  <2>3. CASE stored.pending.slot = Instance /\ stored.receipt
    <3>1. stored.pending.action = "delete"
      BY <1>0, <1>3, <2>3, ReceivedInstance
    <3>2. stored'.res[Instance] = NoId /\ stored'.destroy.on
      BY <1>3, <2>1, <2>3, <3>1, SlotFacts DEF Receives
    <3> QED
      BY <3>2
  <2>4. CASE ~stored.receipt
    BY <1>3, <2>4 DEF Receives
  <2> QED
    BY <2>2, <2>3, <2>4
<1>4. CASE Condemns(p)
  BY <1>0, <1>4 DEF Condemns, ActiveDestroyOf
<1>5. CASE Clears(p)
  BY <1>5 DEF Clears
<1> QED
  BY <1>1, <1>2, <1>3, <1>4, <1>5 DEF Writes

LEMMA HostNext ==
  ASSUME RecordInv, [Next]_vars
  PROVE  HostIsRecorded'
<1>0. Discipline
  BY DEF RecordInv
<1>1. CASE stored' # stored
  <2>1. host' = host
    BY <1>0, <1>1, HostMoves
  <2> QED
    BY <1>0, <1>1, <2>1, Written, HostWritten
<1>2. CASE stored' = stored
  <2>1. host' = host \/ ~stored.receipt
    BY <1>0, HostMoves
  <2> QED
    BY <1>2, <2>1 DEF RecordInv, HostIsRecorded, ReceiptIsOfThisHost
<1> QED
  BY <1>1, <1>2

LEMMA RecordNext ==
  ASSUME RecordInv, [Next]_vars
  PROVE  RecordInv'
<1>1. Discipline'
  BY DisciplineNext DEF RecordInv
<1>2. HostIsRecorded'
  BY HostNext
<1>3. (\A p \in Proc : Claim(proc[p]))'
  BY ClaimsNext
<1> QED
  BY <1>1, <1>2, <1>3 DEF RecordInv

LEMMA RecordInit ==
  ASSUME Init
  PROVE  RecordInv
<1>1. Discipline
  BY DisciplineInit
<1>2. HostIsRecorded
  BY DEF Init, NoState, HostIsRecorded, ReceiptIsOfThisHost
<1>3. \A p \in Proc : Claim(proc[p])
  BY DEF Init, Idle, Claim, Bound, Opening, Executing
<1> QED
  BY <1>1, <1>2, <1>3 DEF RecordInv

(***************************************************************************)
(* Every process has made sure of what its step needs, and the receipt in  *)
(* state.json is of the recorded host: the invariant of this module.       *)
(***************************************************************************)
THEOREM RecordHolds == Spec => []RecordInv
BY RecordInit, RecordNext, PTL DEF Spec

(***************************************************************************)
(* The host receipt speaks of the recorded instance, whatever crashed in   *)
(* between: the installer completed there (install_host).                  *)
(***************************************************************************)
THEOREM HostReceiptIsTrue == Spec => []ReceiptIsOfThisHost
<1>1. RecordInv => ReceiptIsOfThisHost
  BY DEF RecordInv, HostIsRecorded
<1> QED
  BY <1>1, RecordHolds, PTL

-----------------------------------------------------------------------------
(* What the writes tell of the steps that make them.                        *)

\* What a process that verifies the product has seen of it.
Verifying == {"reach", "doctor", "verified"}

Proven(q) ==
  q.pc \in Verifying =>
    /\ host = q.mem.res[Instance]
    /\ q.began = [instance |-> q.mem.res[Instance], address |-> q.mem.res[Address],
                  dns |-> "node"]
    /\ local.creds
    /\ (q.pc = "verified" /\ q.mem.requested) => local.daemon

\* The steps that verify.
LEMMA EntersVerifying ==
  ASSUME RecordInv, NEW p \in Proc, Step(p), proc'[p].pc \in Verifying
  PROVE  VerifyHost(p) \/ VerifyHttp(p) \/ VerifyConnect(p)
<1>0. TypeOK /\ proc \in [Proc -> Process] /\ proc[p] \in Process
  BY DEF RecordInv, Discipline, TypeOK
<1> USE EndsAt DEF At, Verifying
<1>1. CASE \/ ApplyFound(p) \/ ApplyNotFound(p) \/ ApplyRefused(p) \/ ApplyOpenFresh(p)
  BY <1>0, <1>1 DEF ApplyFound, ApplyNotFound, ApplyRefused, ApplyOpenFresh, Process
<1>2. CASE WritePlanFile(p) \/ WriteApplying(p) \/ ResumePlan(p)
  BY <1>0, <1>2 DEF WritePlanFile, WriteApplying, ResumePlan
<1>3. CASE StartCreate(p) \/ CheckDelete(p) \/ RequestDelete(p) \/ StartDns(p)
             \/ RecordOperation(p) \/ PollEffect(p)
  BY <1>0, <1>3 DEF StartCreate, CheckDelete, RequestDelete, StartDns, RecordOperation,
                    PollEffect
<1>4. CASE RecordReceipt(p)
  BY <1>0, <1>4 DEF RecordReceipt
<1>5. CASE \/ RevalidateHost(p) \/ InstallHost(p) \/ WriteInstalled(p) \/ CompleteProduct(p)
           \/ InstallConnectStep(p)
  BY <1>0, <1>5
     DEF RevalidateHost, InstallHost, WriteInstalled, CompleteProduct, InstallConnectStep
<1>6. CASE WriteWiring(p) \/ WriteComplete(p) \/ WriteLinked(p) \/ WriteDestroyed(p)
  BY <1>0, <1>6 DEF WriteWiring, WriteComplete, WriteLinked, WriteDestroyed
<1>7. CASE UninstallConnect(p) \/ BeginDestroy(p)
  BY <1>0, <1>7 DEF UninstallConnect, BeginDestroy, Process
<1>8. CASE NextEffect(p) \/ ResolveDns(p) \/ NextTarget(p)
  <2>1. \A action, t, target, cur :
          JournalEffect(p, action, t, target, cur) => proc'[p].pc \in {"idle", "pending"}
    BY <1>0 DEF JournalEffect
  <2>2. proc'[p].pc \in {"idle", "pending", "dns", "host", "uninstall"}
    <3>1. CASE NextEffect(p)
      BY <1>0, <2>1, <3>1 DEF NextEffect
    <3>2. CASE ResolveDns(p)
      BY <1>0, <2>1, <3>2 DEF ResolveDns
    <3>3. CASE NextTarget(p)
      BY <1>0, <2>1, <3>3 DEF NextTarget
    <3> QED
      BY <1>8, <3>1, <3>2, <3>3
  <2> QED
    BY <2>2
<1> QED
  BY <1>1, <1>2, <1>3, <1>4, <1>5, <1>6, <1>7, <1>8 DEF Step

\* Nobody else touches what a process verifies by itself.
LEMMA VerifyingAlone ==
  ASSUME RecordInv, [Next]_vars, NEW q \in Proc, proc'[q].pc \in Verifying
  PROVE  \/ VerifyHost(q) \/ VerifyHttp(q) \/ VerifyConnect(q)
         \/ proc'[q] = proc[q] /\ UNCHANGED <<host, local>>
<1>0. TypeOK /\ Discipline /\ proc \in [Proc -> Process]
  BY DEF RecordInv, Discipline, TypeOK
<1>1. proc[q].pc \in Verifying => lock = q
  BY <1>0, Memory DEF Verifying, Unlocked
<1>2. "none" \notin Proc
  BY ConstantsAssumption
<1> USE DEF files, outside
<1>3. ASSUME NEW p \in Proc, Start(p)
      PROVE  proc'[q] = proc[q] /\ UNCHANGED <<host, local>>
  <2>1. CASE DeployPlan(p) \/ \E purge \in BOOLEAN : ShowDestroyPlan(p, purge)
    BY <2>1 DEF DeployPlan, ShowDestroyPlan
  <2>2. CASE ApplyObserve(p)
    BY <1>0, <2>2 DEF ApplyObserve, Idle, Verifying
  <2>3. CASE \/ ConnectInstall(p) \/ \E cmd \in {"resume", "pending_only"} : Resume(p, cmd)
             \/ \E purge \in BOOLEAN : OpenDestroy(p, purge)
    <3> DEFINE Opened == /\ lock = "none" /\ proc'[p].pc \in {"linked", "resume", "destroy"}
                         /\ \A r \in Proc \ {p} : proc'[r] = proc[r]
    <3>1. ASSUME ConnectInstall(p)
          PROVE  Opened
      BY <1>0, <3>1 DEF ConnectInstall, Idle, OpenStore
    <3>2. ASSUME NEW cmd \in {"resume", "pending_only"}, Resume(p, cmd)
          PROVE  Opened
      BY <1>0, <3>2 DEF Resume, Idle, OpenStore
    <3>3. ASSUME NEW purge \in BOOLEAN, OpenDestroy(p, purge)
          PROVE  Opened
      BY <1>0, <3>3 DEF OpenDestroy, Idle, OpenStore
    <3>4. Opened
      BY <2>3, <3>1, <3>2, <3>3
    <3> QED
      BY <1>1, <1>2, <3>4 DEF Verifying
  <2> QED
    BY <1>3, <2>1, <2>2, <2>3 DEF Start
<1>4. ASSUME NEW p \in Proc, Abort(p)
      PROVE  proc'[q] = proc[q] /\ UNCHANGED <<host, local>>
  BY <1>0, <1>4 DEF Abort, Quit, Idle, Verifying
<1>5. ASSUME NEW p \in Proc, Step(p), p # q
      PROVE  proc'[q] = proc[q] /\ UNCHANGED <<host, local>>
  <2>1. proc'[q] = proc[q]
    BY <1>0, <1>5, OthersRest
  <2>2. proc[p].pc \in Unlocked
    BY <1>0, <1>1, <1>5, <2>1, Memory
  <2>3. ApplyFound(p) \/ ApplyNotFound(p) \/ ApplyRefused(p) \/ ApplyOpenFresh(p)
    BY <1>5, <2>2, UnlockedSteps
  <2> QED
    BY <2>1, <2>3 DEF ApplyFound, ApplyNotFound, ApplyRefused, ApplyOpenFresh
<1>6. CASE Environment \/ UNCHANGED vars
  BY <1>6 DEF Environment, OperationDone, OperationFails, Tamper, TamperDns, OperatorSetsDns,
              vars
<1> QED
  BY <1>3, <1>4, <1>5, <1>6, EntersVerifying DEF Next

LEMMA ProvenNext ==
  ASSUME RecordInv, [Next]_vars, NEW q \in Proc, Proven(proc[q])
  PROVE  Proven(proc[q])'
<1> SUFFICES ASSUME proc'[q].pc \in Verifying
             PROVE  Proven(proc[q])'
  BY DEF Proven
<1>0. TypeOK /\ Discipline /\ proc \in [Proc -> Process] /\ proc[q] \in Process
  BY DEF RecordInv, Discipline, TypeOK
<1>1. Address # Dns /\ Instance # Dns
  BY SlotFacts
<1> USE DEF files, outside
<1>2. CASE VerifyHost(q)
  <2>1. Begin(q) /\ local.creds /\ HostAnswers(proc[q].mem)
    BY <1>0, <1>2 DEF VerifyHost, Quit, Idle, Verifying
  <2>2. /\ proc'[q].pc = "reach" /\ proc'[q].mem = proc[q].mem
        /\ proc'[q].began = [instance |-> cloud[Instance], address |-> cloud[Address],
                             dns |-> zone.value]
    BY <1>0, <2>1 DEF Begin, Process
  <2>3. UNCHANGED <<host, local>>
    BY <1>2 DEF VerifyHost
  <2> QED
    BY <1>1, <2>1, <2>2, <2>3 DEF Proven, HostAnswers, Live, DnsReady
<1>3. CASE VerifyHttp(q) \/ VerifyConnect(q)
  <2>1. PICK step \in {"doctor", "verified"} :
          /\ Goto(q, step) /\ proc[q].pc \in Verifying /\ UNCHANGED <<host, local>>
          /\ step = "verified" => (proc[q].mem.requested => local.daemon)
    BY <1>0, <1>3 DEF VerifyHttp, VerifyConnect, Quit, Idle, Verifying
  <2>2. proc'[q].pc = step /\ proc'[q].mem = proc[q].mem /\ proc'[q].began = proc[q].began
    BY <1>0, <2>1 DEF Goto, Process
  <2> QED
    BY <2>1, <2>2 DEF Proven
<1>4. CASE proc'[q] = proc[q] /\ UNCHANGED <<host, local>>
  BY <1>4 DEF Proven
<1> QED
  BY <1>2, <1>3, <1>4, VerifyingAlone

(***************************************************************************)
(* A deployment is declared complete only when it serves: recorded and     *)
(* installed, connected if asked for, and live, addressed and resolved at  *)
(* the very moment of the write, but for what somebody changed between the *)
(* first check of the verification and that write (verify_product and the  *)
(* end of resume_plan).                                                    *)
(***************************************************************************)
THEOREM CompletionProven == Spec => CompletionIsProven
<1> DEFINE Complete ==
      (stored.phase # "complete" /\ stored'.phase = "complete") =>
       /\ InfrastructureComplete(stored')
       /\ host = stored'.res[Instance]
       /\ local.creds
       /\ stored'.requested => local.daemon
       /\ \E p \in Proc : LET began == proc[p].began IN
            /\ lock = p
            /\ cloud[Instance] = began.instance => cloud[Instance] = host
            /\ cloud[Address] = began.address =>
                 cloud[Address] = stored'.res[Address]
            /\ zone.value = began.dns => zone.value = "node"
           Inv == RecordInv /\ \A p \in Proc : Proven(proc[p])
<1>1. ASSUME Inv, [Next]_vars, stored.phase # "complete", stored'.phase = "complete"
      PROVE  Complete
  <2>1. PICK p \in Proc : Writes(p) /\ Validate(stored') /\ proc[p].pc \notin Unlocked
    BY <1>1, Written DEF RecordInv
  <2>2. Marks(p) /\ proc[p].pc = "verified"
    BY <1>1, <2>1 DEF Writes, Replans, Plans, PlansDelete, Marks, Receives, Condemns, Clears
  <2>3. /\ stored'.res = stored.res /\ stored'.requested = proc[p].mem.requested
        /\ lock = p /\ proc[p].mem.res = stored.res
    BY <1>1, <2>1, <2>2, Memory DEF Marks, RecordInv
  <2>4. InfrastructureComplete(stored')
    BY <1>1, <2>1 DEF Validate, ValidatePhase
  <2>5. /\ host = stored.res[Instance]
        /\ proc[p].began = [instance |-> stored.res[Instance],
                            address |-> stored.res[Address], dns |-> "node"]
        /\ local.creds /\ (stored'.requested => local.daemon)
    BY <1>1, <2>2, <2>3 DEF Proven, Verifying
  <2> QED
    BY <2>3, <2>4, <2>5
<1>2. Inv /\ [Next]_vars => [Complete]_vars
  BY <1>1
<1>3. Init => Inv
  <2>1. ASSUME Init, NEW p \in Proc
        PROVE  Proven(proc[p])
    <3>1. proc[p].pc = "idle"
      BY <2>1 DEF Init, Idle
    <3> QED
      BY <3>1 DEF Proven, Verifying
  <2> QED
    BY <2>1, RecordInit
<1>4. Inv /\ [Next]_vars => Inv'
  BY RecordNext, ProvenNext
<1> QED
  BY <1>2, <1>3, <1>4, PTL DEF Spec, CompletionIsProven

(***************************************************************************)
(* The approved plan changes only to one the operator approved and         *)
(* plan.json holds by then, and no effect outside the approved plan is     *)
(* ever journaled (apply, resume_plan and execute_effect).                 *)
(***************************************************************************)
THEOREM ApprovalFollowed == Spec => EffectsFollowApproval
<1> DEFINE Follows ==
      /\ stored'.plan # stored.plan =>
          /\ \E p \in Proc : lock = p /\ proc[p].approved = stored'.plan
          /\ storedPlan = stored'.plan
      /\ (~HasPending(stored) /\ stored'.pending.action \in {"create", "update"})
          => PlanMatches(stored.plan, stored, stored'.pending)
<1>1. ASSUME RecordInv, [Next]_vars
      PROVE  Follows
  <2>1. CASE stored' = stored
    BY <2>1 DEF HasPending
  <2>2. CASE stored' # stored
    <3>1. PICK p \in Proc : Writes(p) /\ proc[p].pc \notin Unlocked
      BY <1>1, <2>2, Written DEF RecordInv
    <3>2. lock = p /\ Claim(proc[p])
      BY <1>1, <3>1, Memory DEF RecordInv
    <3>3. CASE Replans(p)
      BY <3>2, <3>3 DEF Replans, Claim, Opening, HasPending
    <3>4. CASE Plans(p)
      <4>1. proc[p].plan = stored.plan
        BY <3>2, <3>4 DEF Plans, Claim, Bound
      <4> QED
        BY <3>4, <4>1 DEF Plans
    <3>5. CASE Marks(p)
      BY <3>5 DEF Marks, SameEffect, HasPending
    <3>6. CASE PlansDelete(p) \/ Receives(p) \/ Condemns(p) \/ Clears(p)
      BY <3>6 DEF PlansDelete, Receives, Condemns, Clears, HasPending, NoEffect
    <3> QED
      BY <3>1, <3>3, <3>4, <3>5, <3>6 DEF Writes
  <2> QED
    BY <2>1, <2>2
<1>2. RecordInv /\ [Next]_vars => [Follows]_vars
  BY <1>1
<1> QED
  BY <1>2, RecordHolds, PTL DEF Spec, EffectsFollowApproval

-----------------------------------------------------------------------------
(* The A record.                                                            *)

\* An effect on the A record that is executed replaces what was shown: a delete the node's
\* address, a change the value the approved plan observed.
Expects(q) ==
  LET e == stored.pending IN
  (q.pc \in Executing /\ e.slot = Dns /\ e.action # "delete") => e.cur = stored.plan.cur

DeletesNode == (stored.pending.slot = Dns /\ stored.pending.action = "delete")
                 => stored.pending.cur = "node"

ZoneInv == RecordInv /\ DeletesNode /\ \A p \in Proc : Expects(proc[p])

LEMMA MatchedDns ==
  ASSUME NEW plan, NEW s, NEW e, PlanMatches(plan, s, e), e.slot = Dns
  PROVE  e.cur = plan.cur
BY SlotFacts DEF PlanMatches

\* The steps that start the execution of an effect.
LEMMA EntersExecuting ==
  ASSUME RecordInv, NEW p \in Proc, Step(p), proc'[p].pc \in Executing
  PROVE  \/ proc[p].pc \in Executing \ {"receipt"}
         \/ ResumePlan(p) \/ NextEffect(p) \/ ResolveDns(p) \/ BeginDestroy(p) \/ NextTarget(p)
<1>0. TypeOK /\ proc \in [Proc -> Process] /\ proc[p] \in Process
  BY DEF RecordInv, Discipline, TypeOK
<1> USE EndsAt DEF At, Executing
<1>1. CASE \/ ApplyFound(p) \/ ApplyNotFound(p) \/ ApplyRefused(p) \/ ApplyOpenFresh(p)
  BY <1>0, <1>1 DEF ApplyFound, ApplyNotFound, ApplyRefused, ApplyOpenFresh, Process
<1>2. CASE WritePlanFile(p) \/ WriteApplying(p)
  BY <1>0, <1>2 DEF WritePlanFile, WriteApplying
<1>3. CASE StartCreate(p) \/ CheckDelete(p) \/ RequestDelete(p) \/ StartDns(p)
             \/ RecordOperation(p) \/ PollEffect(p)
  BY <1>3 DEF StartCreate, CheckDelete, RequestDelete, StartDns, ReadyToStart, RecordOperation,
              PollEffect
<1>4. CASE RecordReceipt(p)
  BY <1>0, <1>4 DEF RecordReceipt
<1>5. CASE \/ RevalidateHost(p) \/ InstallHost(p) \/ WriteInstalled(p) \/ CompleteProduct(p)
           \/ InstallConnectStep(p)
  BY <1>0, <1>5
     DEF RevalidateHost, InstallHost, WriteInstalled, CompleteProduct, InstallConnectStep
<1>6. CASE \/ WriteWiring(p) \/ VerifyHost(p) \/ VerifyHttp(p) \/ VerifyConnect(p)
           \/ WriteComplete(p) \/ WriteLinked(p) \/ WriteDestroyed(p)
  BY <1>0, <1>6 DEF WriteWiring, VerifyHost, Begin, VerifyHttp, VerifyConnect, WriteComplete,
                    WriteLinked, WriteDestroyed, Process
<1>7. CASE UninstallConnect(p)
  BY <1>0, <1>7 DEF UninstallConnect, Process
<1> QED
  BY <1>1, <1>2, <1>3, <1>4, <1>5, <1>6, <1>7 DEF Step

LEMMA ExpectsStep ==
  ASSUME ZoneInv, NEW p \in Proc, Step(p)
  PROVE  Expects(proc[p])'
<1> SUFFICES ASSUME proc'[p].pc \in Executing, stored'.pending.slot = Dns,
                    stored'.pending.action # "delete"
             PROVE  stored'.pending.cur = stored'.plan.cur
  BY DEF Expects
<1>0. Discipline /\ Claim(proc[p]) /\ Expects(proc[p])
  BY DEF ZoneInv, RecordInv
<1>1. CASE proc[p].pc \in Executing \ {"receipt"}
  <2>1. CASE stored' = stored
    BY <1>0, <1>1, <2>1 DEF Expects
  <2>2. CASE stored' # stored
    <3>1. Writes(p)
      BY <1>0, <2>2, StepWrites
    <3>2. Marks(p)
      BY <1>1, <3>1 DEF Writes, Replans, Plans, PlansDelete, Receives, Condemns, Clears, Executing
    <3> QED
      BY <1>0, <1>1, <3>2 DEF Marks, SameEffect, Expects
  <2> QED
    BY <2>1, <2>2
<1>2. CASE ResumePlan(p)
  <2>1. proc[p].pc = "resume" /\ stored' = stored
    BY <1>2 DEF ResumePlan, files
  <2>2. PlanBinds(proc[p].plan, proc[p].mem) /\ Goto(p, IF HasPending(proc[p].mem)
                                                       THEN "pending" ELSE "effects")
    BY <1>0, <1>2, EndsAt DEF ResumePlan, Executing, Discipline
  <2>3. proc[p].mem.pending = stored.pending /\ proc[p].mem.plan = stored.plan
    BY <1>0, <2>1, Memory DEF Unlocked
  <2>4. HasPending(proc[p].mem)
    BY <1>0, <2>2, EndsAt DEF Discipline, Executing, At
  <2> QED
    BY <2>1, <2>2, <2>3, <2>4, MatchedDns DEF PlanBinds
<1>3. CASE NextEffect(p) \/ ResolveDns(p)
  <2>1. proc[p].pc \in {"effects", "dns"} /\ proc[p].plan = stored.plan
    BY <1>0, <1>3 DEF NextEffect, ResolveDns, Claim, Bound
  <2>2. ~HasPending(stored) /\ stored.pending = NoEffect
    <3>1. ~HasPending(stored)
      BY <1>0, <2>1, Memory DEF MayBeAt, Journaling, Unlocked
    <3> QED
      BY <1>0, <3>1 DEF Discipline, JournalIsSound, SoundJournal
  <2>3. HasPending(stored')
    <3>1. Discipline'
      BY <1>0, DisciplineNext DEF Next
    <3> QED
      BY <3>1 DEF Discipline, ControlAgrees, LockedMemoryIsCurrent, SameRecord, MayBeAt,
                  HasPending, Executing, Unlocked
  <2>4. Writes(p)
    BY <1>0, <2>2, <2>3, StepWrites
  <2>5. Plans(p)
    BY <2>1, <2>2, <2>3, <2>4
       DEF Writes, Replans, Plans, PlansDelete, Marks, SameEffect, Receives, Condemns, Clears,
           HasPending
  <2> QED
    BY <2>1, <2>5, MatchedDns DEF Plans
<1>4. CASE BeginDestroy(p) \/ NextTarget(p)
  <2>1. proc[p].pc \in {"destroy", "targets"}
    BY <1>4 DEF BeginDestroy, NextTarget
  <2>2. Discipline' /\ HasPending(stored')
    <3>1. Discipline'
      BY <1>0, DisciplineNext DEF Next
    <3> QED
      BY <3>1 DEF Discipline, ControlAgrees, LockedMemoryIsCurrent, SameRecord, MayBeAt,
                  HasPending, Executing, Unlocked
  <2>3. stored'.destroy.on => FALSE
    BY <2>2 DEF Discipline, StoredIsValid, Validate, ValidateActiveDestroy, PendingMatchesTarget,
                HasPending
  <2>4. CASE BeginDestroy(p)
    <3>1. CASE proc[p].mem.phase = "destroying"
      <4>1. stored.phase = "destroying" /\ stored' = stored
        BY <1>0, <2>4, <3>1, Memory DEF BeginDestroy, Unlocked
      <4> QED
        BY <1>0, <2>3, <4>1
           DEF Discipline, StoredIsValid, Validate, ValidateActiveDestroy
    <3>2. CASE proc[p].mem.phase # "destroying"
      <4>1. proc'[p].pc \in {"idle", "targets"}
        BY <1>0, <2>4, <3>2, EndsAt DEF BeginDestroy, Discipline, At, Steps
      <4> QED
        BY <4>1 DEF Executing
    <3> QED
      BY <3>1, <3>2
  <2>5. CASE NextTarget(p)
    <3>1. proc[p].pc = "targets"
      BY <2>5 DEF NextTarget
    <3>2. ~HasPending(stored)
      BY <1>0, <3>1, Memory DEF MayBeAt, Journaling, Unlocked
    <3>3. Writes(p)
      BY <1>0, <2>2, <3>2, StepWrites
    <3>4. PlansDelete(p)
      BY <3>1, <3>3 DEF Writes, Replans, Plans, Marks, Receives, Condemns, Clears
    <3> QED
      BY <3>4 DEF PlansDelete
  <2> QED
    BY <1>4, <2>4, <2>5
<1> QED
  BY <1>0, <1>1, <1>2, <1>3, <1>4, EntersExecuting DEF ZoneInv

\* Nobody but its own process brings a command to such a step.
LEMMA OthersExecute ==
  ASSUME ZoneInv, [Next]_vars, NEW q \in Proc, ~Step(q), proc'[q].pc \in Executing
  PROVE  proc'[q] = proc[q] /\ stored' = stored
<1>0. Discipline /\ TypeOK /\ proc \in [Proc -> Process]
  BY DEF ZoneInv, RecordInv, Discipline, TypeOK
<1>1. ASSUME NEW p \in Proc, Step(p)
      PROVE  proc'[q] = proc[q] /\ stored' = stored
  <2>1. proc'[q] = proc[q] /\ p # q
    BY <1>0, <1>1, OthersRest
  <2>2. lock = q /\ proc[p].pc \in Unlocked
    BY <1>0, <2>1 DEF Discipline, LockedMemoryIsCurrent, Executing, Unlocked
  <2> QED
    BY <1>1, <2>1, <2>2, UnlockedSteps
       DEF ApplyFound, ApplyNotFound, ApplyRefused, ApplyOpenFresh, files
<1>2. ASSUME NEW p \in Proc, NEW new, proc' = [proc EXCEPT ![p] = new], new.pc \notin Executing
      PROVE  proc'[q] = proc[q]
  BY <1>0, <1>2
<1>3. ASSUME NEW p \in Proc, Start(p)
      PROVE  proc'[q] = proc[q] /\ stored' = stored
  <2>1. CASE DeployPlan(p) \/ \E purge \in BOOLEAN : ShowDestroyPlan(p, purge)
    BY <2>1 DEF DeployPlan, ShowDestroyPlan, files
  <2>2. CASE ApplyObserve(p)
    BY <1>2, <2>2 DEF ApplyObserve, Idle, Executing, files
  <2>3. CASE ConnectInstall(p) \/ \E cmd \in {"resume", "pending_only"} : Resume(p, cmd)
    BY <1>2, <2>3 DEF ConnectInstall, Resume, Idle, Executing, files
  <2>4. CASE \E purge \in BOOLEAN : OpenDestroy(p, purge)
    BY <1>2, <2>4 DEF OpenDestroy, Idle, Executing, files
  <2> QED
    BY <1>3, <2>1, <2>2, <2>3, <2>4 DEF Start
<1>4. ASSUME NEW p \in Proc, Abort(p)
      PROVE  proc'[q] = proc[q] /\ stored' = stored
  BY <1>2, <1>4 DEF Abort, Quit, Idle, Executing, files
<1>5. CASE Environment \/ UNCHANGED vars
  BY <1>5 DEF Environment, OperationDone, OperationFails, Tamper, TamperDns, OperatorSetsDns,
              files, vars
<1> QED
  BY <1>1, <1>3, <1>4, <1>5 DEF Next

LEMMA ZoneNext ==
  ASSUME ZoneInv, [Next]_vars
  PROVE  ZoneInv'
<1>0. Discipline
  BY DEF ZoneInv, RecordInv
<1>1. RecordInv'
  BY RecordNext DEF ZoneInv
<1>2. DeletesNode'
  <2>1. CASE stored' = stored
    BY <2>1 DEF ZoneInv, DeletesNode
  <2>2. CASE stored' # stored
    <3>1. PICK p \in Proc : Writes(p)
      BY <1>0, <2>2, Written
    <3>2. CASE Replans(p) \/ Condemns(p) \/ Clears(p)
      BY <3>2 DEF Replans, Condemns, Clears, ZoneInv, DeletesNode
    <3>3. CASE Plans(p) \/ PlansDelete(p) \/ Receives(p)
      BY <3>3 DEF Plans, PlansDelete, Receives, NoEffect, DeletesNode
    <3>4. CASE Marks(p)
      BY <3>4 DEF Marks, SameEffect, ZoneInv, DeletesNode
    <3> QED
      BY <3>1, <3>2, <3>3, <3>4 DEF Writes
  <2> QED
    BY <2>1, <2>2
<1>3. ASSUME NEW q \in Proc
      PROVE  Expects(proc[q])'
  <2>1. CASE Step(q)
    BY <2>1, ExpectsStep
  <2>2. CASE ~Step(q) /\ proc'[q].pc \in Executing
    BY <2>2, OthersExecute DEF ZoneInv, Expects
  <2>3. CASE proc'[q].pc \notin Executing
    BY <2>3 DEF Expects
  <2> QED
    BY <2>1, <2>2, <2>3
<1> QED
  BY <1>1, <1>2, <1>3 DEF ZoneInv

LEMMA ZoneInit == ASSUME Init PROVE ZoneInv
BY RecordInit DEF Init, NoState, NoEffect, Idle, ZoneInv, DeletesNode, Expects, Executing

\* Who changes the A record.
LEMMA ZoneMoves ==
  ASSUME Discipline, [Next]_vars, zone' # zone, faults' = faults
  PROVE  OperatorSetsDns \/ \E p \in Proc : StartDns(p)
<1> USE DEF outside
<1>1. ASSUME NEW p \in Proc, Start(p) PROVE FALSE
  BY <1>1 DEF Start, DeployPlan, ApplyObserve, Resume, ConnectInstall, ShowDestroyPlan, OpenDestroy
<1>2. ASSUME NEW p \in Proc, Abort(p) PROVE FALSE
  BY <1>2 DEF Abort
<1>3. ASSUME NEW p \in Proc, Step(p) PROVE StartDns(p)
  <2>1. CASE \/ ApplyFound(p) \/ ApplyNotFound(p) \/ ApplyRefused(p) \/ ApplyOpenFresh(p)
             \/ WritePlanFile(p) \/ WriteApplying(p)
             \/ ResumePlan(p) \/ NextEffect(p) \/ ResolveDns(p)
    BY <2>1 DEF ApplyFound, ApplyNotFound, ApplyRefused, ApplyOpenFresh, WritePlanFile,
                WriteApplying, ResumePlan, NextEffect, ResolveDns
  <2>2. CASE \/ StartCreate(p) \/ CheckDelete(p) \/ RequestDelete(p)
             \/ RecordOperation(p) \/ PollEffect(p) \/ RecordReceipt(p)
    BY <2>2 DEF StartCreate, CheckDelete, RequestDelete, RecordOperation, PollEffect,
                RecordReceipt
  <2>3. CASE \/ RevalidateHost(p) \/ InstallHost(p) \/ WriteInstalled(p) \/ CompleteProduct(p)
             \/ InstallConnectStep(p) \/ WriteWiring(p) \/ VerifyHost(p) \/ VerifyHttp(p)
             \/ VerifyConnect(p) \/ WriteComplete(p) \/ WriteLinked(p)
    BY <2>3 DEF RevalidateHost, InstallHost, WriteInstalled, CompleteProduct,
                InstallConnectStep, WriteWiring, VerifyHost, VerifyHttp, VerifyConnect,
                WriteComplete, WriteLinked
  <2>4. CASE BeginDestroy(p) \/ NextTarget(p) \/ UninstallConnect(p) \/ WriteDestroyed(p)
    BY <2>4 DEF BeginDestroy, NextTarget, UninstallConnect, WriteDestroyed
  <2> QED
    BY <1>3, <2>1, <2>2, <2>3, <2>4 DEF Step
<1>4. ASSUME Environment PROVE OperatorSetsDns
  <2>1. \A f \in Faults : ~Spend(f)
    BY DEF Discipline, TypeOK, Spend, Faults
  <2> QED
    BY <1>4, <2>1 DEF Environment, OperationDone, OperationFails, Tamper, TamperDns, Faults
<1> QED
  BY <1>1, <1>2, <1>3, <1>4 DEF Next, vars

(***************************************************************************)
(* For any commands, plans and tampering, the deployer replaces the A      *)
(* record only where it is still the one address, with the TTL it writes,  *)
(* that the approved plan showed, and                                      *)
(* removes it only as an approved target that still names the node         *)
(* (start_dns_update and start_dns_delete): never what came there since.   *)
(***************************************************************************)
THEOREM RecordReplacedAsShown == Spec => DnsReplacesOnlyWhatWasShown
<1> DEFINE AsShown ==
      (zone' # zone /\ faults' = faults) =>
         \/ /\ stored.phase = "waiting_user"
            /\ zone'.value = "node" /\ zone'.by = NoId
         \/ /\ zone.value = stored.plan.cur /\ zone.value # "many" /\ zone.standard
            /\ zone'.value = "node" /\ zone'.by = stored.pending.id
         \/ /\ zone.value = "node"
            /\ zone'.value = "absent" /\ zone'.by = NoId
            /\ stored.destroy.on /\ Dns \in stored.destroy.left
<1>1. ASSUME ZoneInv, [Next]_vars, zone' # zone, faults' = faults
      PROVE  AsShown
  <2>0. Discipline
    BY <1>1 DEF ZoneInv, RecordInv
  <2>1. CASE OperatorSetsDns
    BY <2>1 DEF OperatorSetsDns, RecordsOfOthers
  <2>2. ASSUME NEW p \in Proc, StartDns(p)
        PROVE  AsShown
    <3> DEFINE e == stored.pending
    <3>1. proc[p].pc = "pending" /\ proc[p].pc \in Executing /\ Pending(p) = e /\ e.slot = Dns
          /\ e.action \in {"create", "update", "delete"}
      BY <2>0, <2>2, Memory DEF StartDns, ReadyToStart, Pending, Unlocked, Executing
    <3>2. Expected(e) /\ zone.value = e.cur /\ ChangeDns(e)
      BY <1>1, <2>2, <3>1 DEF StartDns, Expected
    <3>3. CASE e.action = "delete"
      <4>1. e.cur = "node" /\ zone'.value = "absent" /\ zone'.by = NoId
        BY <1>1, <3>1, <3>2, <3>3 DEF ZoneInv, DeletesNode, ChangeDns, DnsGoal
      <4>2. stored.destroy.on
        BY <2>0, <3>3 DEF Discipline, JournalIsSound, SoundJournal
      <4>3. Dns \in stored.destroy.left
        BY <2>0, <3>1, <3>3, <4>2
           DEF Discipline, StoredIsValid, Validate, ValidateActiveDestroy, PendingMatchesTarget,
               IsCurrent, HasPending
      <4> QED
        BY <3>2, <4>1, <4>2, <4>3
    <3>4. CASE e.action # "delete"
      <4>1. e.cur = stored.plan.cur
        BY <1>1, <3>1, <3>4 DEF ZoneInv, Expects
      <4>2. zone'.value = "node" /\ zone'.by = e.id
        BY <3>2, <3>4 DEF ChangeDns, DnsGoal
      <4>3. zone.standard /\ zone.value # "many"
        BY <3>2, <3>4 DEF Expected
      <4> QED
        BY <3>2, <4>1, <4>2, <4>3
    <3> QED
      BY <3>3, <3>4
  <2> QED
    BY <1>1, <2>0, <2>1, <2>2, ZoneMoves
<1>2. ZoneInv /\ [Next]_vars => [AsShown]_vars
  BY <1>1
<1>3. Spec => []ZoneInv
  BY ZoneInit, ZoneNext, PTL DEF Spec
<1> QED
  BY <1>2, <1>3, PTL DEF Spec, DnsReplacesOnlyWhatWasShown

-----------------------------------------------------------------------------
(***************************************************************************)
(* A destroy follows the plan that was shown, parents outlive their        *)
(* children, and the deployment implements the ledger.                     *)
(***************************************************************************)
Whole == IInv /\ RecordInv

LEMMA WholeHolds == Spec => []Whole
BY InvariantHolds, RecordHolds, PTL DEF Whole

(***************************************************************************)
(* A destroy starts only with the plan that was shown; it stays frozen     *)
(* while its targets are worked off one by one, each gone from the cloud   *)
(* when it is crossed off, and ends when none is left.                     *)
(***************************************************************************)
LEMMA DestroyStep ==
  ASSUME Whole, NEW p \in Proc, Writes(p), proc[p].pc \notin Unlocked
  PROVE  LET old == stored.destroy  new == stored'.destroy IN
         /\ (~old.on /\ new.on) => new.plan = shown.destroy
         /\ (old.on /\ new.on) =>
              /\ new.plan = old.plan
              /\ \E t \in Slots : old.left \ {t} \subseteq new.left
              /\ new.left \subseteq old.left
              /\ \A t \in old.left \ new.left :
                   IF t = Dns THEN zone.by = NoId
                              ELSE cloud[t] # old.plan.target[t]
         /\ (old.on /\ ~new.on) => old.left = {}
<1>0. /\ IInv /\ RecordInv /\ Discipline /\ Claim(proc[p]) /\ Earned(proc[p].pc, stored.pending)
  BY DEF Whole, IInv, RecordInv, ReceiptIsEarned
<1>1. CASE Condemns(p)
  <2>1. ~stored.destroy.on
    BY <1>0, <1>1 DEF Condemns, Discipline, StoredIsValid, Validate, ValidateActiveDestroy
  <2>2. shown.destroy = DestroyPlanOf(stored, proc[p].cmd = "purge")
    BY <1>0, <1>1, <2>1 DEF Condemns, Claim
  <2>3. stored'.destroy.plan = DestroyPlanOf(stored, proc[p].cmd = "purge") /\ stored'.destroy.on
    BY <1>1 DEF Condemns, ActiveDestroyOf
  <2> QED
    BY <2>1, <2>2, <2>3
<1>2. CASE Clears(p)
  <2>1. stored.destroy.left = {} /\ ~stored'.destroy.on
    BY <1>0, <1>2 DEF Clears, Claim, NoDestroy
  <2> QED
    BY <2>1
<1>3. CASE Receives(p)
  <2> DEFINE e == stored.pending
  <2>1. /\ stored'.destroy.on = stored.destroy.on /\ stored'.destroy.plan = stored.destroy.plan
        /\ stored'.destroy.left = IF e.action = "delete" THEN stored.destroy.left \ {e.slot}
                                                         ELSE stored.destroy.left
    BY <1>3 DEF Receives
  <2>2. e.slot \in Slots
    BY <1>0, StoredFields DEF Discipline, Effect
  <2>3. e.action = "delete" =>
          IF e.slot = Dns THEN zone.by = NoId ELSE cloud[e.slot] # stored.destroy.plan.target[e.slot]
    BY <1>0, <1>3 DEF Receives, Earned, PendingMatchesTarget
  <2>4. CASE e.action = "delete"
    BY <2>1, <2>2, <2>3, <2>4
  <2>5. CASE e.action # "delete"
    BY <2>1, <2>2, <2>5
  <2> QED
    BY <2>4, <2>5
<1>4. CASE Replans(p) \/ Plans(p) \/ PlansDelete(p) \/ Marks(p)
  <2>1. stored'.destroy = stored.destroy
    BY <1>4 DEF Replans, Plans, PlansDelete, Marks
  <2> QED
    BY <2>1, SlotFacts
<1> QED
  BY <1>1, <1>2, <1>3, <1>4 DEF Writes

(***************************************************************************)
(* A destroy does what was approved, in the approved order, and crosses    *)
(* nothing off that is still in place (destroy, plan_destroy and advance). *)
(***************************************************************************)
THEOREM DestroyApproved == Spec => DestroyFollowsApproval
<1> DEFINE Follows ==
      LET old == stored.destroy  new == stored'.destroy IN
      /\ (~old.on /\ new.on) => new.plan = shown.destroy
      /\ (old.on /\ new.on) =>
           /\ new.plan = old.plan
           /\ \E t \in Slots : old.left \ {t} \subseteq new.left
           /\ new.left \subseteq old.left
           /\ \A t \in old.left \ new.left :
                IF t = Dns THEN zone.by = NoId
                           ELSE cloud[t] # old.plan.target[t]
      /\ (old.on /\ ~new.on) => old.left = {}
<1>1. ASSUME Whole, [Next]_vars
      PROVE  Follows
  <2>1. CASE stored' = stored
    BY <2>1, SlotFacts
  <2>2. CASE stored' # stored
    <3>1. PICK p \in Proc : Writes(p) /\ proc[p].pc \notin Unlocked
      BY <1>1, <2>2, Written DEF Whole, RecordInv
    <3> QED
      BY <1>1, <3>1, DestroyStep
  <2> QED
    BY <2>1, <2>2
<1>2. Whole /\ [Next]_vars => [Follows]_vars
  BY <1>1
<1> QED
  BY <1>2, WholeHolds, PTL DEF Spec, DestroyFollowsApproval

-----------------------------------------------------------------------------
(* What a step may do to the cloud.                                         *)

Requests(p) == StartCreate(p) \/ RequestDelete(p) \/ StartDns(p)

LEMMA Moves ==
  ASSUME TypeOK, [Next]_vars
  PROVE  \/ UNCHANGED <<cloud, ops>> /\ faults'["tamper"] = faults["tamper"]
         \/ \E p \in Proc : Requests(p)
         \/ \E o \in ops : OperationDone(o) \/ OperationFails(o)
         \/ \E t \in Created : Tamper(t)
         \/ TamperDns
<1> USE DEF outside
<1>1. ASSUME NEW p \in Proc, Step(p), ~Requests(p)
      PROVE  UNCHANGED <<cloud, ops, faults>>
  <2>1. CASE \/ ApplyFound(p) \/ ApplyNotFound(p) \/ ApplyRefused(p) \/ ApplyOpenFresh(p)
             \/ WritePlanFile(p) \/ WriteApplying(p)
             \/ ResumePlan(p) \/ NextEffect(p) \/ ResolveDns(p)
             \/ CheckDelete(p) \/ RecordOperation(p) \/ PollEffect(p) \/ RecordReceipt(p)
    BY <2>1 DEF ApplyFound, ApplyNotFound, ApplyRefused, ApplyOpenFresh, WritePlanFile,
                WriteApplying, ResumePlan, NextEffect, ResolveDns, CheckDelete,
                RecordOperation, PollEffect, RecordReceipt
  <2>2. CASE \/ RevalidateHost(p) \/ InstallHost(p) \/ WriteInstalled(p) \/ CompleteProduct(p)
             \/ InstallConnectStep(p) \/ WriteWiring(p) \/ VerifyHost(p) \/ VerifyHttp(p)
             \/ VerifyConnect(p) \/ WriteComplete(p) \/ WriteLinked(p)
             \/ BeginDestroy(p) \/ NextTarget(p) \/ UninstallConnect(p) \/ WriteDestroyed(p)
    BY <2>2 DEF RevalidateHost, InstallHost, WriteInstalled, CompleteProduct,
                InstallConnectStep, WriteWiring, VerifyHost, VerifyHttp, VerifyConnect,
                WriteComplete, WriteLinked, BeginDestroy, NextTarget, UninstallConnect,
                WriteDestroyed
  <2> QED
    BY <1>1, <2>1, <2>2 DEF Step, Requests
<1>2. ASSUME NEW p \in Proc, Start(p) PROVE UNCHANGED <<cloud, ops, faults>>
  BY <1>2 DEF Start, DeployPlan, ApplyObserve, Resume, ConnectInstall, ShowDestroyPlan, OpenDestroy
<1>3. ASSUME NEW p \in Proc, Abort(p)
      PROVE  UNCHANGED <<cloud, ops>> /\ faults'["tamper"] = faults["tamper"]
  BY <1>3 DEF Abort, Spend, TypeOK, Faults
<1>4. CASE OperatorSetsDns \/ UNCHANGED vars
  BY <1>4 DEF OperatorSetsDns, vars
<1> QED
  BY <1>1, <1>2, <1>3, <1>4 DEF Next, Environment

LEMMA TamperSpends ==
  ASSUME TypeOK, TamperDns \/ \E t \in Created : Tamper(t)
  PROVE  /\ faults'["tamper"] # 0
         /\ faults["tamper"] < MaxFaults["tamper"]
<1>1. Spend("tamper")
  BY DEF TamperDns, Tamper
<1> QED
  BY <1>1 DEF Spend, TypeOK, Faults

LEMMA TamperStays ==
  ASSUME TypeOK, NEW o, OperationDone(o) \/ OperationFails(o) \/ \E p \in Proc : Requests(p)
  PROVE  faults'["tamper"] = faults["tamper"]
BY DEF OperationDone, OperationFails, Requests, StartCreate, RequestDelete, StartDns, Spend,
       TypeOK, Faults

-----------------------------------------------------------------------------
(* Parents outlive their children.                                          *)

\* While nobody tampers: nothing foreign stands under our names, every
\* resource has the ones it names, and so has every insert under way.
Family ==
  /\ \A t \in Created : cloud[t] >= 0
  /\ \A t \in Created : cloud[t] # NoId => \A d \in Needs(t) : cloud[d] # NoId
  /\ \A o \in ops : (InFlight(o) /\ o.action = "create") =>
       \A d \in Needs(o.slot) : cloud[d] # NoId

ParentsInv == faults["tamper"] = 0 => Family

LEMMA NeedsFacts ==
  ASSUME NEW t \in Created, NEW d \in Needs(t)
  PROVE  d \in Created /\ t # Disk /\ DestroyRank[t] < DestroyRank[d]
<1>1. d \in Created
  BY DEF Needs
<1>2. t \in AllCreated
  BY CreatedAssumption
<1>3. t # Disk /\ DestroyRank[t] < DestroyRank[d]
  BY <1>2 DEF Needs, AllCreated, DestroyRank, Disk, Instance, Address
<1> QED
  BY <1>1, <1>3

\* A delete under way is of a resource nothing in place names.
LEMMA Childless ==
  ASSUME IInv, Family, NEW o \in ops, InFlight(o), o.action = "delete",
         NEW t \in Created, o.slot \in Needs(t)
  PROVE  /\ cloud[t] = NoId
         /\ ~\E c \in ops : InFlight(c) /\ c.action = "create"
<1>0. o.slot \in Created /\ o.target = cloud[o.slot]
  BY OperationFacts DEF InFlight
<1>1. /\ stored.pending.slot = o.slot /\ stored.pending.action = "delete"
      /\ ~\E c \in ops : InFlight(c) /\ c.action = "create"
  <2>1. OnOurs(o)
    BY <1>0 DEF OnOurs, Family, Foreign
  <2>2. \A c \in ops : InFlight(c) /\ c.action = "create" => OnOurs(c)
    BY DEF OnOurs
  <2> QED
    BY <2>1, <2>2 DEF IInv, CloudAgrees, NoOrphan
<1>2. stored.destroy.on /\ PendingMatchesTarget(stored.pending, stored.destroy)
  BY <1>1 DEF IInv, Discipline, JournalIsSound, SoundJournal, StoredIsValid, Validate,
              ValidateActiveDestroy, HasPending
<1>3. t # Disk /\ DestroyRank[t] < DestroyRank[o.slot]
  BY NeedsFacts
<1>4. t \notin stored.destroy.left
  <2>1. \A u \in stored.destroy.left : DestroyRank[o.slot] <= DestroyRank[u]
    BY <1>1, <1>2 DEF PendingMatchesTarget, IsCurrent
  <2>2. DestroyRank[t] \in Nat /\ DestroyRank[o.slot] \in Nat
    <3>1. t \in AllCreated /\ o.slot \in AllCreated
      BY NeedsFacts, CreatedAssumption
    <3> QED
      BY <3>1 DEF AllCreated, DestroyRank
  <2> QED
    BY <1>3, <2>1, <2>2
<1>5. stored.res[t] = NoId
  BY <1>2, <1>3, <1>4, SlotFacts
     DEF IInv, Discipline, StoredIsValid, Validate, ValidateActiveDestroy
<1>6. ~(cloud[t] > NoId)
  BY <1>1, <1>5 DEF IInv, CloudAgrees, NoOrphan, Accounted, NoId
<1>7. cloud[t] = NoId
  BY <1>6 DEF Family, NoId, IInv, Discipline, TypeOK, Foreign
<1> QED
  BY <1>1, <1>7

LEMMA FamilyRequests ==
  ASSUME IInv, Family, NEW p \in Proc, Requests(p)
  PROVE  Family'
<1> DEFINE e == proc[p].mem.pending
<1>1. cloud' = cloud
  BY DEF Requests, StartCreate, RequestDelete, StartDns, outside
<1>2. \A target : Submit(e, target) =>
        \A o \in ops' \ ops : /\ o.slot = e.slot /\ o.action = e.action
                              /\ ~Requested(e)
  BY DEF Submit
<1>3. ASSUME NEW o \in ops' \ ops, o.slot # Dns, o.action = "create"
      PROVE  \A d \in Needs(o.slot) : cloud[d] # NoId
  <2>1. CASE StartCreate(p)
    BY <1>2, <1>3, <2>1 DEF StartCreate, Pending, Requested
  <2>2. CASE RequestDelete(p)
    <3>1. proc[p].pc = "deleting" /\ o.action = e.action
      BY <1>2, <1>3, <2>2 DEF RequestDelete, Pending
    <3>2. e.action = "delete"
      BY <3>1 DEF IInv, Discipline, ControlAgrees, MayBeAt
    <3> QED
      BY <1>3, <3>1, <3>2
  <2>3. CASE StartDns(p)
    BY <1>2, <1>3, <2>3 DEF StartDns, ChangeDns, ReadyToStart, Pending
  <2> QED
    BY <2>1, <2>2, <2>3 DEF Requests
<1>4. ASSUME NEW o \in ops', InFlight(o)', o.action = "create"
      PROVE  \A d \in Needs(o.slot) : cloud[d] # NoId
  <2>1. o.slot # Dns /\ InFlight(o)
    BY <1>1, <1>4 DEF InFlight
  <2> QED
    BY <1>3, <1>4, <2>1 DEF Family
<1> QED
  BY <1>1, <1>4 DEF Family

LEMMA FamilyOperations ==
  ASSUME IInv, Family, NEW o \in ops, OperationDone(o) \/ OperationFails(o)
  PROVE  Family'
<1>0. /\ cloud \in [Created -> Nat \cup {Foreign}] /\ o.st = "running"
      /\ o.id \in Nat /\ o.id > 0 /\ (o.slot # Dns => o.slot \in Created)
      /\ o.slot # Dns => o.action \in {"create", "delete"}
  BY OperationFacts DEF IInv, Discipline, TypeOK, OperationDone, OperationFails
<1>1. PICK n : ops' = (ops \ {o}) \cup {n} /\ n.st # "running"
  <2>1. o \in Operation
    BY DEF IInv, Discipline, TypeOK
  <2>2. [o EXCEPT !.st = "failed"].st # "running" /\ [o EXCEPT !.st = "done"].st # "running"
    BY <2>1 DEF Operation
  <2> QED
    BY <2>2 DEF OperationDone, OperationFails
<1>2. CASE cloud' = cloud
  <2>1. ASSUME NEW c \in ops', InFlight(c)'
        PROVE  c \in ops /\ InFlight(c)
    BY <1>1, <1>2, <2>1 DEF InFlight
  <2> QED
    BY <1>2, <2>1 DEF Family
<1>3. CASE cloud' # cloud
  <2>1. OperationDone(o) /\ o.slot \in Created /\ o.slot # Dns
    BY <1>0, <1>3 DEF OperationDone, OperationFails
  <2>2. CASE o.action = "create"
    <3>1. cloud' = [cloud EXCEPT ![o.slot] = o.id]
      BY <1>3, <2>1, <2>2 DEF OperationDone
    <3>2. \A d \in Needs(o.slot) : cloud[d] # NoId
      BY <1>0, <2>1, <2>2 DEF Family, InFlight
    <3>3. ASSUME NEW t \in Created
          PROVE  /\ cloud'[t] >= 0 /\ (cloud[t] # NoId => cloud'[t] # NoId)
                 /\ t # o.slot => cloud'[t] = cloud[t]
      BY <1>0, <2>1, <3>1 DEF Family, NoId
    <3>4. ASSUME NEW t \in Created, cloud'[t] # NoId, NEW d \in Needs(t)
          PROVE  cloud'[d] # NoId
      BY <3>2, <3>3, <3>4, NeedsFacts DEF Family
    <3>5. ASSUME NEW c \in ops', InFlight(c)', c.action = "create", NEW d \in Needs(c.slot)
          PROVE  cloud'[d] # NoId
      <4>1. c \in ops /\ InFlight(c) /\ c.slot \in Created
        BY <1>1, <3>5, OperationFacts DEF InFlight
      <4> QED
        BY <3>3, <3>5, <4>1, NeedsFacts DEF Family
    <3> QED
      BY <3>3, <3>4, <3>5 DEF Family
  <2>3. CASE o.action = "delete"
    <3>1. /\ cloud' = [cloud EXCEPT ![o.slot] = NoId] /\ cloud[o.slot] = o.target
      BY <1>0, <1>3, <2>1, <2>3 DEF OperationDone
    <3>2. InFlight(o)
      BY <1>0, <2>1, <3>1 DEF InFlight
    <3>3. ASSUME NEW t \in Created
          PROVE  cloud'[t] >= 0 /\ (cloud'[t] # NoId => cloud[t] # NoId)
                 /\ (t # o.slot => cloud'[t] = cloud[t])
      BY <1>0, <2>1, <3>1 DEF Family, NoId
    <3>4. ASSUME NEW t \in Created, cloud'[t] # NoId, NEW d \in Needs(t)
          PROVE  cloud'[d] # NoId
      <4>1. d # o.slot
        BY <2>3, <3>2, <3>3, <3>4, Childless
      <4> QED
        BY <3>3, <3>4, <4>1, NeedsFacts DEF Family
    <3>5. ~\E c \in ops' : InFlight(c)' /\ c.action = "create"
      <4>1. ASSUME NEW c \in ops', InFlight(c)', c.action = "create"
            PROVE  FALSE
        <5>1. c \in ops /\ InFlight(c)
          BY <1>1, <4>1 DEF InFlight
        <5> QED
          BY <2>1, <2>3, <3>1, <3>2, <4>1, <5>1
             DEF IInv, CloudAgrees, NoOrphan, OnOurs, Family, Foreign
      <4> QED
        BY <4>1
    <3> QED
      BY <3>3, <3>4, <3>5 DEF Family
  <2> QED
    BY <1>0, <2>1, <2>2, <2>3
<1> QED
  BY <1>2, <1>3

LEMMA ParentsNext ==
  ASSUME IInv, ParentsInv, [Next]_vars
  PROVE  ParentsInv'
<1>0. TypeOK
  BY DEF IInv, Discipline
<1>1. CASE UNCHANGED <<cloud, ops>> /\ faults'["tamper"] = faults["tamper"]
  BY <1>1 DEF ParentsInv, Family, InFlight
<1>2. CASE \E p \in Proc : Requests(p)
  <2>1. faults'["tamper"] = faults["tamper"]
    BY <1>0, <1>2, TamperStays
  <2> QED
    BY <1>2, <2>1, FamilyRequests DEF ParentsInv
<1>3. CASE \E o \in ops : OperationDone(o) \/ OperationFails(o)
  <2>1. faults'["tamper"] = faults["tamper"]
    BY <1>0, <1>3, TamperStays
  <2> QED
    BY <1>3, <2>1, FamilyOperations DEF ParentsInv
<1>4. CASE TamperDns \/ \E t \in Created : Tamper(t)
  BY <1>0, <1>4, TamperSpends DEF ParentsInv
<1> QED
  BY <1>0, <1>1, <1>2, <1>3, <1>4, Moves

(***************************************************************************)
(* As long as nobody else touches the deployment's resources, a resource   *)
(* never stands without the ones it names, while it is built up, torn down *)
(* or rebuilt after failures (effect order in build_plan, target order in  *)
(* DestroyPlan::from_state).                                               *)
(***************************************************************************)
THEOREM ParentsOutlive == Spec => []ParentsExist
<1>1. Init => ParentsInv
  BY DEF Init, ParentsInv, Family, NoId
<1>2. ParentsInv => ParentsExist
  BY DEF ParentsInv, Family, ParentsExist
<1>3. IInv /\ ParentsInv /\ [Next]_vars => ParentsInv'
  BY ParentsNext
<1> QED
  BY <1>1, <1>2, <1>3, InvariantHolds, PTL DEF Spec

-----------------------------------------------------------------------------
(* The refinement.  The ledger, its resources and the condemned slots, as   *)
(* the instance Ledger reads them off the deployment.                       *)

Entered == Recorded \cup Journaled
Exist   == {t \in Created : cloud[t] > NoId}
Doomed  == stored.destroy.left \ {Dns}

LedgerStep ==
  \/ UNCHANGED <<Entered, Exist, Doomed>>
  \/ \E s \in Created :
       /\ Doomed = {} /\ Entered \subseteq Exist /\ s \notin Entered
       /\ Entered' = Entered \cup {s} /\ Exist' = Exist /\ Doomed' = Doomed
  \/ \E s \in Created :
       /\ s \in Entered \ Exist /\ Doomed = {}
       /\ Exist' = Exist \cup {s} /\ Entered' = Entered /\ Doomed' = Doomed
  \/ /\ Doomed = {} /\ Entered \subseteq Exist /\ Doomed' \subseteq Entered
     /\ Entered' = Entered /\ Exist' = Exist
  \/ \E s \in Created :
       /\ s \in Doomed \cap Exist
       /\ Exist' = Exist \ {s} /\ Entered' = Entered /\ Doomed' = Doomed
  \/ \E s \in Created :
       /\ s \in Doomed \ Exist
       /\ Entered' = Entered \ {s} /\ Doomed' = Doomed \ {s} /\ Exist' = Exist

\* While nobody tampers, what is recorded stands unless its delete is journaled.
Standing ==
  \A t \in Created : stored.res[t] # NoId =>
    \/ cloud[t] = stored.res[t]
    \/ stored.pending.action = "delete" /\ stored.pending.slot = t

Untouched == MaxFaults["tamper"] = 0

LEMMA Undisturbed ==
  ASSUME TypeOK, Untouched, [Next]_vars
  PROVE  \/ UNCHANGED <<cloud, ops>>
         \/ \E p \in Proc : Requests(p)
         \/ \E o \in ops : OperationDone(o) \/ OperationFails(o)
<1>1. faults["tamper"] \in Nat
  BY DEF TypeOK, Faults
<1>2. ~(TamperDns \/ \E t \in Created : Tamper(t))
  <2>1. ASSUME TamperDns \/ \E t \in Created : Tamper(t)
        PROVE  FALSE
    BY <1>1, <2>1, TamperSpends DEF Untouched
  <2> QED
    BY <2>1
<1> QED
  BY <1>2, Moves

LEMMA WritesAlone ==
  ASSUME TypeOK, Untouched, [Next]_vars, stored' # stored
  PROVE  cloud' = cloud
BY Undisturbed DEF Requests, StartCreate, RequestDelete, StartDns, OperationDone, OperationFails,
                   files

\* A creating effect and an active destroy exclude each other.
LEMMA NothingDoomed ==
  ASSUME NEW s, ValidateActiveDestroy(s), SoundJournal(s), s.pending.action = "create"
  PROVE  ~s.destroy.on /\ s.destroy.left = {}
BY DEF ValidateActiveDestroy, SoundJournal, HasPending, PendingMatchesTarget

LEMMA Facts ==
  ASSUME Whole
  PROVE  /\ Discipline /\ TypeOK /\ Validate(stored) /\ ValidateActiveDestroy(stored)
         /\ SoundJournal(stored)
         /\ stored.res \in [Slots -> Nat] /\ stored.pending \in Effect
         /\ cloud \in [Created -> Nat \cup {Foreign}]
BY StoredFields DEF Whole, IInv, Discipline, TypeOK, StoredIsValid, Validate, JournalIsSound

\* An operation under way ends: the resource appears or vanishes.
LEMMA DoneIsLedgerStep ==
  ASSUME Whole, NEW o \in ops, OperationDone(o), cloud' # cloud
  PROVE  /\ LedgerStep
         /\ \A t \in Created : \/ cloud'[t] = cloud[t] \/ cloud[t] = Foreign
                               \/ t = o.slot /\ stored.res[t] = NoId
                               \/ t = o.slot /\ stored.pending.action = "delete"
                                             /\ stored.pending.slot = t
<1>0. /\ o.slot # Dns /\ o.st = "running" /\ o.slot \in Created
      /\ o.action \in {"create", "delete"} /\ stored' = stored
      /\ o.id \in Nat /\ o.id > 0
      /\ (o.action = "delete" /\ o.target # Foreign) => o.target \in Nat /\ o.target > 0
  BY OperationFacts DEF Whole, OperationDone, files, Strayed
<1>1. Entered' = Entered /\ Doomed' = Doomed
  BY <1>0 DEF Entered, Recorded, Journaled, Doomed
<1>2. InFlight(o)
  BY <1>0, Facts DEF OperationDone, InFlight
<1>3. OnOurs(o) => stored.pending.slot = o.slot /\ stored.pending.action = o.action
  BY DEF Whole, IInv, CloudAgrees, NoOrphan
<1>4. CASE o.action = "create"
  <2>0. stored.pending.slot = o.slot /\ stored.pending.action = o.action
    BY <1>2, <1>3, <1>4 DEF OnOurs
  <2>1. cloud' = [cloud EXCEPT ![o.slot] = o.id] /\ cloud[o.slot] = NoId
    BY <1>0, <1>4 DEF OperationDone
  <2>2. Exist' = Exist \cup {o.slot} /\ o.slot \notin Exist
    BY <1>0, <2>1, Facts DEF Exist, NoId
  <2>3. Doomed = {}
    BY <1>4, <2>0, Facts, NothingDoomed DEF Doomed
  <2>4. o.slot \in Entered
    BY <1>0, <1>4, <2>0 DEF Entered, Journaled
  <2>5. stored.res[o.slot] = NoId
    BY <1>4, <2>0, Facts DEF SoundJournal
  <2>6. LedgerStep
    BY <1>0, <1>1, <2>2, <2>3, <2>4 DEF LedgerStep
  <2> QED
    BY <1>0, <2>1, <2>5, <2>6, Facts
<1>5. CASE o.action = "delete" /\ o.target # Foreign
  <2>0. stored.pending.slot = o.slot /\ stored.pending.action = o.action
    BY <1>2, <1>3, <1>5 DEF OnOurs
  <2>1. cloud' = [cloud EXCEPT ![o.slot] = NoId] /\ cloud[o.slot] = o.target
    BY <1>0, <1>2, <1>5 DEF OperationDone, InFlight
  <2>2. Exist' = Exist \ {o.slot} /\ o.slot \in Exist
    BY <1>0, <1>5, <2>1, Facts DEF Exist, NoId
  <2>3. stored.destroy.on
    BY <1>5, <2>0, Facts DEF SoundJournal
  <2>4. o.slot \in Doomed
    BY <1>0, <1>5, <2>0, <2>3, Facts
       DEF Doomed, ValidateActiveDestroy, HasPending, PendingMatchesTarget, IsCurrent
  <2>5. LedgerStep
    BY <1>0, <1>1, <2>2, <2>4 DEF LedgerStep
  <2> QED
    BY <1>0, <1>5, <2>0, <2>1, <2>5, Facts
\* The delete took what somebody had put in the place of its target.
<1>6. CASE o.action = "delete" /\ o.target = Foreign
  <2>1. cloud' = [cloud EXCEPT ![o.slot] = NoId] /\ cloud[o.slot] = Foreign
    BY <1>0, <1>2, <1>6 DEF OperationDone, InFlight
  <2>2. Exist' = Exist
    BY <1>0, <2>1, Facts DEF Exist, NoId, Foreign
  <2> QED
    BY <1>0, <1>1, <2>1, <2>2, Facts DEF LedgerStep
<1> QED
  BY <1>0, <1>4, <1>5, <1>6

LEMMA CloudIsLedgerStep ==
  ASSUME Whole, Standing, Untouched, [Next]_vars, stored' = stored
  PROVE  LedgerStep /\ Standing'
<1>1. TypeOK
  BY Facts
<1>2. CASE cloud' = cloud
  BY <1>2 DEF LedgerStep, Entered, Exist, Doomed, Recorded, Journaled, Standing
<1>3. CASE cloud' # cloud
  <2>1. PICK o \in ops : OperationDone(o)
    BY <1>1, <1>3, Undisturbed
       DEF OperationFails, Requests, StartCreate, RequestDelete, StartDns, outside
  <2> QED
    <3>1. \A t \in Created : stored.res[t] # Foreign
      BY Facts, SlotFacts DEF Foreign
    <3> QED
      BY <1>3, <2>1, <3>1, DoneIsLedgerStep DEF Standing
<1> QED
  BY <1>2, <1>3

\* A write that leaves the recorded resources and a create journal alone.
LEMMA SilentWrite ==
  ASSUME Standing, cloud' = cloud, stored'.res = stored.res,
         stored'.destroy = stored.destroy,
         \/ SameEffect(stored'.pending, stored.pending)
         \/ /\ ~HasPending(stored)
            /\ stored'.pending.action # "create" \/ stored'.pending.slot = Dns
  PROVE  LedgerStep /\ Standing'
<1>1. Journaled' = Journaled
  BY DEF Journaled, SameEffect, HasPending
<1>2. Entered' = Entered /\ Exist' = Exist /\ Doomed' = Doomed
  BY <1>1 DEF Entered, Recorded, Exist, Doomed
<1>3. Standing'
  BY DEF Standing, SameEffect, HasPending
<1> QED
  BY <1>2, <1>3 DEF LedgerStep

\* Without a journaled effect everything recorded stands.
LEMMA AllStand ==
  ASSUME Whole, Standing, ~HasPending(stored)
  PROVE  /\ \A t \in Created : stored.res[t] # NoId => cloud[t] = stored.res[t]
         /\ Entered = Recorded /\ Entered \subseteq Exist
<1>1. \A t \in Created : stored.res[t] # NoId => cloud[t] = stored.res[t]
  BY DEF Standing, HasPending
<1>2. Entered = Recorded
  BY DEF Entered, Journaled, HasPending
<1>3. \A t \in Created : stored.res[t] \in Nat
  BY Facts, SlotFacts
<1>4. Recorded \subseteq Exist
  BY <1>1, <1>3 DEF Recorded, Exist, NoId
<1> QED
  BY <1>1, <1>2, <1>4

LEMMA PlansIsEnter ==
  ASSUME Whole, Standing, NEW p \in Proc, Plans(p), Validate(stored'), TypeOK',
         cloud' = cloud
  PROVE  LedgerStep /\ Standing'
<1> DEFINE s == stored'.pending.slot
<1>1. CASE stored'.pending.action # "create" \/ s = Dns
  BY <1>1, SilentWrite DEF Plans
<1>2. CASE stored'.pending.action = "create" /\ s # Dns
  <2>1. s \in Created
    <3>1. stored' \in State
      BY DEF TypeOK
    <3>2. s \in Slots
      BY <3>1 DEF State, Effect
    <3> QED
      BY <1>2, <3>2 DEF Slots
  <2>2. ~stored'.destroy.on
    BY <1>2 DEF Validate, ValidateActiveDestroy, HasPending, PendingMatchesTarget
  <2>3. Doomed = {}
    BY <2>2, Facts DEF Plans, SoundJournal, Doomed
  <2>4. Entered = Recorded /\ Entered \subseteq Exist
    BY AllStand DEF Plans
  <2>5. s \notin Entered
    BY <2>4 DEF Plans, Recorded
  <2>6. Journaled' = {s} /\ Recorded' = Recorded
    BY <1>2 DEF Journaled, Recorded, Plans
  <2>7. Entered' = Entered \cup {s}
    BY <2>4, <2>6 DEF Entered
  <2>8. Exist' = Exist /\ Doomed' = Doomed
    BY DEF Exist, Doomed, Plans
  <2>9. Standing'
    BY AllStand DEF Plans, Standing
  <2> QED
    BY <2>1, <2>3, <2>4, <2>5, <2>7, <2>8, <2>9 DEF LedgerStep
<1> QED
  BY <1>1, <1>2

LEMMA CondemnsIsCondemn ==
  ASSUME Whole, Standing, NEW p \in Proc, Condemns(p), Validate(stored'), cloud' = cloud
  PROVE  LedgerStep /\ Standing'
<1>1. ~stored.destroy.on
  BY Facts DEF Condemns, ValidateActiveDestroy
<1>2. ~HasPending(stored)
  <2>1. ASSUME HasPending(stored)
        PROVE  FALSE
    <3>1. stored'.pending.action = "delete"
      BY <2>1 DEF Condemns, ActiveDestroyOf, Validate, ValidateActiveDestroy, HasPending,
                  PendingMatchesTarget
    <3> QED
      BY <1>1, <3>1, Facts DEF Condemns, SoundJournal
  <2> QED
    BY <2>1
<1>3. Doomed = {}
  BY <1>1, Facts DEF SoundJournal, Doomed
<1>4. Entered' = Entered /\ Exist' = Exist
  BY DEF Entered, Recorded, Journaled, Exist, Condemns
<1>5. Entered = Recorded /\ Entered \subseteq Exist
  BY <1>2, AllStand
<1>6. Doomed' \subseteq Recorded
  <2> DEFINE dp == DestroyPlanOf(stored, proc[p].cmd = "purge")
  <2>1. stored'.destroy.left = Targets(dp)
    BY DEF Condemns, ActiveDestroyOf
  <2>2. \A t \in Slots : dp.target[t] # NoId => stored.res[t] # NoId
    BY DEF DestroyPlanOf
  <2> HIDE DEF dp
  <2> QED
    BY <2>1, <2>2 DEF Doomed, Targets, Recorded, Slots
<1>7. Standing'
  BY DEF Standing, Condemns
<1> QED
  BY <1>3, <1>4, <1>5, <1>6, <1>7 DEF LedgerStep

LEMMA ReceivesIsStrike ==
  ASSUME Whole, Standing, NEW p \in Proc, Receives(p), cloud' = cloud
  PROVE  LedgerStep /\ Standing'
<1> DEFINE e == stored.pending
<1>1. HasPending(stored) /\ e \in Effect /\ e.id > 0
  <2>1. proc[p].pc \notin Unlocked /\ proc[p].pc \in Executing
    BY DEF Receives, Unlocked, Executing
  <2>2. HasPending(stored)
    BY <2>1, Facts, Memory DEF MayBeAt
  <2> QED
    BY <2>2, Facts, PendingFacts DEF Whole
<1>2. Exist' = Exist
  BY DEF Exist
<1>3. CASE e.slot = Dns
  <2>1. \A t \in Created : stored'.res[t] = stored.res[t]
    BY <1>3, Facts, SlotFacts DEF Receives
  <2>2. Recorded' = Recorded /\ Journaled = {} /\ Journaled' = {}
    BY <1>3, <2>1 DEF Recorded, Journaled, Receives, NoEffect
  <2>3. Doomed' = Doomed
    BY <1>3 DEF Doomed, Receives
  <2>4. Standing'
    BY <1>3, <2>1, SlotFacts DEF Standing
  <2> QED
    BY <1>2, <2>2, <2>3, <2>4 DEF LedgerStep, Entered
<1>4. CASE e.slot # Dns /\ e.action # "delete"
  <2>1. e.action = "create" /\ e.slot \in Created
    BY <1>1, <1>4 DEF HasPending, Effect, Slots, Whole, IInv, CloudAgrees, OperationsAreEffects
  <2>2. stored'.res = [stored.res EXCEPT ![e.slot] = e.id] /\ cloud[e.slot] = e.id
    BY <1>4 DEF Receives, Happened, InPlace
  <2>3. \A t \in Created : stored'.res[t] = IF t = e.slot THEN e.id ELSE stored.res[t]
    BY <2>2, Facts, SlotFacts
  <2>4. Recorded' = Recorded \cup {e.slot}
    BY <1>1, <2>1, <2>3 DEF Recorded, NoId
  <2>5. Journaled = {e.slot} /\ Journaled' = {}
    BY <1>4, <2>1 DEF Journaled, Receives, NoEffect
  <2>6. Doomed' = Doomed
    BY <1>4 DEF Doomed, Receives
  <2>7. Standing'
    BY <2>1, <2>2, <2>3 DEF Standing
  <2> QED
    BY <1>2, <2>4, <2>5, <2>6, <2>7 DEF LedgerStep, Entered
<1>5. CASE e.slot # Dns /\ e.action = "delete"
  <2>1. e.slot \in Created
    BY <1>1, <1>5 DEF Effect, Slots
  <2>2. \A t \in Created : stored'.res[t] = IF t = e.slot THEN NoId ELSE stored.res[t]
    BY <1>5, Facts, SlotFacts DEF Receives
  <2>3. Recorded' = Recorded \ {e.slot} /\ Journaled = {} /\ Journaled' = {}
    BY <1>5, <2>2 DEF Recorded, Journaled, Receives, NoEffect
  <2>4. Doomed' = Doomed \ {e.slot}
    BY <1>5 DEF Doomed, Receives
  <2>5. /\ stored.destroy.on /\ e.slot \in stored.destroy.left
        /\ e.target = stored.destroy.plan.target[e.slot] /\ e.target # NoId
    BY <1>1, <1>5, Facts
       DEF Receives, PendingMatchesTarget, IsCurrent, Validate, ValidateEffect
  <2>6. stored.res[e.slot] = e.target
    <3>1. e.slot \in Targets(stored.destroy.plan)
      BY <2>1, <2>5, SlotFacts DEF Targets
    <3> QED
      BY <2>5, <3>1, Facts DEF ValidateActiveDestroy
  <2>7. cloud[e.slot] # e.target
    BY <1>5 DEF Receives, Whole, IInv, ReceiptIsEarned, Earned
  <2>8. e.slot \notin Exist
    <3>1. ASSUME cloud[e.slot] > NoId
          PROVE  cloud[e.slot] = stored.res[e.slot]
      BY <1>5, <2>1, <3>1 DEF Whole, IInv, CloudAgrees, NoOrphan, Accounted
    <3> QED
      BY <2>6, <2>7, <3>1 DEF Exist
  <2>9. e.slot \in Doomed
    BY <1>5, <2>5 DEF Doomed
  <2>10. Standing'
    BY <2>2 DEF Standing
  <2> QED
    BY <1>2, <2>1, <2>3, <2>4, <2>8, <2>9, <2>10 DEF LedgerStep, Entered
<1> QED
  BY <1>3, <1>4, <1>5

LEMMA WriteIsLedgerStep ==
  ASSUME Whole, Standing, NEW p \in Proc, Writes(p), Validate(stored'), TypeOK',
         cloud' = cloud
  PROVE  LedgerStep /\ Standing'
<1>1. CASE Replans(p) \/ PlansDelete(p) \/ Marks(p)
  BY <1>1, SilentWrite DEF Replans, PlansDelete, Marks, SameEffect
<1>2. CASE Clears(p)
  <2>1. stored.destroy.left = {} /\ stored'.destroy.left = {}
    BY <1>2 DEF Whole, RecordInv, Claim, Clears, NoDestroy
  <2>2. Entered' = Entered /\ Exist' = Exist /\ Doomed' = Doomed
    BY <1>2, <2>1 DEF Entered, Recorded, Journaled, Exist, Doomed, Clears
  <2>3. Standing'
    BY <1>2 DEF Standing, Clears
  <2> QED
    BY <2>2, <2>3 DEF LedgerStep
<1> QED
  BY <1>1, <1>2, PlansIsEnter, CondemnsIsCondemn, ReceivesIsStrike DEF Writes

LEMMA NextIsLedgerStep ==
  ASSUME Whole, Standing, Untouched, [Next]_vars
  PROVE  LedgerStep /\ Standing'
<1>0. TypeOK /\ Discipline
  BY Facts
<1>1. CASE stored' # stored
  <2>1. cloud' = cloud
    BY <1>0, <1>1, WritesAlone
  <2>2. TypeOK'
    BY <1>0, DisciplineNext DEF Discipline
  <2> QED
    BY <1>0, <1>1, <2>1, <2>2, Written, WriteIsLedgerStep
<1>2. CASE stored' = stored
  BY <1>2, CloudIsLedgerStep
<1> QED
  BY <1>1, <1>2

(***************************************************************************)
(* While nobody else touches its resources the deployment, with all its    *)
(* processes, files, requests and crashes, implements the write-ahead      *)
(* ledger: a slot is entered before its resource appears, one in doubt at  *)
(* a time, and struck only when the resource is gone by an approval.       *)
(***************************************************************************)
THEOREM ImplementsLedger ==
  ASSUME Untouched
  PROVE  Spec => LedgerSpec
<1>1. Init => Ledger!Init /\ Standing
  BY SlotFacts
     DEF Init, Ledger!Init, Standing, Recorded, Journaled, NoState, NoTargets, NoEffect,
         NoDestroy, NoId
<1>2. Whole /\ Standing /\ [Next]_vars => [Ledger!Next]_(Ledger!vars) /\ Standing'
  <2> SUFFICES ASSUME Whole, Standing, [Next]_vars
               PROVE  [Ledger!Next]_(Ledger!vars) /\ Standing'
    OBVIOUS
  <2>1. LedgerStep /\ Standing'
    BY NextIsLedgerStep
  <2>2. Doomed' \subseteq Entered => Doomed' \in SUBSET Created
    <3>1. TypeOK
      BY Facts
    <3>2. Entered \subseteq Created
      BY <3>1, StoredFields DEF Entered, Recorded, Journaled, Effect, Slots
    <3> QED
      BY <3>2
  <2>3. LedgerStep => [Ledger!Next]_(Ledger!vars)
    BY <2>2
    DEF LedgerStep, Entered, Exist, Doomed, Ledger!Next, Ledger!Enter, Ledger!Appear,
        Ledger!Vanish, Ledger!Strike, Ledger!Condemn, Ledger!vars
  <2> QED
    BY <2>1, <2>3
<1> QED
  BY <1>1, <1>2, WholeHolds, PTL DEF Spec, LedgerSpec, Ledger!Spec
===============================================================================

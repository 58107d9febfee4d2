--------------------------- MODULE DeploymentProofs ---------------------------
(***************************************************************************)
(* Theorems about every deployment, whatever the constants.  The invariant *)
(* of DeploymentInvariant is inductive, and implies what the runs check:   *)
(* first the records and the journal alone, then with the cloud: no        *)
(* resource is orphaned and none is rebuilt, whoever else acts there.      *)
(***************************************************************************)
EXTENDS DeploymentInvariant, TLAPS

(***************************************************************************)
(* The slots: the A record is not one of the created resources.            *)
(***************************************************************************)
LEMMA SlotFacts ==
  /\ Dns \in Slots /\ Dns \notin Created
  /\ Created \subseteq Slots
  /\ Address \in Created /\ Disk \in Created /\ Instance \in Created
BY CreatedAssumption DEF Slots, Dns, AllCreated, Address, Disk, Instance

(***************************************************************************)
(* The empty values are of their types.                                    *)
(***************************************************************************)
LEMMA EmptyTypes ==
  /\ NoPlan \in Plan
  /\ NoEffect \in Effect
  /\ NoTargets \in [Slots -> Nat]
  /\ NoDestroyPlan \in DestroyPlan
  /\ Unreviewed \in DestroyPlan
  /\ NoDestroy \in ActiveDestroy
  /\ NoState \in State
  /\ Idle \in Process
<1>1. NoPlan \in Plan
  BY DEF NoPlan, Plan, DnsValues
<1>2. NoEffect \in Effect
  BY SlotFacts DEF NoEffect, Effect, DnsValues, NoId
<1>3. NoTargets \in [Slots -> Nat]
  BY DEF NoTargets, NoId
<1>4. NoDestroyPlan \in DestroyPlan /\ Unreviewed \in DestroyPlan
  BY <1>3 DEF NoDestroyPlan, Unreviewed, DestroyPlan, NoId
<1>5. NoDestroy \in ActiveDestroy
  BY <1>4 DEF NoDestroy, ActiveDestroy
<1>6. NoState \in State
  BY <1>1, <1>2, <1>3, <1>5 DEF NoState, State, Phases
<1>7. Idle \in Process
  <2>1. Unseen \in Sight
    BY DEF Unseen, Sight, DnsValues, NoId
  <2> QED
    BY <1>1, <1>6, <2>1 DEF Idle, Process, Steps, Unlocked
<1> QED
  BY <1>1, <1>2, <1>3, <1>4, <1>5, <1>6, <1>7

(***************************************************************************)
(* A receipt, a new journal entry and a destroy plan keep a state typed.   *)
(***************************************************************************)
LEMMA ReceiptType ==
  ASSUME NEW s \in State
  PROVE  ApplyReceipt(s) \in State
BY EmptyTypes DEF ApplyReceipt, State, ActiveDestroy, Effect, NoId

LEMMA JournalType ==
  ASSUME NEW s \in State, NEW e \in Effect
  PROVE  [s EXCEPT !.pending = e] \in State
BY DEF State

LEMMA DestroyPlanType ==
  ASSUME NEW s \in State, NEW purge \in BOOLEAN
  PROVE  DestroyPlanOf(s, purge) \in DestroyPlan
BY SlotFacts DEF DestroyPlanOf, DestroyPlan, State, NoId

LEMMA ActiveDestroyType ==
  ASSUME NEW dp \in DestroyPlan
  PROVE  ActiveDestroyOf(dp) \in ActiveDestroy
BY DEF ActiveDestroyOf, ActiveDestroy, Targets

-----------------------------------------------------------------------------
(***************************************************************************)
(* Type correctness.  The lemmas type the parts of a step that actions     *)
(* share: what a process is, and how a step ends.                          *)
(***************************************************************************)
LEMMA ProcessFields ==
  ASSUME TypeOK, NEW p \in Proc
  PROVE  /\ proc[p] \in Process
         /\ proc[p].mem \in State
         /\ proc[p].plan \in Plan
         /\ proc[p].approved \in Plan
         /\ proc[p].mem.pending \in Effect
         /\ proc[p].mem.res \in [Slots -> Nat]
         /\ proc[p].mem.destroy \in ActiveDestroy
         /\ proc[p].mem.destroy.plan \in DestroyPlan
BY DEF TypeOK, Process, State, ActiveDestroy

LEMMA StoredFields ==
  ASSUME TypeOK
  PROVE  /\ stored.pending \in Effect
         /\ stored.res \in [Slots -> Nat]
         /\ stored.plan \in Plan
         /\ stored.phase \in Phases
         /\ stored.destroy \in ActiveDestroy
         /\ stored.destroy.plan \in DestroyPlan
BY DEF TypeOK, State, ActiveDestroy

LEMMA QuitType ==
  ASSUME TypeOK, NEW p \in Proc, Quit(p)
  PROVE  proc' \in [Proc -> Process] /\ lock' \in Proc \cup {"none"}
BY EmptyTypes DEF TypeOK, Quit

LEMMA GotoType ==
  ASSUME TypeOK, NEW p \in Proc, NEW step \in Steps, Goto(p, step)
  PROVE  proc' \in [Proc -> Process] /\ lock' \in Proc \cup {"none"}
BY DEF TypeOK, Goto, Process

LEMMA WriteStateType ==
  ASSUME TypeOK, NEW p \in Proc, NEW s \in State, NEW step \in Steps,
         WriteState(p, s, step)
  PROVE  /\ stored' \in State
         /\ proc' \in [Proc -> Process] /\ lock' \in Proc \cup {"none"}
<1>1. CASE Validate(s)
  <2>1. proc \in [Proc -> Process] /\ lock \in Proc \cup {"none"}
    BY DEF TypeOK
  <2>2. [proc[p] EXCEPT !.pc = step, !.mem = s] \in Process
    BY <2>1 DEF Process
  <2>3. proc' = [proc EXCEPT ![p] = [proc[p] EXCEPT !.pc = step, !.mem = s]]
        /\ stored' = s /\ lock' = lock
    BY <1>1 DEF WriteState
  <2> QED
    BY <2>1, <2>2, <2>3
<1>2. CASE ~Validate(s)
  BY <1>2, QuitType DEF TypeOK, WriteState
<1> QED
  BY <1>1, <1>2

LEMMA WriteLastType ==
  ASSUME TypeOK, NEW p \in Proc, NEW s \in State, WriteLast(p, s)
  PROVE  /\ stored' \in State
         /\ proc' \in [Proc -> Process] /\ lock' \in Proc \cup {"none"}
BY QuitType DEF TypeOK, WriteLast

LEMMA JournalEffectType ==
  ASSUME TypeOK, NEW p \in Proc,
         NEW action \in {"create", "update", "delete"}, NEW t \in Slots,
         NEW target \in Nat, NEW cur \in DnsValues,
         JournalEffect(p, action, t, target, cur)
  PROVE  /\ stored' \in State /\ lastId' \in Nat
         /\ proc' \in [Proc -> Process] /\ lock' \in Proc \cup {"none"}
<1> DEFINE e == [action |-> action, slot |-> t, id |-> lastId + 1,
                 target |-> target, cur |-> cur, op |-> FALSE]
           s == [proc[p].mem EXCEPT !.pending = e]
<1>1. lastId + 1 \in Nat
  BY DEF TypeOK
<1>2. e \in Effect
  BY <1>1 DEF Effect
<1>3. s \in State
  BY <1>2, ProcessFields, JournalType
<1>4. WriteState(p, s, "pending") /\ lastId' \in Nat
  BY <1>1 DEF JournalEffect, TypeOK
<1> HIDE DEF s
<1> QED
  BY <1>3, <1>4, WriteStateType DEF Steps

LEMMA SubmitType ==
  ASSUME TypeOK, NEW e \in Effect, e.action # "none", NEW target \in Int,
         Submit(e, target)
  PROVE  \A o \in ops' : o \in Operation
BY DEF TypeOK, Submit, Effect, Operation

(***************************************************************************)
(* Each step of a process keeps the types.                                 *)
(***************************************************************************)
LEMMA BuiltPlanType ==
  ASSUME TypeOK, NEW obs \in Plan
  PROVE  /\ BuiltPlan(obs) \in Plan
         /\ InitialPlan(obs.dns, obs.cur) \in Plan
BY StoredFields DEF BuiltPlan, InitialPlan, ContinuationPlan, Plan

LEMMA ObservationsType ==
  ASSUME TypeOK, NEW obs \in Observations
  PROVE  obs \in Plan
<1>1. zone.value \in DnsValues
  BY DEF TypeOK
<1>2. obs = [stage |-> "none", no |-> 0, dns |-> obs.dns, cur |-> zone.value]
      /\ obs.dns \in DnsModes
  BY DEF Observations
<1> QED
  BY <1>1, <1>2, ConstantsAssumption DEF Plan

LEMMA TypePlanning ==
  ASSUME TypeOK, NEW p \in Proc,
         \/ DeployPlan(p) \/ ApplyObserve(p) \/ ApplyFound(p)
         \/ ApplyNotFound(p) \/ ApplyRefused(p) \/ ApplyOpenFresh(p)
         \/ WritePlanFile(p) \/ WriteApplying(p)
  PROVE  TypeOK'
<1> USE DEF files, outside
<1>1. CASE DeployPlan(p)
  BY <1>1, BuiltPlanType, ObservationsType DEF DeployPlan, TypeOK
<1>2. CASE ApplyObserve(p)
  <2>1. PICK obs \in Observations :
          proc' = [proc EXCEPT ![p] = [Idle EXCEPT !.pc = "observed",
                     !.cmd = "apply", !.plan = obs, !.approved = shown.deploy]]
    BY <1>2 DEF ApplyObserve
  <2>2. [Idle EXCEPT !.pc = "observed", !.cmd = "apply", !.plan = obs,
           !.approved = shown.deploy] \in Process
    BY <1>2, EmptyTypes, ObservationsType
       DEF ApplyObserve, TypeOK, Process, Steps, Unlocked
  <2> QED
    BY <1>2, <2>1, <2>2 DEF ApplyObserve, TypeOK
<1>3. CASE ApplyFound(p)
  <2>1. BuiltPlan(proc[p].plan) \in Plan
    BY ProcessFields, BuiltPlanType
  <2>2. proc' = [proc EXCEPT ![p] = [@ EXCEPT !.pc = "plan_file",
                   !.mem = stored, !.plan = BuiltPlan(proc[p].plan)]]
    BY <1>3 DEF ApplyFound
  <2>3. [proc[p] EXCEPT !.pc = "plan_file", !.mem = stored,
                        !.plan = BuiltPlan(proc[p].plan)] \in Process
    <3>1. stored \in State /\ proc[p] \in Process /\ "plan_file" \in Steps
      BY DEF TypeOK, Steps
    <3> QED
      BY <2>1, <3>1 DEF Process
  <2> QED
    BY <1>3, <2>2, <2>3 DEF ApplyFound, TypeOK
<1>4. CASE ApplyNotFound(p)
  <2>1. InitialPlan(proc[p].plan.dns, proc[p].plan.cur) \in Plan
    BY ProcessFields, BuiltPlanType
  <2>2. [proc[p] EXCEPT !.pc = "fresh",
           !.plan = InitialPlan(proc[p].plan.dns, proc[p].plan.cur)] \in Process
    <3>1. proc[p] \in Process /\ "fresh" \in Steps
      BY DEF TypeOK, Steps, Unlocked
    <3> QED
      BY <2>1, <3>1 DEF Process
  <2>3. proc' = [proc EXCEPT ![p] = [@ EXCEPT !.pc = "fresh",
                   !.plan = InitialPlan(proc[p].plan.dns, proc[p].plan.cur)]]
    BY <1>4 DEF ApplyNotFound
  <2> QED
    BY <1>4, <2>2, <2>3 DEF ApplyNotFound, TypeOK
<1>5. CASE ApplyRefused(p)
  BY <1>5, QuitType DEF ApplyRefused, TypeOK
<1>6. CASE ApplyOpenFresh(p)
  <2>1. nodeDir' \in BOOLEAN
    BY <1>6 DEF ApplyOpenFresh, TypeOK
  <2>2. proc' \in [Proc -> Process] /\ lock' \in Proc \cup {"none"}
    BY <1>6, QuitType DEF ApplyOpenFresh, TypeOK, Process, Steps
  <2> QED
    BY <1>6, <2>1, <2>2 DEF ApplyOpenFresh, TypeOK
<1>7. CASE WritePlanFile(p)
  BY <1>7, GotoType, ProcessFields DEF WritePlanFile, TypeOK, Steps
<1>8. CASE WriteApplying(p)
  <2> DEFINE next == IF proc[p].mem.phase = "none" THEN FreshState(proc[p].plan)
                     ELSE [proc[p].mem EXCEPT !.phase = "applying",
                                              !.plan = proc[p].plan]
  <2>1. next \in State
    BY ProcessFields, EmptyTypes, ConstantsAssumption
       DEF FreshState, State, Phases
  <2>2. WriteState(p, next, "resume")
    BY <1>8 DEF WriteApplying
  <2> HIDE DEF next
  <2>3. /\ stored' \in State
        /\ proc' \in [Proc -> Process] /\ lock' \in Proc \cup {"none"}
    BY <2>1, <2>2, WriteStateType DEF Steps
  <2> QED
    BY <1>8, <2>3 DEF WriteApplying, TypeOK
<1> QED
  BY <1>1, <1>2, <1>3, <1>4, <1>5, <1>6, <1>7, <1>8

LEMMA DnsActionType ==
  ASSUME NEW cur
  PROVE  DnsAction(cur) \in {"create", "update", "delete"}
BY DEF DnsAction

LEMMA TypeResuming ==
  ASSUME TypeOK, NEW p \in Proc,
         \/ \E cmd \in {"resume", "pending_only"} : Resume(p, cmd)
         \/ ResumePlan(p) \/ NextEffect(p) \/ ResolveDns(p)
  PROVE  TypeOK'
<1> USE DEF files, outside
<1>0. proc[p].plan.cur \in DnsValues
  BY ProcessFields DEF Plan
<1>1. CASE \E cmd \in {"resume", "pending_only"} : Resume(p, cmd)
  <2>1. PICK cmd \in {"resume", "pending_only"} : Resume(p, cmd)
    BY <1>1
  <2>2. [Idle EXCEPT !.pc = "resume", !.cmd = cmd, !.mem = stored,
                     !.plan = storedPlan] \in Process
    BY <2>1, EmptyTypes DEF Resume, TypeOK, Process, Steps
  <2> QED
    BY <2>1, <2>2 DEF Resume, TypeOK
<1>2. CASE ResumePlan(p)
  <2>1. proc' \in [Proc -> Process] /\ lock' \in Proc \cup {"none"}
    BY <1>2, QuitType, GotoType DEF ResumePlan, Steps
  <2> QED
    BY <1>2, <2>1 DEF ResumePlan, TypeOK
<1>3. CASE NextEffect(p)
  <2>1. CASE Goto(p, "dns") /\ UNCHANGED <<stored, lastId>>
    BY <1>3, <2>1, GotoType DEF NextEffect, TypeOK, Steps
  <2>2. ASSUME NEW t \in Slots,
               LET cur == IF t = Dns THEN proc[p].plan.cur ELSE "absent" IN
               JournalEffect(p, IF t = Dns THEN DnsAction(cur) ELSE "create",
                             t, NoId, cur)
        PROVE  TypeOK'
    <3>1. /\ stored' \in State /\ lastId' \in Nat
          /\ proc' \in [Proc -> Process] /\ lock' \in Proc \cup {"none"}
      <4>1. CASE t = Dns
        BY <2>2, <4>1, <1>0, DnsActionType, JournalEffectType DEF NoId
      <4>2. CASE t # Dns
        BY <2>2, <4>2, JournalEffectType DEF NoId, DnsValues
      <4> QED
        BY <4>1, <4>2
    <3> QED
      BY <1>3, <3>1 DEF NextEffect, TypeOK
  <2> QED
    BY <1>3, <2>1, <2>2 DEF NextEffect
<1>4. CASE ResolveDns(p)
  <2>1. CASE /\ WriteLast(p, [proc[p].mem EXCEPT !.phase = "waiting_user"])
             /\ UNCHANGED lastId
    <3>1. [proc[p].mem EXCEPT !.phase = "waiting_user"] \in State
      BY ProcessFields DEF State, Phases
    <3>2. /\ stored' \in State
          /\ proc' \in [Proc -> Process] /\ lock' \in Proc \cup {"none"}
      BY <2>1, <3>1, WriteLastType
    <3> QED
      BY <1>4, <2>1, <3>2 DEF ResolveDns, TypeOK
  <2>2. CASE JournalEffect(p, DnsAction(proc[p].plan.cur), Dns, NoId,
                           proc[p].plan.cur)
    <3>1. /\ stored' \in State /\ lastId' \in Nat
          /\ proc' \in [Proc -> Process] /\ lock' \in Proc \cup {"none"}
      BY <2>2, <1>0, DnsActionType, SlotFacts, JournalEffectType DEF NoId
    <3> QED
      BY <1>4, <3>1 DEF ResolveDns, TypeOK
  <2>3. CASE Goto(p, "host") /\ UNCHANGED <<stored, lastId>>
    BY <1>4, <2>3, GotoType DEF ResolveDns, TypeOK, Steps
  <2> QED
    BY <1>4, <2>1, <2>2, <2>3 DEF ResolveDns
<1> QED
  BY <1>1, <1>2, <1>3, <1>4

LEMMA TypeEffects ==
  ASSUME TypeOK, ControlAgrees, NEW p \in Proc,
         \/ StartCreate(p) \/ CheckDelete(p) \/ RequestDelete(p)
         \/ StartDns(p) \/ RecordOperation(p) \/ PollEffect(p)
         \/ RecordReceipt(p)
  PROVE  TypeOK'
<1> USE DEF files, outside
<1>0. Pending(p) \in Effect /\ NoId \in Int
  BY ProcessFields DEF Pending, NoId
<1>1. CASE StartCreate(p)
  <2>1. proc' \in [Proc -> Process] /\ lock' \in Proc \cup {"none"}
    BY <1>1, QuitType, GotoType DEF StartCreate, Steps
  <2>2. \A o \in ops' : o \in Operation
    BY <1>0, <1>1, SubmitType DEF StartCreate, ReadyToStart, TypeOK
  <2> QED
    BY <1>1, <2>1, <2>2 DEF StartCreate, TypeOK
<1>2. CASE CheckDelete(p)
  <2>1. proc' \in [Proc -> Process] /\ lock' \in Proc \cup {"none"}
    BY <1>2, QuitType, GotoType DEF CheckDelete, Steps
  <2> QED
    BY <1>2, <2>1 DEF CheckDelete, TypeOK
<1>3. CASE RequestDelete(p)
  <2>1. proc' \in [Proc -> Process] /\ lock' \in Proc \cup {"none"}
    BY <1>3, QuitType, GotoType DEF RequestDelete, Steps
  <2>2. Pending(p).action = "delete" /\ Pending(p).slot \in Created
    BY <1>0, <1>3
       DEF RequestDelete, ControlAgrees, MayBeAt, Pending, Effect, Slots
  <2>3. cloud[Pending(p).slot] \in Int
    BY <2>2 DEF TypeOK, Foreign
  <2>4. \A o \in ops' : o \in Operation
    BY <1>0, <1>3, <2>2, <2>3, SubmitType DEF RequestDelete, TypeOK
  <2> QED
    BY <1>3, <2>1, <2>4 DEF RequestDelete, TypeOK
<1>4. CASE StartDns(p)
  <2>1. proc' \in [Proc -> Process] /\ lock' \in Proc \cup {"none"}
    BY <1>4, QuitType, GotoType DEF StartDns, ChangeDns, DnsGoal, Steps
  <2>2. \A o \in ops' : o \in Operation
    BY <1>0, <1>4, SubmitType DEF StartDns, ChangeDns, DnsGoal, ReadyToStart, TypeOK
  <2>3. zone' \in [value : DnsValues, by : Nat, standard : BOOLEAN]
    <3>1. zone' = zone \/ ChangeDns(Pending(p))
      BY <1>4 DEF StartDns
    <3>2. CASE zone' = zone
      BY <3>2 DEF TypeOK
    <3>3. CASE ChangeDns(Pending(p))
      <4>1. /\ Pending(p).id \in Nat /\ NoId \in Nat
            /\ DnsGoal(Pending(p)) \in DnsValues
        BY <1>0 DEF Effect, NoId, DnsGoal, DnsValues
      <4> QED
        BY <3>3, <4>1 DEF ChangeDns
    <3> QED
      BY <3>1, <3>2, <3>3
  <2> QED
    BY <1>4, <2>1, <2>2, <2>3 DEF StartDns, ChangeDns, DnsGoal, TypeOK
<1>5. CASE RecordOperation(p)
  <2>1. [proc[p].mem EXCEPT !.pending.op = TRUE] \in State
    BY ProcessFields DEF State, Effect
  <2>2. /\ stored' \in State
        /\ proc' \in [Proc -> Process] /\ lock' \in Proc \cup {"none"}
    BY <1>5, <2>1, WriteStateType DEF RecordOperation, Steps
  <2> QED
    BY <1>5, <2>2 DEF RecordOperation, TypeOK
<1>6. CASE PollEffect(p)
  <2>1. proc' \in [Proc -> Process] /\ lock' \in Proc \cup {"none"}
    BY <1>6, QuitType, GotoType DEF PollEffect, Over, Steps
  <2> QED
    BY <1>6, <2>1 DEF PollEffect, Over, TypeOK
<1>7. CASE RecordReceipt(p)
  <2>1. ApplyReceipt(proc[p].mem) \in State
    BY ProcessFields, ReceiptType
  <2>2. \/ Quit(p) /\ UNCHANGED stored
        \/ WriteLast(p, ApplyReceipt(proc[p].mem))
        \/ WriteState(p, ApplyReceipt(proc[p].mem), "targets")
        \/ WriteState(p, ApplyReceipt(proc[p].mem), "effects")
    BY <1>7 DEF RecordReceipt
  <2>3. /\ stored' \in State
        /\ proc' \in [Proc -> Process] /\ lock' \in Proc \cup {"none"}
    BY <2>1, <2>2, QuitType, WriteLastType, WriteStateType DEF Steps, TypeOK
  <2> QED
    BY <1>7, <2>3 DEF RecordReceipt, TypeOK
<1> QED
  BY <1>1, <1>2, <1>3, <1>4, <1>5, <1>6, <1>7

LEMMA TypeFinishing ==
  ASSUME TypeOK, NEW p \in Proc,
         \/ RevalidateHost(p) \/ InstallHost(p) \/ WriteInstalled(p)
         \/ CompleteProduct(p) \/ InstallConnectStep(p) \/ WriteWiring(p)
         \/ VerifyHost(p) \/ VerifyHttp(p) \/ VerifyConnect(p)
         \/ WriteComplete(p) \/ ConnectInstall(p) \/ WriteLinked(p)
  PROVE  TypeOK'
<1> USE DEF files, outside
<1>0. /\ [proc[p].mem EXCEPT !.receipt = TRUE, !.phase = "installed"] \in State
      /\ [proc[p].mem EXCEPT !.installed = TRUE] \in State
      /\ [proc[p].mem EXCEPT !.phase = "complete"] \in State
      /\ [proc[p].mem EXCEPT !.requested = TRUE, !.installed = TRUE] \in State
  BY ProcessFields DEF State, Phases
<1>1. CASE InstallHost(p)
  <2>1. proc' \in [Proc -> Process] /\ lock' \in Proc \cup {"none"}
    BY <1>1, QuitType, GotoType DEF InstallHost, Steps
  <2>2. host' \in Nat
    BY <1>1, ProcessFields, SlotFacts DEF InstallHost, TypeOK
  <2> QED
    BY <1>1, <2>1, <2>2 DEF InstallHost, TypeOK
<1>2. CASE WriteInstalled(p)
  <2>1. /\ stored' \in State
        /\ proc' \in [Proc -> Process] /\ lock' \in Proc \cup {"none"}
    BY <1>0, <1>2, WriteStateType DEF WriteInstalled, Steps
  <2> QED
    BY <1>2, <2>1 DEF WriteInstalled, TypeOK
<1>3. CASE CompleteProduct(p)
  <2>1. proc' \in [Proc -> Process] /\ lock' \in Proc \cup {"none"}
    BY <1>3, QuitType, GotoType DEF CompleteProduct, Steps
  <2> QED
    BY <1>3, <2>1 DEF CompleteProduct, TypeOK
<1>4. CASE InstallConnectStep(p)
  <2>1. proc' \in [Proc -> Process] /\ lock' \in Proc \cup {"none"}
    BY <1>4, GotoType DEF InstallConnectStep, Steps
  <2> QED
    BY <1>4, <2>1 DEF InstallConnectStep, TypeOK
<1>5. CASE WriteWiring(p)
  <2>1. /\ stored' \in State
        /\ proc' \in [Proc -> Process] /\ lock' \in Proc \cup {"none"}
    BY <1>0, <1>5, WriteStateType DEF WriteWiring, Steps
  <2> QED
    BY <1>5, <2>1 DEF WriteWiring, TypeOK
<1>6. CASE WriteComplete(p)
  <2>1. /\ stored' \in State
        /\ proc' \in [Proc -> Process] /\ lock' \in Proc \cup {"none"}
    BY <1>0, <1>6, WriteLastType DEF WriteComplete
  <2> QED
    BY <1>6, <2>1 DEF WriteComplete, TypeOK
<1>7. CASE ConnectInstall(p)
  <2>1. [Idle EXCEPT !.pc = "linked", !.cmd = "connect", !.mem = stored]
          \in Process
    BY <1>7, EmptyTypes DEF ConnectInstall, TypeOK, Process, Steps
  <2> QED
    BY <1>7, <2>1 DEF ConnectInstall, TypeOK
<1>8. CASE WriteLinked(p)
  <2>1. /\ stored' \in State
        /\ proc' \in [Proc -> Process] /\ lock' \in Proc \cup {"none"}
    BY <1>0, <1>8, WriteLastType DEF WriteLinked
  <2> QED
    BY <1>8, <2>1 DEF WriteLinked, TypeOK
<1>9. CASE RevalidateHost(p)
  <2>1. proc' \in [Proc -> Process] /\ lock' \in Proc \cup {"none"}
    BY <1>9, QuitType, GotoType DEF RevalidateHost, Steps
  <2> QED
    BY <1>9, <2>1 DEF RevalidateHost, TypeOK
<1>10. CASE VerifyHost(p)
  <2>1. ASSUME Begin(p)
        PROVE  proc' \in [Proc -> Process] /\ lock' \in Proc \cup {"none"}
    <3> DEFINE sight == [instance |-> cloud[Instance],
                         address |-> cloud[Address], dns |-> zone.value]
    <3>1. sight \in Sight
      BY SlotFacts DEF Sight, TypeOK
    <3>2. proc' = [proc EXCEPT ![p] = [@ EXCEPT !.pc = "reach", !.began = sight]]
          /\ lock' = lock
      BY <2>1 DEF Begin
    <3>3. proc[p] \in Process /\ "reach" \in Steps
      BY ProcessFields DEF Steps
    <3> HIDE DEF sight
    <3>4. [proc[p] EXCEPT !.pc = "reach", !.began = sight] \in Process
      BY <3>1, <3>3 DEF Process
    <3> QED
      BY <3>2, <3>4 DEF TypeOK
  <2>2. proc' \in [Proc -> Process] /\ lock' \in Proc \cup {"none"}
    BY <1>10, <2>1, QuitType DEF VerifyHost
  <2> QED
    BY <1>10, <2>2 DEF VerifyHost, TypeOK
<1>11. CASE VerifyHttp(p) \/ VerifyConnect(p)
  <2>1. proc' \in [Proc -> Process] /\ lock' \in Proc \cup {"none"}
    BY <1>11, QuitType, GotoType DEF VerifyHttp, VerifyConnect, Steps
  <2> QED
    BY <1>11, <2>1 DEF VerifyHttp, VerifyConnect, TypeOK
<1> QED
  BY <1>1, <1>2, <1>3, <1>4, <1>5, <1>6, <1>7, <1>8, <1>9, <1>10, <1>11

LEMMA TypeDestroying ==
  ASSUME TypeOK, NEW p \in Proc,
         \/ \E purge \in BOOLEAN : ShowDestroyPlan(p, purge)
         \/ \E purge \in BOOLEAN : OpenDestroy(p, purge)
         \/ BeginDestroy(p) \/ NextTarget(p) \/ UninstallConnect(p)
         \/ WriteDestroyed(p)
  PROVE  TypeOK'
<1> USE DEF files, outside
<1>1. CASE \E purge \in BOOLEAN : ShowDestroyPlan(p, purge)
  <2>1. PICK purge \in BOOLEAN : ShowDestroyPlan(p, purge)
    BY <1>1
  <2>2. PlanDestroy(stored, purge) \in DestroyPlan
    BY StoredFields, DestroyPlanType DEF PlanDestroy, TypeOK
  <2> QED
    BY <2>1, <2>2 DEF ShowDestroyPlan, TypeOK
<1>2. CASE \E purge \in BOOLEAN : OpenDestroy(p, purge)
  <2>1. PICK purge \in BOOLEAN : OpenDestroy(p, purge)
    BY <1>2
  <2> DEFINE cmd == IF purge THEN "purge" ELSE "destroy"
  <2>2. cmd \in Commands /\ proc' = [proc EXCEPT ![p] =
          [Idle EXCEPT !.pc = "destroy", !.cmd = cmd, !.mem = stored]]
    BY <2>1 DEF OpenDestroy
  <2> HIDE DEF cmd
  <2>3. [Idle EXCEPT !.pc = "destroy", !.cmd = cmd, !.mem = stored] \in Process
    BY <2>2, EmptyTypes DEF TypeOK, Process, Steps
  <2>4. /\ lock' = p
        /\ UNCHANGED <<files, shown, lastId, outside, local, faults>>
    BY <2>1 DEF OpenDestroy
  <2> QED
    BY <2>2, <2>3, <2>4 DEF TypeOK
<1>3. CASE BeginDestroy(p)
  <2> DEFINE active == ActiveDestroyOf(
                         DestroyPlanOf(proc[p].mem, proc[p].cmd = "purge"))
             begun  == [proc[p].mem EXCEPT !.phase = "destroying",
                                           !.destroy = active]
  <2>1. active \in ActiveDestroy
    BY ProcessFields, DestroyPlanType, ActiveDestroyType
  <2> HIDE DEF active
  <2>2. begun \in State
    BY <2>1, ProcessFields DEF State, Phases
  <2>3. \/ WriteState(p, begun, "targets")
        \/ (Goto(p, "pending") \/ Goto(p, "targets")) /\ UNCHANGED stored
    BY <1>3 DEF BeginDestroy, active
  <2> HIDE DEF begun
  <2>4. /\ stored' \in State
        /\ proc' \in [Proc -> Process] /\ lock' \in Proc \cup {"none"}
    BY <2>2, <2>3, WriteStateType, GotoType DEF TypeOK, Steps
  <2> QED
    BY <1>3, <2>4 DEF BeginDestroy, TypeOK
<1>4. CASE NextTarget(p)
  <2>1. CASE (Goto(p, "uninstall") \/ Quit(p)) /\ UNCHANGED <<stored, lastId>>
    <3>1. proc' \in [Proc -> Process] /\ lock' \in Proc \cup {"none"}
      BY <2>1, GotoType, QuitType DEF Steps
    <3> QED
      BY <1>4, <2>1, <3>1 DEF NextTarget, TypeOK
  <2>2. ASSUME NEW t \in Slots,
               JournalEffect(p, "delete", t, proc[p].mem.res[t],
                             IF t = Dns THEN "node" ELSE "absent")
        PROVE  TypeOK'
    <3>1. /\ proc[p].mem.res[t] \in Nat
          /\ (IF t = Dns THEN "node" ELSE "absent") \in DnsValues
      BY ProcessFields DEF DnsValues
    <3>2. /\ stored' \in State /\ lastId' \in Nat
          /\ proc' \in [Proc -> Process] /\ lock' \in Proc \cup {"none"}
      BY <2>2, <3>1, JournalEffectType
    <3> QED
      BY <1>4, <3>2 DEF NextTarget, TypeOK
  <2> QED
    BY <1>4, <2>1, <2>2 DEF NextTarget
<1>5. CASE UninstallConnect(p)
  <2> DEFINE m == [proc[p].mem EXCEPT !.requested = FALSE, !.installed = FALSE]
  <2>0. m \in State
    BY ProcessFields DEF State
  <2>1. [proc[p] EXCEPT !.pc = "destroyed", !.mem = m] \in Process
    BY <2>0, ProcessFields DEF Process, Steps
  <2>2. \/ Goto(p, "destroyed")
        \/ /\ proc' = [proc EXCEPT ![p].pc = "destroyed", ![p].mem = m]
           /\ UNCHANGED lock
    BY <1>5 DEF UninstallConnect
  <2> HIDE DEF m
  <2>3. ASSUME Goto(p, "destroyed")
        PROVE  proc' \in [Proc -> Process] /\ lock' \in Proc \cup {"none"}
    BY <2>3, GotoType DEF Steps
  <2>4. ASSUME /\ proc' = [proc EXCEPT ![p].pc = "destroyed", ![p].mem = m]
               /\ UNCHANGED lock
        PROVE  proc' \in [Proc -> Process] /\ lock' \in Proc \cup {"none"}
    BY <2>1, <2>4 DEF TypeOK
  <2>5. proc' \in [Proc -> Process] /\ lock' \in Proc \cup {"none"}
    BY <2>2, <2>3, <2>4
  <2> QED
    BY <1>5, <2>5 DEF UninstallConnect, TypeOK
<1>6. CASE WriteDestroyed(p)
  <2>1. [proc[p].mem EXCEPT !.phase = "destroyed", !.destroy = NoDestroy,
                            !.receipt = FALSE] \in State
    BY ProcessFields, EmptyTypes DEF State, Phases
  <2>2. /\ stored' \in State
        /\ proc' \in [Proc -> Process] /\ lock' \in Proc \cup {"none"}
    BY <1>6, <2>1, WriteLastType DEF WriteDestroyed
  <2> QED
    BY <1>6, <2>2 DEF WriteDestroyed, TypeOK
<1> QED
  BY <1>1, <1>2, <1>3, <1>4, <1>5, <1>6

LEMMA TypeEnvironment ==
  ASSUME TypeOK, Environment
  PROVE  TypeOK'
<1> USE DEF files, outside
<1>1. ASSUME NEW o \in ops, OperationDone(o)
      PROVE  TypeOK'
  <2>1. o \in Operation
    BY DEF TypeOK
  <2>2. \A q \in ops' : q \in Operation
    BY <1>1, <2>1 DEF OperationDone, TypeOK, Operation
  <2>3. cloud' \in [Created -> Nat \cup {Foreign}]
    <3>1. o.slot # Dns => o.slot \in Created
      BY <2>1 DEF Operation, Slots
    <3>2. o.id \in Nat /\ NoId \in Nat
      BY <2>1 DEF Operation, NoId
    <3> QED
      BY <1>1, <3>1, <3>2 DEF OperationDone, TypeOK
  <2> QED
    BY <1>1, <2>2, <2>3 DEF OperationDone, TypeOK
<1>2. ASSUME NEW o \in ops, OperationFails(o)
      PROVE  TypeOK'
  <2>1. \A q \in ops' : q \in Operation
    BY <1>2 DEF OperationFails, TypeOK, Operation
  <2>2. faults' \in [Faults -> Nat]
    BY <1>2 DEF OperationFails, Spend, Faults, TypeOK
  <2> QED
    BY <1>2, <2>1, <2>2 DEF OperationFails, TypeOK
<1>3. ASSUME NEW s \in Created, Tamper(s)
      PROVE  TypeOK'
  <2>1. cloud' \in [Created -> Nat \cup {Foreign}]
    BY <1>3 DEF Tamper, TypeOK, NoId
  <2>2. faults' \in [Faults -> Nat]
    BY <1>3 DEF Tamper, Spend, Faults, TypeOK
  <2> QED
    BY <1>3, <2>1, <2>2 DEF Tamper, TypeOK
<1>4. CASE TamperDns
  <2>1. faults' \in [Faults -> Nat]
    BY <1>4 DEF TamperDns, Spend, Faults, TypeOK
  <2>2. zone' \in [value : DnsValues, by : Nat, standard : BOOLEAN]
    BY <1>4 DEF TamperDns, RecordsOfOthers, DnsValues, NoId
  <2> QED
    BY <1>4, <2>1, <2>2 DEF TamperDns, TypeOK
<1>5. CASE OperatorSetsDns
  BY <1>5 DEF OperatorSetsDns, RecordsOfOthers, TypeOK, DnsValues, NoId
<1> QED
  BY <1>1, <1>2, <1>3, <1>4, <1>5 DEF Environment

LEMMA TypeAbort ==
  ASSUME TypeOK, NEW p \in Proc, Abort(p)
  PROVE  TypeOK'
<1>1. faults' \in [Faults -> Nat]
  BY DEF Abort, Spend, Faults, TypeOK
<1> QED
  BY <1>1, QuitType DEF Abort, TypeOK, files, outside

LEMMA TypeNext ==
  ASSUME TypeOK, ControlAgrees, [Next]_vars
  PROVE  TypeOK'
<1>1. ASSUME NEW p \in Proc, Start(p)
      PROVE  TypeOK'
  BY <1>1, TypePlanning, TypeResuming, TypeFinishing, TypeDestroying DEF Start
<1>2. ASSUME NEW p \in Proc, Step(p)
      PROVE  TypeOK'
  BY <1>2, TypePlanning, TypeResuming, TypeEffects, TypeFinishing,
     TypeDestroying DEF Step
<1>3. CASE UNCHANGED vars
  BY <1>3 DEF TypeOK, vars
<1> QED
  BY <1>1, <1>2, <1>3, TypeAbort, TypeEnvironment DEF Next

-----------------------------------------------------------------------------
(***************************************************************************)
(* Discipline: what a process holds in memory, what is on disk and which   *)
(* step it is at.  The lemmas prove it for the ways a step can end; they   *)
(* leave the type invariant to TypeNext.                                   *)
(***************************************************************************)
Kept == ControlAgrees /\ LockedMemoryIsCurrent /\ StoredIsValid /\ JournalIsSound

LEMMA KeptQuit ==
  ASSUME Discipline, NEW p \in Proc, Quit(p), UNCHANGED stored
  PROVE  Kept'
<1>0. "none" \notin Proc
  BY ConstantsAssumption
<1>1. /\ proc' = [proc EXCEPT ![p] = Idle]
      /\ lock' = IF lock = p THEN "none" ELSE lock
  BY DEF Quit
<1>2. proc \in [Proc -> Process]
  BY DEF Discipline, TypeOK
<1>3. Idle.pc = "idle" /\ Idle.mem = NoState
  BY DEF Idle
<1>4. ControlAgrees'
  BY <1>1, <1>2, <1>3
     DEF Discipline, ControlAgrees, MayBeAt, Unlocked, Journaling, Executing
<1>5. LockedMemoryIsCurrent'
  BY <1>0, <1>1, <1>2, <1>3
     DEF Discipline, LockedMemoryIsCurrent, SameRecord, Unlocked
<1> QED
  BY <1>4, <1>5 DEF Discipline, Kept, StoredIsValid, JournalIsSound

LEMMA KeptMove ==
  ASSUME Discipline, NEW p \in Proc, NEW step \in Steps \ Unlocked,
         proc'[p].pc = step, proc'[p].mem = proc[p].mem,
         \A q \in Proc : q # p => proc'[q] = proc[q],
         UNCHANGED <<lock, stored>>,
         proc[p].pc \notin Unlocked,
         proc[p].pc \in Opening => step \in Opening,
         MayBeAt(step, proc[p].mem)
  PROVE  Kept'
<1>1. ControlAgrees'
  BY DEF Discipline, ControlAgrees, MayBeAt, HasPending
<1>2. LockedMemoryIsCurrent'
  BY DEF Discipline, LockedMemoryIsCurrent, SameRecord
<1> QED
  BY <1>1, <1>2 DEF Discipline, Kept, StoredIsValid, JournalIsSound

LEMMA KeptGoto ==
  ASSUME Discipline, NEW p \in Proc, NEW step \in Steps \ Unlocked,
         Goto(p, step), UNCHANGED stored,
         proc[p].pc \notin Unlocked,
         proc[p].pc \in Opening => step \in Opening,
         MayBeAt(step, proc[p].mem)
  PROVE  Kept'
<1>1. proc' = [proc EXCEPT ![p].pc = step] /\ lock' = lock
  BY DEF Goto
<1>2. proc \in [Proc -> Process] /\ proc[p] \in Process
  BY ProcessFields DEF Discipline, TypeOK
<1>3. /\ proc'[p].pc = step /\ proc'[p].mem = proc[p].mem
      /\ \A q \in Proc : q # p => proc'[q] = proc[q]
  BY <1>1, <1>2 DEF Process
<1> QED
  BY <1>1, <1>3, KeptMove

LEMMA KeptWriteState ==
  ASSUME Discipline, NEW p \in Proc, NEW s \in State,
         NEW step \in Steps \ (Unlocked \cup Opening),
         WriteState(p, s, step),
         proc[p].pc \notin Unlocked,
         s.phase # "none",
         Validate(s) => MayBeAt(step, s) /\ SoundJournal(s)
  PROVE  Kept'
<1>1. CASE ~Validate(s)
  BY <1>1, KeptQuit DEF WriteState
<1>2. CASE Validate(s)
  <2>1. /\ stored' = s
        /\ proc' = [proc EXCEPT ![p].pc = step, ![p].mem = s]
        /\ lock' = lock
    BY <1>2 DEF WriteState
  <2>2. proc \in [Proc -> Process] /\ proc[p] \in Process
    BY ProcessFields DEF Discipline, TypeOK
  <2>3. /\ proc'[p].pc = step /\ proc'[p].mem = s
        /\ \A q \in Proc : q # p => proc'[q] = proc[q]
    BY <2>1, <2>2 DEF Process
  <2>4. ControlAgrees'
    BY <1>2, <2>3 DEF Discipline, ControlAgrees, MayBeAt, HasPending
  <2>5. lock = p
    BY DEF Discipline, LockedMemoryIsCurrent
  <2>6. \A q \in Proc : lock' = q <=> proc'[q].pc \notin Unlocked
    BY <2>1, <2>3, <2>5 DEF Discipline, LockedMemoryIsCurrent
  <2>7. \A q \in Proc : lock' = q => SameRecord(proc'[q].mem, stored')
    BY <2>1, <2>3, <2>5 DEF SameRecord
  <2>8. LockedMemoryIsCurrent'
    BY <2>6, <2>7 DEF LockedMemoryIsCurrent, SameRecord
  <2> QED
    BY <1>2, <2>1, <2>4, <2>8 DEF Kept, StoredIsValid, JournalIsSound
<1> QED
  BY <1>1, <1>2

LEMMA KeptWriteLast ==
  ASSUME Discipline, NEW p \in Proc, NEW s \in State, WriteLast(p, s),
         proc[p].pc \notin Unlocked,
         s.phase # "none",
         Validate(s) => SoundJournal(s)
  PROVE  Kept'
<1>1. CASE ~Validate(s)
  BY <1>1, KeptQuit DEF WriteLast
<1>2. CASE Validate(s)
  <2>0. "none" \notin Proc
    BY ConstantsAssumption
  <2>1. /\ stored' = s
        /\ proc' = [proc EXCEPT ![p] = Idle]
        /\ lock = p /\ lock' = "none"
    BY <1>2 DEF WriteLast, Quit, Discipline, LockedMemoryIsCurrent
  <2>2. proc \in [Proc -> Process]
    BY DEF Discipline, TypeOK
  <2>3. /\ proc'[p].pc = "idle" /\ proc'[p].mem = NoState
        /\ \A q \in Proc : q # p => proc'[q] = proc[q]
    BY <2>1, <2>2 DEF Idle
  <2>4. ControlAgrees'
    BY <2>3 DEF Discipline, ControlAgrees, MayBeAt, HasPending, Unlocked,
                Journaling, Executing
  <2>5. LockedMemoryIsCurrent'
    BY <2>0, <2>1, <2>3 DEF Discipline, LockedMemoryIsCurrent, Unlocked
  <2> QED
    BY <1>2, <2>1, <2>4, <2>5 DEF Kept, StoredIsValid, JournalIsSound
<1> QED
  BY <1>1, <1>2

(* A command that opens the node directory starts from what is on disk. *)
LEMMA KeptOpen ==
  ASSUME Discipline, NEW p \in Proc, NEW q \in Process,
         lock = "none", lock' = p, UNCHANGED stored,
         proc' = [proc EXCEPT ![p] = q],
         q.mem = stored,
         q.pc \in {"plan_file", "resume", "linked", "destroy"},
         stored.phase = "none" => q.pc = "plan_file"
  PROVE  Kept'
<1>0. "none" \notin Proc
  BY ConstantsAssumption
<1>1. proc \in [Proc -> Process]
  BY DEF Discipline, TypeOK
<1>2. /\ proc'[p] = q
      /\ \A r \in Proc : r # p => proc'[r] = proc[r]
  BY <1>1
<1>3. ControlAgrees'
  BY <1>2 DEF Discipline, ControlAgrees, MayBeAt, HasPending, Unlocked, Opening,
              Journaling, Executing
<1>4. LockedMemoryIsCurrent'
  BY <1>0, <1>2 DEF Discipline, LockedMemoryIsCurrent, SameRecord, Unlocked
<1> QED
  BY <1>3, <1>4 DEF Discipline, Kept, StoredIsValid, JournalIsSound

(* A process without the lock holds no state. *)
LEMMA KeptUnlocked ==
  ASSUME Discipline, NEW p \in Proc, NEW q \in Process,
         proc[p].pc \in Unlocked, UNCHANGED <<stored, lock>>,
         proc' = [proc EXCEPT ![p] = q],
         q.mem = NoState, q.pc \in Unlocked
  PROVE  Kept'
<1>1. proc \in [Proc -> Process]
  BY DEF Discipline, TypeOK
<1>2. /\ proc'[p] = q
      /\ \A r \in Proc : r # p => proc'[r] = proc[r]
  BY <1>1
<1>3. ControlAgrees'
  BY <1>2 DEF Discipline, ControlAgrees, MayBeAt, HasPending, Unlocked, Opening,
              Journaling, Executing
<1>4. LockedMemoryIsCurrent'
  BY <1>2 DEF Discipline, LockedMemoryIsCurrent, SameRecord, Unlocked
<1> QED
  BY <1>3, <1>4 DEF Discipline, Kept, StoredIsValid, JournalIsSound

LEMMA KeptUntouched ==
  ASSUME Discipline, UNCHANGED <<stored, lock, proc>>
  PROVE  Kept'
BY DEF Discipline, Kept, ControlAgrees, LockedMemoryIsCurrent, StoredIsValid,
       JournalIsSound

LEMMA MemoryIsSound ==
  ASSUME Discipline, NEW p \in Proc, proc[p].pc \notin Unlocked
  PROVE  /\ lock = p /\ SameRecord(proc[p].mem, stored)
         /\ SoundJournal(proc[p].mem)
         /\ proc[p].pc \notin Opening => proc[p].mem.phase # "none"
BY DEF Discipline, LockedMemoryIsCurrent, SameRecord, JournalIsSound,
       SoundJournal, HasPending, ControlAgrees

LEMMA KeptJournalEffect ==
  ASSUME Discipline, NEW p \in Proc,
         NEW action \in {"create", "update", "delete"}, NEW t \in Slots,
         NEW target \in Nat, NEW cur \in DnsValues,
         JournalEffect(p, action, t, target, cur),
         proc[p].pc \in Journaling,
         action \in {"create", "update"} => proc[p].mem.res[t] = NoId,
         action = "delete" => proc[p].mem.destroy.on
  PROVE  Kept'
<1> DEFINE m == proc[p].mem
           e == [action |-> action, slot |-> t, id |-> lastId + 1,
                 target |-> target, cur |-> cur, op |-> FALSE]
           s == [m EXCEPT !.pending = e]
<1>1. e \in Effect /\ e.action = action /\ e.slot = t
  BY DEF Effect, Discipline, TypeOK
<1>2. m \in State
  BY ProcessFields DEF Discipline
<1>3. s \in State
  BY <1>1, <1>2, JournalType
<1>4. /\ proc[p].pc \notin Unlocked \cup Opening
      /\ SoundJournal(m) /\ m.phase # "none"
  BY MemoryIsSound DEF Journaling, Unlocked, Opening
<1>5. WriteState(p, s, "pending")
  BY DEF JournalEffect
<1> HIDE DEF e
<1>6. /\ s.phase = m.phase /\ s.pending = e /\ s.res = m.res
      /\ s.destroy = m.destroy
  BY <1>2 DEF State
<1> HIDE DEF s
<1>7. MayBeAt("pending", s)
  BY <1>1, <1>6 DEF MayBeAt, HasPending, Journaling, Executing
<1>8. SoundJournal(s)
  BY <1>1, <1>4, <1>6 DEF SoundJournal, HasPending
<1> QED
  BY <1>3, <1>4, <1>5, <1>6, <1>7, <1>8, KeptWriteState
     DEF Steps, Unlocked, Opening

LEMMA KeptPlanning ==
  ASSUME Discipline, NEW p \in Proc,
         \/ DeployPlan(p) \/ ApplyObserve(p) \/ ApplyFound(p)
         \/ ApplyNotFound(p) \/ ApplyRefused(p) \/ ApplyOpenFresh(p)
         \/ WritePlanFile(p) \/ WriteApplying(p),
         TypeOK'
  PROVE  Kept'
<1> USE DEF files, outside
<1>0. /\ proc \in [Proc -> Process] /\ proc' \in [Proc -> Process]
      /\ proc[p] \in Process /\ proc'[p] \in Process
      /\ proc[p].pc \in Unlocked => proc[p].mem = NoState
  BY DEF Discipline, TypeOK, ControlAgrees
<1>1. CASE DeployPlan(p)
  BY <1>1, KeptUntouched DEF DeployPlan
<1>2. CASE ApplyObserve(p)
  <2>1. PICK obs \in Observations :
          proc' = [proc EXCEPT ![p] = [Idle EXCEPT !.pc = "observed",
                     !.cmd = "apply", !.plan = obs, !.approved = shown.deploy]]
    BY <1>2 DEF ApplyObserve
  <2>2. proc'[p].pc = "observed" /\ proc'[p].mem = NoState
    BY <1>0, <2>1 DEF Idle
  <2> QED
    BY <1>0, <1>2, <2>1, <2>2, KeptUnlocked DEF ApplyObserve, Unlocked
<1>3. CASE ApplyFound(p)
  <2>1. /\ proc' = [proc EXCEPT ![p] = proc'[p]]
        /\ proc'[p].pc = "plan_file" /\ proc'[p].mem = stored
    BY <1>0, <1>3 DEF ApplyFound, Process
  <2>2. lock = "none" /\ lock' = p /\ stored.phase # "none" /\ UNCHANGED stored
    BY <1>3 DEF ApplyFound, OpenStore
  <2> QED
    BY <1>0, <2>1, <2>2, KeptOpen
<1>4. CASE ApplyNotFound(p)
  <2>1. /\ proc' = [proc EXCEPT ![p] = proc'[p]]
        /\ proc'[p].pc = "fresh" /\ proc'[p].mem = proc[p].mem
    BY <1>0, <1>4 DEF ApplyNotFound, Process
  <2>2. PICK q \in Process : /\ proc' = [proc EXCEPT ![p] = q]
                            /\ q.pc = "fresh" /\ q.mem = proc[p].mem
    BY <1>0, <2>1
  <2>3. proc[p].pc = "observed" /\ UNCHANGED <<stored, lock>>
    BY <1>4 DEF ApplyNotFound
  <2> QED
    BY <1>0, <2>2, <2>3, KeptUnlocked DEF Unlocked
<1>5. CASE ApplyRefused(p)
  BY <1>5, KeptQuit DEF ApplyRefused
<1>6. CASE ApplyOpenFresh(p)
  <2>1. CASE Quit(p)
    BY <1>6, <2>1, KeptQuit DEF ApplyOpenFresh
  <2>2. CASE ~Quit(p)
    <3>1. /\ lock = "none" /\ lock' = p /\ stored.phase = "none"
          /\ proc' = [proc EXCEPT ![p].pc = "plan_file"]
          /\ proc[p].pc = "fresh" /\ UNCHANGED stored
      BY <1>6, <2>2 DEF ApplyOpenFresh
    <3>2. stored = NoState
      BY <3>1 DEF Discipline, StoredIsValid
    <3>3. /\ proc' = [proc EXCEPT ![p] = proc'[p]]
          /\ proc'[p].pc = "plan_file" /\ proc'[p].mem = proc[p].mem
      BY <1>0, <3>1 DEF Process
    <3>4. PICK q \in Process : /\ proc' = [proc EXCEPT ![p] = q]
                              /\ q.pc = "plan_file" /\ q.mem = stored
      BY <1>0, <3>1, <3>2, <3>3 DEF Unlocked
    <3> QED
      BY <3>1, <3>4, KeptOpen
  <2> QED
    BY <2>1, <2>2
<1>7. CASE WritePlanFile(p)
  BY <1>7, KeptGoto DEF WritePlanFile, Steps, Unlocked, Opening, MayBeAt,
                        Journaling, Executing
<1>8. CASE WriteApplying(p)
  <2> DEFINE m == proc[p].mem
             next == IF m.phase = "none" THEN FreshState(proc[p].plan)
                     ELSE [m EXCEPT !.phase = "applying", !.plan = proc[p].plan]
  <2>1. m \in State /\ NoState \in State /\ SoundJournal(m)
    BY <1>8, ProcessFields, EmptyTypes, MemoryIsSound
       DEF WriteApplying, Unlocked, Discipline
  <2>2. next \in State
    BY <2>1, ProcessFields, ConstantsAssumption
       DEF FreshState, State, Phases, Discipline
  <2>3. CASE m.phase = "none"
    <3>1. /\ next.phase = "applying" /\ next.pending = NoEffect
          /\ next.destroy = NoDestroy /\ next.res = NoTargets
      BY <2>3 DEF FreshState, NoState
    <3>2. Disk \in Slots
      BY SlotFacts
    <3>3. WriteState(p, next, "resume") /\ proc[p].pc = "state_file"
      BY <1>8 DEF WriteApplying
    <3> HIDE DEF next
    <3>4. SoundJournal(next)
      BY <3>1, <3>2 DEF SoundJournal, HasPending, NoEffect, NoDestroy,
                        NoDestroyPlan, NoTargets
    <3>5. MayBeAt("resume", next)
      BY DEF MayBeAt, Journaling, Executing
    <3>6. "resume" \in Steps \ (Unlocked \cup Opening) /\ "state_file" \notin Unlocked
      BY DEF Steps, Unlocked, Opening
    <3> QED
      BY <2>2, <3>1, <3>3, <3>4, <3>5, <3>6, KeptWriteState
  <2>4. CASE m.phase # "none"
    <3>1. /\ next.phase = "applying" /\ next.pending = m.pending
          /\ next.destroy = m.destroy /\ next.res = m.res
      BY <2>1, <2>4 DEF State
    <3>2. WriteState(p, next, "resume") /\ proc[p].pc = "state_file"
      BY <1>8 DEF WriteApplying
    <3> HIDE DEF next
    <3>3. SoundJournal(next) /\ MayBeAt("resume", next)
      BY <2>1, <3>1 DEF SoundJournal, HasPending, MayBeAt, Journaling, Executing
    <3>4. "resume" \in Steps \ (Unlocked \cup Opening) /\ "state_file" \notin Unlocked
      BY DEF Steps, Unlocked, Opening
    <3> QED
      BY <2>2, <3>1, <3>2, <3>3, <3>4, KeptWriteState
  <2> QED
    BY <2>3, <2>4
<1> QED
  BY <1>1, <1>2, <1>3, <1>4, <1>5, <1>6, <1>7, <1>8

LEMMA KeptResuming ==
  ASSUME Discipline, NEW p \in Proc,
         \/ \E cmd \in {"resume", "pending_only"} : Resume(p, cmd)
         \/ ResumePlan(p) \/ NextEffect(p) \/ ResolveDns(p),
         TypeOK'
  PROVE  Kept'
<1> USE DEF files, outside
<1>0. /\ proc \in [Proc -> Process]
      /\ proc[p] \in Process /\ proc'[p] \in Process
      /\ proc[p].mem \in State /\ proc[p].plan.cur \in DnsValues
  BY ProcessFields DEF Discipline, TypeOK, Plan
<1>1. CASE \E cmd \in {"resume", "pending_only"} : Resume(p, cmd)
  <2>1. PICK cmd \in {"resume", "pending_only"} : Resume(p, cmd)
    BY <1>1
  <2>2. /\ proc' = [proc EXCEPT ![p] = proc'[p]]
        /\ proc'[p].pc = "resume" /\ proc'[p].mem = stored
    BY <1>0, <2>1 DEF Resume, Idle
  <2> QED
    BY <1>0, <2>1, <2>2, KeptOpen DEF Resume, OpenStore
<1>2. CASE ResumePlan(p)
  <2>1. CASE Quit(p)
    BY <1>2, <2>1, KeptQuit DEF ResumePlan
  <2>2. CASE ~Quit(p)
    BY <1>2, <2>2, KeptGoto
       DEF ResumePlan, MayBeAt, Steps, Unlocked, Opening, Journaling, Executing
  <2> QED
    BY <2>1, <2>2
<1>3. CASE NextEffect(p)
  <2>0. proc[p].pc = "effects" /\ ~HasPending(proc[p].mem)
    BY <1>3 DEF NextEffect, Discipline, ControlAgrees, MayBeAt, Journaling
  <2>1. CASE Goto(p, "dns") /\ UNCHANGED <<stored, lastId>>
    BY <2>0, <2>1, KeptGoto
       DEF MayBeAt, Steps, Unlocked, Opening, Journaling, Executing
  <2>2. ASSUME NEW t \in Slots, NextPlanned(proc[p].plan, proc[p].mem, t),
               LET cur == IF t = Dns THEN proc[p].plan.cur ELSE "absent" IN
               JournalEffect(p, IF t = Dns THEN DnsAction(cur) ELSE "create",
                             t, NoId, cur)
        PROVE  Kept'
    <3>1. proc[p].mem.res[t] = NoId /\ proc[p].pc \in Journaling /\ NoId \in Nat
      BY <2>0, <2>2 DEF NextPlanned, Journaling, NoId
    <3>2. CASE t = Dns
      <4>1. DnsAction(proc[p].plan.cur) \in {"create", "update"}
        BY DEF DnsAction
      <4> QED
        BY <1>0, <2>2, <3>1, <3>2, <4>1, KeptJournalEffect
    <3>3. CASE t # Dns
      BY <2>2, <3>1, <3>3, KeptJournalEffect DEF DnsValues
    <3> QED
      BY <3>2, <3>3
  <2> QED
    BY <1>3, <2>1, <2>2 DEF NextEffect
<1>4. CASE ResolveDns(p)
  <2>0. /\ proc[p].pc = "dns" /\ ~HasPending(proc[p].mem)
        /\ SoundJournal(proc[p].mem)
    BY <1>4, MemoryIsSound
       DEF ResolveDns, Discipline, ControlAgrees, MayBeAt, Journaling, Unlocked
  <2>1. CASE WriteLast(p, [proc[p].mem EXCEPT !.phase = "waiting_user"])
    <3> DEFINE s == [proc[p].mem EXCEPT !.phase = "waiting_user"]
    <3>1. /\ s \in State /\ s.phase = "waiting_user"
          /\ s.pending = proc[p].mem.pending /\ s.res = proc[p].mem.res
          /\ s.destroy = proc[p].mem.destroy
      BY <1>0 DEF State, Phases
    <3> HIDE DEF s
    <3>2. SoundJournal(s)
      BY <2>0, <3>1 DEF SoundJournal, HasPending
    <3> QED
      BY <2>0, <2>1, <3>1, <3>2, KeptWriteLast DEF Unlocked, s
  <2>2. CASE /\ AutomaticDns(proc[p].plan, proc[p].mem)
             /\ JournalEffect(p, DnsAction(proc[p].plan.cur), Dns, NoId,
                              proc[p].plan.cur)
    <3>1. DnsAction(proc[p].plan.cur) \in {"create", "update"} /\ NoId \in Nat
      BY DEF DnsAction, NoId
    <3>2. proc[p].mem.res[Dns] = NoId /\ proc[p].pc \in Journaling
      BY <2>0, <2>2 DEF AutomaticDns, Journaling
    <3> QED
      BY <1>0, <2>2, <3>1, <3>2, SlotFacts, KeptJournalEffect
  <2>3. CASE Goto(p, "host") /\ UNCHANGED <<stored, lastId>>
    BY <2>0, <2>3, KeptGoto
       DEF MayBeAt, Steps, Unlocked, Opening, Journaling, Executing
  <2> QED
    BY <1>4, <2>1, <2>2, <2>3 DEF ResolveDns
<1> QED
  BY <1>1, <1>2, <1>3, <1>4

LEMMA KeptEffects ==
  ASSUME Discipline, NEW p \in Proc,
         \/ StartCreate(p) \/ CheckDelete(p) \/ RequestDelete(p)
         \/ StartDns(p) \/ RecordOperation(p) \/ PollEffect(p)
         \/ RecordReceipt(p)
  PROVE  Kept'
<1> USE DEF files, outside
<1> DEFINE m == proc[p].mem
<1>0. proc[p].pc \in Executing
  BY DEF StartCreate, CheckDelete, RequestDelete, StartDns, ChangeDns, DnsGoal, ReadyToStart,
         RecordOperation, PollEffect, Over, RecordReceipt, Executing
<1>1. /\ HasPending(m) /\ SoundJournal(m) /\ m.phase # "none"
      /\ proc[p].pc \notin Unlocked \cup Opening
  BY <1>0, MemoryIsSound
     DEF Discipline, ControlAgrees, MayBeAt, Executing, Unlocked, Opening
<1>2. /\ m \in State /\ m.pending \in Effect /\ m.destroy \in ActiveDestroy
      /\ m.res \in [Slots -> Nat]
  BY ProcessFields DEF Discipline
<1> DEFINE Moves == \E step \in Executing :
                      Goto(p, step) /\ MayBeAt(step, m) /\ UNCHANGED stored
<1>3. \/ Moves
      \/ Quit(p) /\ UNCHANGED stored
      \/ RecordOperation(p) \/ RecordReceipt(p)
  <2>1. \A step \in Executing \ {"deleting"} : MayBeAt(step, m)
    BY <1>1 DEF MayBeAt, Executing, Journaling
  <2>2. CASE StartCreate(p)
    BY <2>1, <2>2 DEF StartCreate, Executing
  <2>3. CASE CheckDelete(p)
    <3>1. MayBeAt("deleting", m)
      BY <1>1, <2>3 DEF CheckDelete, ReadyToStart, Pending, MayBeAt, Journaling
    <3> QED
      BY <2>1, <2>3, <3>1 DEF CheckDelete, Executing
  <2>4. CASE RequestDelete(p)
    BY <2>1, <2>4 DEF RequestDelete, Executing
  <2>5. CASE StartDns(p)
    BY <2>1, <2>5 DEF StartDns, ChangeDns, DnsGoal, Executing
  <2>6. CASE PollEffect(p)
    BY <2>1, <2>6 DEF PollEffect, Over, Executing
  <2> QED
    BY <2>2, <2>3, <2>4, <2>5, <2>6
<1>4. CASE Moves
  BY <1>1, <1>4, KeptGoto DEF Executing, Steps, Unlocked, Opening
<1>5. CASE Quit(p) /\ UNCHANGED stored
  BY <1>5, KeptQuit
<1>6. CASE RecordOperation(p)
  <2> DEFINE s == [m EXCEPT !.pending.op = TRUE]
  <2>1. s \in State
    BY <1>2 DEF State, Effect
  <2>2. /\ s.phase = m.phase /\ s.res = m.res /\ s.destroy = m.destroy
        /\ s.pending.action = m.pending.action
        /\ s.pending.slot = m.pending.slot
    BY <1>2 DEF State, Effect
  <2>3. WriteState(p, s, "poll")
    BY <1>6 DEF RecordOperation
  <2> HIDE DEF s
  <2>4. SoundJournal(s) /\ MayBeAt("poll", s)
    BY <1>1, <2>2 DEF SoundJournal, HasPending, MayBeAt, Journaling, Executing
  <2> QED
    BY <1>1, <2>1, <2>2, <2>3, <2>4, KeptWriteState DEF Steps, Unlocked, Opening
<1>7. CASE RecordReceipt(p)
  <2> DEFINE s == ApplyReceipt(m)
  <2>1. s \in State
    BY <1>2, ReceiptType
  <2>2. /\ s.phase = m.phase /\ s.pending = NoEffect
        /\ s.destroy.on = m.destroy.on /\ s.destroy.plan = m.destroy.plan
        /\ s.destroy.left \subseteq m.destroy.left
    BY <1>2 DEF ApplyReceipt, State, ActiveDestroy
  <2>3. \/ Quit(p) /\ UNCHANGED stored
        \/ WriteLast(p, s)
        \/ WriteState(p, s, "targets")
        \/ WriteState(p, s, "effects")
    BY <1>7 DEF RecordReceipt
  <2> HIDE DEF s
  <2>4. SoundJournal(s) /\ MayBeAt("targets", s) /\ MayBeAt("effects", s)
    BY <1>1, <2>2 DEF SoundJournal, HasPending, NoEffect, MayBeAt, Executing
  <2> QED
    BY <1>1, <2>1, <2>2, <2>3, <2>4, KeptQuit, KeptWriteState, KeptWriteLast
       DEF Steps, Unlocked, Opening
<1> QED
  BY <1>3, <1>4, <1>5, <1>6, <1>7

(* A write that leaves resources, journal and destroy plan as they were. *)
LEMMA SameJournal ==
  ASSUME NEW s, NEW m, SoundJournal(m),
         s.pending = m.pending, s.res = m.res, s.destroy = m.destroy
  PROVE  SoundJournal(s)
BY DEF SoundJournal, HasPending

LEMMA KeptFinishing ==
  ASSUME Discipline, NEW p \in Proc,
         \/ RevalidateHost(p) \/ InstallHost(p) \/ WriteInstalled(p)
         \/ CompleteProduct(p) \/ InstallConnectStep(p) \/ WriteWiring(p)
         \/ VerifyHost(p) \/ VerifyHttp(p) \/ VerifyConnect(p)
         \/ WriteComplete(p) \/ ConnectInstall(p) \/ WriteLinked(p),
         TypeOK'
  PROVE  Kept'
<1> USE DEF files, outside
<1> DEFINE m == proc[p].mem
           Quiet == {"host", "installing", "hosted", "product", "connect",
                     "wired", "verify", "reach", "doctor", "verified"}
<1>0. m \in State /\ proc \in [Proc -> Process] /\ proc'[p] \in Process
  BY ProcessFields DEF Discipline, TypeOK
<1>1. \A step \in Quiet, s \in State : MayBeAt(step, s)
  BY DEF MayBeAt, Journaling, Executing
<1>2. CASE ConnectInstall(p)
  <2>1. PICK q \in Process : /\ proc' = [proc EXCEPT ![p] = q]
                            /\ q.pc = "linked" /\ q.mem = stored
    <3>1. /\ proc' = [proc EXCEPT ![p] = proc'[p]]
          /\ proc'[p].pc = "linked" /\ proc'[p].mem = stored
      BY <1>0, <1>2 DEF ConnectInstall, Idle
    <3> QED
      BY <1>0, <3>1
  <2>2. lock = "none" /\ lock' = p /\ stored.phase # "none" /\ UNCHANGED stored
    BY <1>2 DEF ConnectInstall, OpenStore
  <2> QED
    BY <2>1, <2>2, KeptOpen
<1>3. CASE ~ConnectInstall(p)
  <2>1. proc[p].pc \in Quiet \cup {"linked"}
    BY <1>3 DEF RevalidateHost, InstallHost, WriteInstalled, CompleteProduct,
                InstallConnectStep, WriteWiring, VerifyHost, VerifyHttp,
                VerifyConnect, WriteComplete, WriteLinked
  <2>2. /\ SoundJournal(m) /\ m.phase # "none"
        /\ proc[p].pc \notin Unlocked \cup Opening
    BY <2>1, MemoryIsSound DEF Unlocked, Opening
  <2> DEFINE installed == [m EXCEPT !.receipt = TRUE, !.phase = "installed"]
             wired     == [m EXCEPT !.installed = TRUE]
             complete  == [m EXCEPT !.phase = "complete"]
             linked    == [m EXCEPT !.requested = TRUE, !.installed = TRUE]
             Next4     == {installed, wired, complete, linked}
  <2>3. \A s \in Next4 : /\ s \in State /\ s.phase # "none"
                         /\ s.pending = m.pending /\ s.res = m.res
                         /\ s.destroy = m.destroy
    <3>1. /\ installed \in State /\ installed.phase # "none"
          /\ installed.pending = m.pending /\ installed.res = m.res
          /\ installed.destroy = m.destroy
      BY <1>0 DEF State, Phases
    <3>2. /\ wired \in State /\ wired.phase # "none"
          /\ wired.pending = m.pending /\ wired.res = m.res
          /\ wired.destroy = m.destroy
      BY <1>0, <2>2 DEF State, Phases
    <3>3. /\ complete \in State /\ complete.phase # "none"
          /\ complete.pending = m.pending /\ complete.res = m.res
          /\ complete.destroy = m.destroy
      BY <1>0 DEF State, Phases
    <3>4. /\ linked \in State /\ linked.phase # "none"
          /\ linked.pending = m.pending /\ linked.res = m.res
          /\ linked.destroy = m.destroy
      BY <1>0, <2>2 DEF State, Phases
    <3> HIDE DEF installed, wired, complete, linked
    <3> QED
      BY <3>1, <3>2, <3>3, <3>4
  <2>4. \/ Quit(p) /\ UNCHANGED stored
        \/ \E step \in Quiet : Goto(p, step) /\ UNCHANGED stored
        \/ \E step \in Quiet, s \in Next4 : WriteState(p, s, step)
        \/ \E s \in Next4 : WriteLast(p, s)
        \/ Begin(p) /\ UNCHANGED stored
    <3>1. CASE RevalidateHost(p) \/ InstallHost(p)
      BY <3>1 DEF RevalidateHost, InstallHost
    <3>2. CASE CompleteProduct(p) \/ InstallConnectStep(p)
      BY <3>2 DEF CompleteProduct, InstallConnectStep
    <3>3. CASE VerifyHost(p) \/ VerifyHttp(p) \/ VerifyConnect(p)
      BY <3>3 DEF VerifyHost, VerifyHttp, VerifyConnect
    <3>4. CASE \/ WriteInstalled(p) \/ WriteWiring(p) \/ WriteComplete(p)
               \/ WriteLinked(p)
      BY <3>4 DEF WriteInstalled, WriteWiring, WriteComplete, WriteLinked
    <3> QED
      BY <1>3, <3>1, <3>2, <3>3, <3>4
  <2> HIDE DEF Next4
  <2>5. \A s \in Next4 : SoundJournal(s)
    BY <2>2, <2>3, SameJournal
  <2>6. CASE Quit(p) /\ UNCHANGED stored
    BY <2>6, KeptQuit
  <2>7. ASSUME NEW step \in Quiet, Goto(p, step), UNCHANGED stored
        PROVE  Kept'
    BY <1>0, <1>1, <2>2, <2>7, KeptGoto DEF Steps, Unlocked, Opening
  <2>8. ASSUME NEW step \in Quiet, NEW s \in Next4, WriteState(p, s, step)
        PROVE  Kept'
    BY <1>1, <2>2, <2>3, <2>5, <2>8, KeptWriteState DEF Steps, Unlocked, Opening
  <2>9. ASSUME NEW s \in Next4, WriteLast(p, s)
        PROVE  Kept'
    BY <2>2, <2>3, <2>5, <2>9, KeptWriteLast
  <2>10. CASE Begin(p) /\ UNCHANGED stored
    <3>1. /\ proc'[p].pc = "reach" /\ proc'[p].mem = m
          /\ \A q \in Proc : q # p => proc'[q] = proc[q]
          /\ UNCHANGED <<lock, stored>>
      BY <1>0, <2>10 DEF Begin, Process
    <3>2. "reach" \in Steps \ Unlocked /\ MayBeAt("reach", m)
      BY <1>0, <1>1 DEF Steps, Unlocked
    <3> QED
      BY <2>2, <3>1, <3>2, KeptMove
  <2> QED
    BY <2>4, <2>6, <2>7, <2>8, <2>9, <2>10
<1> QED
  BY <1>2, <1>3

LEMMA KeptDestroying ==
  ASSUME Discipline, NEW p \in Proc,
         \/ \E purge \in BOOLEAN : ShowDestroyPlan(p, purge)
         \/ \E purge \in BOOLEAN : OpenDestroy(p, purge)
         \/ BeginDestroy(p) \/ NextTarget(p) \/ UninstallConnect(p)
         \/ WriteDestroyed(p),
         TypeOK'
  PROVE  Kept'
<1> USE DEF files, outside
<1> DEFINE m == proc[p].mem
<1>0. /\ m \in State /\ m.destroy \in ActiveDestroy /\ m.res \in [Slots -> Nat]
      /\ proc \in [Proc -> Process] /\ proc[p] \in Process
      /\ proc'[p] \in Process
  BY ProcessFields DEF Discipline, TypeOK
<1>1. CASE \E purge \in BOOLEAN : ShowDestroyPlan(p, purge)
  BY <1>1, KeptUntouched DEF ShowDestroyPlan
<1>2. CASE \E purge \in BOOLEAN : OpenDestroy(p, purge)
  <2>1. PICK purge \in BOOLEAN : OpenDestroy(p, purge)
    BY <1>2
  <2>2. PICK q \in Process : /\ proc' = [proc EXCEPT ![p] = q]
                            /\ q.pc = "destroy" /\ q.mem = stored
    <3>1. /\ proc' = [proc EXCEPT ![p] = proc'[p]]
          /\ proc'[p].pc = "destroy" /\ proc'[p].mem = stored
      BY <1>0, <2>1 DEF OpenDestroy, Idle
    <3> QED
      BY <1>0, <3>1
  <2>3. lock = "none" /\ lock' = p /\ stored.phase # "none" /\ UNCHANGED stored
    BY <2>1 DEF OpenDestroy, OpenStore
  <2> QED
    BY <2>2, <2>3, KeptOpen
<1>3. CASE BeginDestroy(p)
  <2>1. /\ proc[p].pc = "destroy" /\ proc[p].pc \notin Unlocked \cup Opening
        /\ SoundJournal(m) /\ m.phase # "none"
    BY <1>3, MemoryIsSound DEF BeginDestroy, Unlocked, Opening
  <2>2. CASE m.phase = "destroying"
    <3>1. /\ Goto(p, IF HasPending(m) THEN "pending" ELSE "targets")
          /\ UNCHANGED stored
      BY <1>3, <2>2 DEF BeginDestroy
    <3> QED
      BY <2>1, <3>1, KeptGoto DEF MayBeAt, Steps, Unlocked, Opening, Journaling,
                                  Executing
  <2>3. CASE m.phase # "destroying"
    <3> DEFINE dp == DestroyPlanOf(m, proc[p].cmd = "purge")
               s  == [m EXCEPT !.phase = "destroying",
                               !.destroy = ActiveDestroyOf(dp)]
    <3>1. dp \in DestroyPlan /\ (dp.target[Disk] # NoId => dp.purge)
      BY <1>0, SlotFacts, DestroyPlanType DEF DestroyPlanOf
    <3>2. WriteState(p, s, "targets")
      BY <1>3, <2>3 DEF BeginDestroy
    <3> HIDE DEF dp
    <3>3. ActiveDestroyOf(dp) \in ActiveDestroy
      BY <3>1, ActiveDestroyType
    <3>4. /\ s \in State /\ s.phase = "destroying"
          /\ s.pending = m.pending /\ s.res = m.res
          /\ s.destroy = ActiveDestroyOf(dp)
      BY <1>0, <3>3 DEF State, Phases
    <3> HIDE DEF s
    <3>5. s.destroy.on /\ s.destroy.plan = dp
      BY <3>4 DEF ActiveDestroyOf
    \* A journaled delete would belong to a destroy that already began.
    <3>6. ASSUME Validate(s), HasPending(s)
          PROVE  FALSE
      <4>1. s.pending.action = "delete"
        BY <3>5, <3>6 DEF Validate, ValidateActiveDestroy, PendingMatchesTarget
      <4>2. stored.destroy.on /\ stored.phase # "destroying"
        BY <2>1, <2>3, <3>4, <4>1, MemoryIsSound DEF SoundJournal, SameRecord
      <4>3. Validate(stored)
        BY DEF Discipline, StoredIsValid
      <4> QED
        BY <4>2, <4>3 DEF Validate, ValidateActiveDestroy
    <3>7. Validate(s) => SoundJournal(s) /\ MayBeAt("targets", s)
      BY <2>1, <3>1, <3>4, <3>5, <3>6
         DEF SoundJournal, HasPending, MayBeAt, Executing
    <3> QED
      BY <2>1, <3>2, <3>4, <3>7, KeptWriteState DEF Steps, Unlocked, Opening
  <2> QED
    BY <2>2, <2>3
<1>4. CASE NextTarget(p)
  <2>1. /\ proc[p].pc = "targets" /\ SoundJournal(m) /\ ~HasPending(m)
    BY <1>4, MemoryIsSound
       DEF NextTarget, Discipline, ControlAgrees, MayBeAt, Journaling, Unlocked
  <2>2. CASE Goto(p, "uninstall") /\ UNCHANGED stored
    BY <2>1, <2>2, KeptGoto
       DEF MayBeAt, Steps, Unlocked, Opening, Journaling, Executing
  <2>3. CASE Quit(p) /\ UNCHANGED stored
    BY <2>3, KeptQuit
  <2>4. ASSUME NEW t \in Slots, IsCurrent(m.destroy, t),
               JournalEffect(p, "delete", t, m.res[t],
                             IF t = Dns THEN "node" ELSE "absent")
        PROVE  Kept'
    <3>1. /\ m.res[t] \in Nat
          /\ (IF t = Dns THEN "node" ELSE "absent") \in DnsValues
      BY <1>0 DEF DnsValues
    <3>2. m.destroy.on
      BY <2>1, <2>4 DEF IsCurrent, SoundJournal
    <3> QED
      BY <2>1, <2>4, <3>1, <3>2, KeptJournalEffect DEF Journaling
  <2> QED
    BY <1>4, <2>2, <2>3, <2>4 DEF NextTarget
<1>5. CASE UninstallConnect(p)
  <2>1. /\ proc[p].pc = "uninstall" /\ proc[p].pc \notin Unlocked \cup Opening
        /\ m.phase # "none" /\ lock = p
    BY <1>5, MemoryIsSound DEF UninstallConnect, Unlocked, Opening
  <2>2. CASE Goto(p, "destroyed")
    BY <1>5, <2>1, <2>2, KeptGoto
       DEF UninstallConnect, MayBeAt, Steps, Unlocked, Opening, Journaling, Executing
  <2>3. CASE ~Goto(p, "destroyed")
    <3>1. /\ proc' = [proc EXCEPT ![p].pc = "destroyed", ![p].mem =
                         [@ EXCEPT !.requested = FALSE, !.installed = FALSE]]
          /\ UNCHANGED <<stored, lock>>
      BY <1>5, <2>3 DEF UninstallConnect
    <3>2. /\ proc'[p].pc = "destroyed"
          /\ proc'[p].mem = [m EXCEPT !.requested = FALSE, !.installed = FALSE]
          /\ \A r \in Proc : r # p => proc'[r] = proc[r]
      BY <1>0, <3>1 DEF Process
    <3>3. SameRecord(proc'[p].mem, m)
      BY <1>0, <3>2 DEF SameRecord, State
    <3>4. ControlAgrees'
      <4>1. MayBeAt("destroyed", proc'[p].mem) /\ proc'[p].mem.phase # "none"
        BY <2>1, <3>3 DEF MayBeAt, Journaling, Executing, SameRecord
      <4>2. "destroyed" \notin Unlocked \cup Opening
        BY DEF Unlocked, Opening
      <4>3. ASSUME NEW r \in Proc
            PROVE  /\ proc'[r].pc \in Unlocked => proc'[r].mem = NoState
                   /\ proc'[r].pc \notin Unlocked \cup Opening =>
                        proc'[r].mem.phase # "none"
                   /\ MayBeAt(proc'[r].pc, proc'[r].mem)
        <5>1. CASE r = p
          BY <3>2, <4>1, <4>2, <5>1
        <5>2. CASE r # p
          BY <3>2, <5>2 DEF Discipline, ControlAgrees
        <5> QED
          BY <5>1, <5>2
      <4> QED
        BY <4>3 DEF ControlAgrees, MayBeAt, HasPending
    <3>5. LockedMemoryIsCurrent'
      BY <2>1, <3>1, <3>2, <3>3
         DEF Discipline, LockedMemoryIsCurrent, SameRecord, Unlocked
    <3> QED
      BY <3>1, <3>4, <3>5 DEF Discipline, Kept, StoredIsValid, JournalIsSound
  <2> QED
    BY <2>2, <2>3
<1>6. CASE WriteDestroyed(p)
  <2> DEFINE s == [m EXCEPT !.phase = "destroyed", !.destroy = NoDestroy,
                            !.receipt = FALSE]
  <2>1. proc[p].pc \notin Unlocked /\ SoundJournal(m)
    BY <1>6, MemoryIsSound DEF WriteDestroyed, Unlocked
  <2>2. /\ s \in State /\ s.phase = "destroyed" /\ s.destroy = NoDestroy
        /\ s.pending = m.pending
    BY <1>0, EmptyTypes DEF State, Phases
  <2>3. WriteLast(p, s)
    BY <1>6 DEF WriteDestroyed
  <2> HIDE DEF s
  <2>4. Validate(s) => s.pending = NoEffect
    BY <2>1, <2>2 DEF Validate, ValidatePhase, HasPending, SoundJournal
  <2>5. Validate(s) => SoundJournal(s)
    BY <2>2, <2>4, SlotFacts DEF SoundJournal, HasPending, NoEffect, NoDestroy,
                                 NoDestroyPlan, NoTargets
  <2> QED
    BY <2>1, <2>2, <2>3, <2>5, KeptWriteLast
<1> QED
  BY <1>1, <1>2, <1>3, <1>4, <1>5, <1>6

LEMMA DisciplineNext ==
  ASSUME Discipline, [Next]_vars
  PROVE  Discipline'
<1>1. TypeOK'
  BY TypeNext DEF Discipline
<1>2. ASSUME NEW p \in Proc, Start(p)
      PROVE  Kept'
  BY <1>1, <1>2, KeptPlanning, KeptResuming, KeptFinishing, KeptDestroying
     DEF Start
<1>3. ASSUME NEW p \in Proc, Step(p)
      PROVE  Kept'
  BY <1>1, <1>3, KeptPlanning, KeptResuming, KeptEffects, KeptFinishing,
     KeptDestroying DEF Step
<1>4. ASSUME NEW p \in Proc, Abort(p)
      PROVE  Kept'
  BY <1>4, KeptQuit DEF Abort, files
<1>5. ASSUME Environment \/ UNCHANGED vars
      PROVE  Kept'
  <2>1. stored' = stored /\ lock' = lock /\ proc' = proc
    BY <1>5 DEF Environment, OperationDone, OperationFails, Tamper, TamperDns,
                OperatorSetsDns, vars, files
  <2>2. UNCHANGED <<stored, lock, proc>>
    BY <2>1
  <2> QED
    BY <2>2, KeptUntouched
<1> QED
  BY <1>1, <1>2, <1>3, <1>4, <1>5 DEF Next, Kept, Discipline

LEMMA DisciplineInit ==
  ASSUME Init
  PROVE  Discipline
<1>1. TypeOK
  <2>1. /\ proc \in [Proc -> Process]
        /\ shown \in [deploy : Plan, destroy : DestroyPlan]
        /\ stored \in State /\ storedPlan \in Plan
    BY EmptyTypes DEF Init
  <2>2. /\ cloud \in [Created -> Nat \cup {Foreign}]
        /\ faults \in [Faults -> Nat]
        /\ \A o \in ops : o \in Operation
    BY DEF Init, NoId
  <2>3. zone \in [value : DnsValues, by : Nat, standard : BOOLEAN]
    BY DEF Init, RecordsOfOthers, DnsValues, NoId
  <2>4. /\ nodeDir \in BOOLEAN /\ lock \in Proc \cup {"none"} /\ lastId \in Nat
        /\ host \in Nat /\ local \in [creds : BOOLEAN, daemon : BOOLEAN]
    BY DEF Init, NoId
  <2> QED
    BY <2>1, <2>2, <2>3, <2>4 DEF TypeOK
<1>2. ControlAgrees
  BY DEF Init, ControlAgrees, MayBeAt, Idle, Unlocked, Journaling, Executing
<1>3. LockedMemoryIsCurrent
  BY ConstantsAssumption DEF Init, LockedMemoryIsCurrent, Idle, Unlocked
<1>4. StoredIsValid
  BY DEF Init, StoredIsValid, NoState, NoEffect, NoDestroy, NoTargets, Validate,
         ValidateEffect, ValidatePhase, ValidateActiveDestroy, ValidateHost,
         HasPending
<1>5. JournalIsSound
  BY SlotFacts DEF Init, JournalIsSound, SoundJournal, NoState, NoEffect, NoDestroy,
         NoDestroyPlan, NoTargets, HasPending
<1> QED
  BY <1>1, <1>2, <1>3, <1>4, <1>5 DEF Discipline

(***************************************************************************)
(* The discipline holds in every deployment.                               *)
(***************************************************************************)
THEOREM DisciplineHolds == Spec => []Discipline
BY DisciplineInit, DisciplineNext, PTL DEF Spec

(***************************************************************************)
(* Every variable keeps its type, for any set of processes, slots and      *)
(* commands and any bounds.                                                *)
(***************************************************************************)
THEOREM TypeCorrect == Spec => []TypeOK
<1>1. Discipline => TypeOK
  BY DEF Discipline
<1> QED
  BY <1>1, DisciplineHolds, PTL

(***************************************************************************)
(* At most one process is past the directory lock and its memory is what   *)
(* is on disk, so no write loses another one (StateStore's lock).          *)
(***************************************************************************)
THEOREM LockIsExclusive == Spec => []LockedMemoryIsCurrent
<1>1. Discipline => LockedMemoryIsCurrent
  BY DEF Discipline
<1> QED
  BY <1>1, DisciplineHolds, PTL

-----------------------------------------------------------------------------
(***************************************************************************)
(* No deployment orphans a resource: the properties that relate            *)
(* state.json to the cloud.                                                *)
(***************************************************************************)
CloudKept == CloudAgrees /\ ReceiptIsEarned

(* Steps at which nothing about the cloud is claimed. *)
Silent == Steps \ {"deleting", "receipt"}

(***************************************************************************)
(* The facts about the lock holder's journal that the actions use.         *)
(***************************************************************************)
LEMMA HolderFacts ==
  ASSUME IInv, NEW p \in Proc, proc[p].pc \notin Unlocked
  PROVE  /\ lock = p
         /\ proc[p].mem.pending = stored.pending
         /\ proc[p].mem.res = stored.res
         /\ proc[p].mem.destroy = stored.destroy
         /\ proc[p].pc \in Journaling => ~HasPending(stored)
         /\ proc[p].pc \in Executing => HasPending(stored)
         /\ proc[p].pc = "deleting" => /\ stored.pending.action = "delete"
                                       /\ stored.pending.slot # Dns
         /\ \A q \in Proc : q # p => proc[q].pc \in Unlocked
BY MemoryIsSound DEF IInv, Discipline, SameRecord, ControlAgrees, MayBeAt,
                     HasPending, LockedMemoryIsCurrent

LEMMA PendingFacts ==
  ASSUME IInv, HasPending(stored)
  PROVE  /\ stored.pending \in Effect
         /\ stored.pending.id = lastId /\ lastId \in Nat /\ lastId > 0
         /\ stored.pending.target \in Nat
         /\ stored.pending.target < lastId
         /\ stored.pending.action = "delete" => stored.pending.target > 0
         /\ stored.pending.action \in {"create", "update", "delete"}
         /\ stored.pending.slot \in Slots
<1>1. /\ stored.pending \in Effect /\ lastId \in Nat
      /\ Validate(stored) /\ IdsAreFresh
  BY StoredFields DEF IInv, Discipline, CloudAgrees, StoredIsValid, TypeOK
<1>2. stored.pending.target \in Nat
  BY <1>1 DEF Effect
<1>3. stored.pending.action = "delete" => stored.pending.target > 0
  BY <1>1, <1>2 DEF Validate, ValidateEffect, NoId
<1> QED
  BY <1>1, <1>2, <1>3 DEF IdsAreFresh, HasPending, Effect

-----------------------------------------------------------------------------
(***************************************************************************)
(* Steps that leave the cloud, the operations and the accounts alone.      *)
(***************************************************************************)
SameAccount(s, t) ==
  /\ s.res = t.res
  /\ s.pending.action = t.pending.action
  /\ s.pending.slot = t.pending.slot
  /\ s.pending.id = t.pending.id
  /\ s.pending.target = t.pending.target

LEMMA CloudUnmoved ==
  ASSUME CloudAgrees, UNCHANGED <<lastId, cloud, ops, zone>>,
         SameAccount(stored', stored)
  PROVE  CloudAgrees'
<1> USE DEF SameAccount
<1>1. HasPending(stored)' <=> HasPending(stored)
  BY DEF HasPending
<1>2. IdsAreFresh'
  BY <1>1 DEF CloudAgrees, IdsAreFresh
<1>3. OperationsAreEffects'
  BY <1>1 DEF CloudAgrees, OperationsAreEffects
<1>4. ZoneIsOurs'
  BY DEF CloudAgrees, ZoneIsOurs
<1>5. NoOrphan'
  BY DEF CloudAgrees, NoOrphan, Accounted, InFlight, OnOurs
<1> QED
  BY <1>2, <1>3, <1>4, <1>5 DEF CloudAgrees

LEMMA SilentIsEarned ==
  ASSUME NEW step, step \notin {"deleting", "receipt"}, NEW e
  PROVE  Earned(step, e) /\ Earned(step, e)'
BY DEF Earned

LEMMA QuietStep ==
  ASSUME IInv, NEW p \in Proc,
         UNCHANGED <<stored, lastId, cloud, ops, zone>>,
         \A q \in Proc : q # p => proc'[q] = proc[q],
         proc'[p].pc \notin {"deleting", "receipt"}
  PROVE  CloudKept'
<1>1. CloudAgrees'
  BY CloudUnmoved DEF IInv, SameAccount
<1>2. ASSUME NEW q \in Proc
      PROVE  Earned(proc[q].pc, stored.pending)'
  <2>1. CASE q = p
    BY <2>1 DEF Earned
  <2>2. CASE q # p
    BY <2>2 DEF IInv, ReceiptIsEarned, Earned, Requested
  <2> QED
    BY <2>1, <2>2
<1> QED
  BY <1>1, <1>2 DEF CloudKept, ReceiptIsEarned

(* While p holds the lock, only what p claims matters. *)
LEMMA HolderEarns ==
  ASSUME IInv, NEW p \in Proc, proc[p].pc \notin Unlocked,
         \A q \in Proc : q # p => proc'[q] = proc[q],
         Earned(proc[p].pc, stored.pending)'
  PROVE  ReceiptIsEarned'
<1>1. ASSUME NEW q \in Proc
      PROVE  Earned(proc[q].pc, stored.pending)'
  <2>1. CASE q = p
    BY <2>1 DEF Earned, Requested
  <2>2. CASE q # p
    <3>1. proc'[q].pc \in Unlocked
      BY <2>2, HolderFacts
    <3> QED
      BY <3>1 DEF Earned, Unlocked
  <2> QED
    BY <2>1, <2>2
<1> QED
  BY <1>1 DEF ReceiptIsEarned

LEMMA EndFacts ==
  ASSUME IInv, NEW p \in Proc
  PROVE  /\ Quit(p) => /\ proc'[p].pc = "idle"
                       /\ \A q \in Proc : q # p => proc'[q] = proc[q]
         /\ \A step : Goto(p, step) =>
                       /\ proc'[p].pc = step
                       /\ \A q \in Proc : q # p => proc'[q] = proc[q]
<1>1. proc \in [Proc -> Process] /\ proc[p] \in Process
  BY DEF IInv, Discipline, TypeOK
<1> QED
  BY <1>1 DEF Quit, Goto, Idle, Process

LEMMA QuietQuit ==
  ASSUME IInv, NEW p \in Proc, Quit(p),
         UNCHANGED <<stored, lastId, cloud, ops, zone>>
  PROVE  CloudKept'
BY EndFacts, QuietStep

LEMMA QuietGoto ==
  ASSUME IInv, NEW p \in Proc, NEW step \in Silent, Goto(p, step),
         UNCHANGED <<stored, lastId, cloud, ops, zone>>
  PROVE  CloudKept'
BY EndFacts, QuietStep DEF Silent

(* A write that leaves the accounts as they are. *)
LEMMA QuietWrite ==
  ASSUME IInv, NEW p \in Proc, proc[p].pc \notin Unlocked, NEW s,
         SameAccount(s, proc[p].mem),
         WriteLast(p, s) \/ \E step \in Silent : WriteState(p, s, step),
         UNCHANGED <<lastId, cloud, ops, zone>>
  PROVE  CloudKept'
<1>1. CASE stored' = stored /\ Quit(p)
  BY <1>1, QuietQuit
<1>2. CASE stored' = s
  <2>1. SameAccount(stored', stored)
    BY <1>2, HolderFacts DEF SameAccount
  <2>2. CloudAgrees'
    BY <2>1, CloudUnmoved DEF IInv
  <2>3. proc \in [Proc -> Process] /\ proc[p] \in Process
    BY DEF IInv, Discipline, TypeOK
  <2>4. /\ proc'[p].pc \notin {"deleting", "receipt"}
        /\ \A q \in Proc : q # p => proc'[q] = proc[q]
    <3>1. CASE Quit(p)
      BY <3>1, EndFacts
    <3>2. CASE ~Quit(p)
      <4>1. PICK step \in Silent :
              proc' = [proc EXCEPT ![p].pc = step, ![p].mem = s]
        BY <3>2 DEF WriteState, WriteLast
      <4> QED
        BY <2>3, <4>1 DEF Process, Silent
    <3> QED
      BY <3>1, <3>2
  <2>5. Earned(proc[p].pc, stored.pending)'
    BY <2>4 DEF Earned
  <2> QED
    BY <2>2, <2>4, <2>5, HolderEarns DEF CloudKept
<1> QED
  BY <1>1, <1>2 DEF WriteLast, WriteState

-----------------------------------------------------------------------------
(***************************************************************************)
(* The steps of one effect.                                                *)
(***************************************************************************)

(* A journaled effect: nothing was in flight, and nothing is requested yet. *)
LEMMA CloudJournalEffect ==
  ASSUME IInv, NEW p \in Proc,
         NEW action \in {"create", "update", "delete"}, NEW t \in Slots,
         NEW target \in Nat, NEW cur \in DnsValues,
         JournalEffect(p, action, t, target, cur),
         proc[p].pc \in Journaling,
         action = "update" => t = Dns,
         target <= lastId,
         UNCHANGED <<cloud, ops, zone>>
  PROVE  CloudKept'
<1> DEFINE m == proc[p].mem
           e == [action |-> action, slot |-> t, id |-> lastId + 1,
                 target |-> target, cur |-> cur, op |-> FALSE]
           s == [m EXCEPT !.pending = e]
<1>0. /\ e.action = action /\ e.slot = t /\ e.id = lastId + 1
      /\ e.target = target
  OBVIOUS
<1>1. proc[p].pc \notin Unlocked /\ ~HasPending(stored) /\ m.res = stored.res
  BY HolderFacts DEF Journaling, Unlocked
<1>2. m \in State /\ lastId \in Nat /\ proc \in [Proc -> Process]
      /\ proc[p] \in Process /\ stored.res \in [Slots -> Nat]
      /\ \A o \in ops : o.id \in Nat /\ o \in Operation
  BY ProcessFields, StoredFields DEF IInv, Discipline, TypeOK, Operation
<1> HIDE DEF e
<1>3. s.res = stored.res /\ s.pending = e
  BY <1>1, <1>2 DEF State
<1>4. /\ WriteState(p, s, "pending")
      /\ lastId' = IF Validate(s) THEN lastId + 1 ELSE lastId
  BY DEF JournalEffect, e
<1> HIDE DEF s
<1>5. CASE ~Validate(s)
  BY <1>4, <1>5, QuietQuit DEF WriteState
<1>6. CASE Validate(s)
  <2>1. /\ stored' = s /\ lastId' = lastId + 1
        /\ proc' = [proc EXCEPT ![p].pc = "pending", ![p].mem = s]
    BY <1>4, <1>6 DEF WriteState
  <2>2. /\ stored'.res = stored.res /\ stored'.pending.action = action
        /\ stored'.pending.slot = t /\ stored'.pending.id = lastId + 1
        /\ stored'.pending.target = target
        /\ HasPending(stored)'
    BY <1>0, <1>3, <2>1 DEF HasPending
  <2>3. IdsAreFresh'
    <3>1. \A u \in Slots : stored'.res[u] <= lastId'
      BY <1>2, <2>1, <2>2 DEF IInv, CloudAgrees, IdsAreFresh
    <3>2. \A o \in ops' : o.id \in 1..lastId'
      BY <1>2, <2>1 DEF IInv, CloudAgrees, IdsAreFresh
    <3>3. \A o1, o2 \in ops' : o1.id = o2.id => o1 = o2
      BY DEF IInv, CloudAgrees, IdsAreFresh
    <3>4. /\ stored'.pending.id = lastId' /\ stored'.pending.id > 0
          /\ stored'.pending.target < stored'.pending.id
      BY <1>2, <2>1, <2>2
    <3> QED
      BY <3>1, <3>2, <3>3, <3>4 DEF IdsAreFresh
  <2>4. OperationsAreEffects'
    <3>1. \A o \in ops : o.id # lastId + 1
      BY <1>2 DEF IInv, CloudAgrees, IdsAreFresh
    <3> QED
      BY <2>2, <3>1 DEF IInv, CloudAgrees, OperationsAreEffects
  <2>5. ZoneIsOurs'
    BY DEF IInv, CloudAgrees, ZoneIsOurs
  <2>6. NoOrphan'
    <3>1. stored.pending.action = "none"
      BY <1>1 DEF HasPending
    <3>2. \A o \in ops : ~OnOurs(o)
      BY <1>2, <3>1 DEF IInv, CloudAgrees, NoOrphan, Operation
    <3>3. /\ \A u \in Created : cloud[u] > NoId => stored.res[u] = cloud[u]
          /\ zone.by # NoId => stored.res[Dns] = zone.by
      BY <3>1 DEF IInv, CloudAgrees, NoOrphan, Accounted
    <3> QED
      BY <2>2, <3>2, <3>3 DEF NoOrphan, Accounted, InFlight, OnOurs
  <2>7. /\ proc'[p].pc = "pending"
        /\ \A q \in Proc : q # p => proc'[q] = proc[q]
    BY <1>2, <2>1 DEF Process
  <2>8. ReceiptIsEarned'
    BY <1>1, <2>7, HolderEarns DEF Earned
  <2> QED
    BY <2>3, <2>4, <2>5, <2>6, <2>8 DEF CloudKept, CloudAgrees
<1> QED
  BY <1>5, <1>6

(* A request of the journaled effect, for the target it names. *)
LEMMA CloudSubmit ==
  ASSUME IInv, HasPending(stored), NEW target \in Int,
         Submit(stored.pending, target),
         ~Requested(stored.pending) =>
           /\ stored.pending.slot # Dns => stored.pending.action # "update"
           /\ (stored.pending.slot # Dns /\ stored.pending.action = "delete") =>
                target = stored.pending.target \/ (RaceDelete /\ target = Foreign),
         UNCHANGED <<stored, lastId, cloud>>
  PROVE  /\ IdsAreFresh' /\ OperationsAreEffects'
         /\ \A o \in ops' : OnOurs(o)' =>
              /\ stored.pending.id = o.id
              /\ stored.pending.slot = o.slot
              /\ stored.pending.action = o.action
         /\ Requested(stored.pending)'
<1> DEFINE e == stored.pending
           n == [id |-> e.id, slot |-> e.slot, action |-> e.action,
                 target |-> target, st |-> "running"]
<1>0. /\ IdsAreFresh /\ OperationsAreEffects /\ NoOrphan
      /\ e \in Effect /\ e.id = lastId /\ lastId \in Nat /\ lastId > 0
      /\ e.target \in Nat /\ e.target < lastId
      /\ e.action \in {"create", "update", "delete"}
      /\ e.action = "delete" => e.target > 0
  BY PendingFacts DEF IInv, CloudAgrees
<1>1. CASE Requested(e)
  <2>1. ops' = ops
    BY <1>1 DEF Submit
  <2> QED
    BY <1>0, <1>1, <2>1
       DEF IdsAreFresh, OperationsAreEffects, NoOrphan, InFlight, OnOurs, Requested,
           HasPending
<1>2. CASE ~Requested(e)
  <2>1. ops' = ops \cup {n} /\ \A o \in ops : o.id # e.id
    BY <1>2 DEF Submit, Requested
  <2>2. /\ n.id = e.id /\ n.slot = e.slot /\ n.action = e.action
        /\ n.target = target
    OBVIOUS
  <2> HIDE DEF n
  <2>3. IdsAreFresh'
    BY <1>0, <2>1, <2>2 DEF IdsAreFresh, HasPending
  <2>4. n.slot # Dns => /\ n.action \in {"create", "delete"}
                        /\ n.action = "delete" =>
                             n.target \in 1..(n.id - 1) \/ Strayed(n)
    BY <1>0, <1>2, <2>2 DEF Strayed
  <2>5. OperationsAreEffects'
    BY <1>0, <1>2, <2>1, <2>2, <2>4 DEF OperationsAreEffects, HasPending, Strayed
  <2>6. \A o \in ops' : OnOurs(o)' =>
          e.id = o.id /\ e.slot = o.slot /\ e.action = o.action
    BY <1>0, <2>1, <2>2 DEF NoOrphan, InFlight, OnOurs
  <2> QED
    BY <2>1, <2>2, <2>3, <2>5, <2>6 DEF Requested
<1> QED
  BY <1>1, <1>2

LEMMA CloudStart ==
  ASSUME IInv, NEW p \in Proc,
         \/ StartCreate(p) \/ CheckDelete(p) \/ RequestDelete(p)
         \/ StartDns(p) \/ PollEffect(p)
  PROVE  CloudKept'
<1> USE DEF files, outside
<1> DEFINE e == stored.pending
<1>1. proc[p].pc \in Executing /\ proc[p].pc \notin Unlocked
  BY DEF StartCreate, CheckDelete, RequestDelete, StartDns, ChangeDns, DnsGoal, ReadyToStart,
         PollEffect, Over, Executing, Unlocked
<1>2. /\ Pending(p) = e /\ HasPending(stored) /\ proc[p].mem.res = stored.res
      /\ proc[p].pc = "deleting" => e.action = "delete" /\ e.slot # Dns
  BY <1>1, HolderFacts DEF Pending
<1>3. /\ e \in Effect /\ e.id = lastId /\ lastId \in Nat /\ lastId > 0
      /\ e.target \in Nat /\ e.target < lastId
      /\ e.action = "delete" => e.target > 0
      /\ e.slot \in Slots
  BY <1>2, PendingFacts
<1>4. UNCHANGED <<stored, lastId>>
  BY DEF StartCreate, CheckDelete, RequestDelete, StartDns, ChangeDns, DnsGoal, PollEffect, Over
<1>5. /\ IdsAreFresh /\ OperationsAreEffects /\ ZoneIsOurs /\ NoOrphan
      /\ Earned(proc[p].pc, e)
  BY DEF IInv, CloudAgrees, ReceiptIsEarned
<1>6. ASSUME Quit(p), UNCHANGED <<cloud, ops, zone>>
      PROVE  CloudKept'
  BY <1>4, <1>6, QuietQuit
\* A claim about an unchanged cloud.
<1>7. ASSUME NEW step, Goto(p, step), UNCHANGED <<cloud, ops, zone>>,
             Earned(step, e)
      PROVE  CloudKept'
  <2>1. CloudAgrees'
    BY <1>4, <1>7, CloudUnmoved DEF IInv, SameAccount
  <2>2. /\ proc'[p].pc = step
        /\ \A q \in Proc : q # p => proc'[q] = proc[q]
    BY <1>7, EndFacts
  <2>3. Earned(proc[p].pc, stored.pending)'
    BY <1>4, <1>7, <2>2 DEF Earned, Requested
  <2> QED
    BY <1>1, <2>1, <2>2, <2>3, HolderEarns DEF CloudKept
\* A request that moved nothing yet.
<1>8. ASSUME NEW target \in Int, Submit(e, target), Goto(p, "record"),
             UNCHANGED <<cloud, zone>>,
             ~Requested(e) =>
               /\ e.slot # Dns => e.action # "update"
               /\ (e.slot # Dns /\ e.action = "delete") =>
                    target = e.target \/ (RaceDelete /\ target = Foreign)
      PROVE  CloudKept'
  <2>1. /\ IdsAreFresh' /\ OperationsAreEffects'
        /\ \A o \in ops' : OnOurs(o)' =>
             e.id = o.id /\ e.slot = o.slot /\ e.action = o.action
    BY <1>2, <1>4, <1>8, CloudSubmit
  <2>2. NoOrphan'
    BY <1>4, <1>5, <1>8, <2>1 DEF NoOrphan, Accounted
  <2>3. ZoneIsOurs'
    BY <1>5, <1>8 DEF ZoneIsOurs
  <2>4. /\ proc'[p].pc = "record"
        /\ \A q \in Proc : q # p => proc'[q] = proc[q]
    BY <1>8, EndFacts
  <2>5. ReceiptIsEarned'
    BY <1>1, <2>4, HolderEarns DEF Earned
  <2> QED
    BY <2>1, <2>2, <2>3, <2>5 DEF CloudKept, CloudAgrees
<1>9. CASE StartCreate(p)
  <2>1. \/ Quit(p) /\ UNCHANGED <<cloud, ops, zone>>
        \/ /\ Submit(e, NoId) /\ Goto(p, "record") /\ UNCHANGED <<cloud, zone>>
           /\ e.action = "create"
    BY <1>2, <1>9 DEF StartCreate, ReadyToStart
  <2> QED
    BY <2>1, <1>6, <1>8 DEF NoId
<1>10. CASE CheckDelete(p)
  <2>1. /\ e.action = "delete" /\ e.slot # Dns
        /\ UNCHANGED <<cloud, ops, zone>>
        /\ \/ Quit(p)
           \/ Goto(p, "receipt") /\ cloud[e.slot] = NoId
           \/ Goto(p, "deleting") /\ cloud[e.slot] = e.target
    BY <1>2, <1>10 DEF CheckDelete, ReadyToStart
  <2>2. cloud[e.slot] = NoId => Earned("receipt", e)
    BY <1>3, <2>1 DEF Earned, NoId
  <2>3. cloud[e.slot] = e.target => Earned("deleting", e)
    BY DEF Earned
  <2> QED
    BY <1>6, <1>7, <2>1, <2>2, <2>3
<1>11. CASE RequestDelete(p)
  <2>1. /\ e.action = "delete" /\ e.slot # Dns /\ UNCHANGED <<cloud, zone>>
        /\ \/ Quit(p) /\ UNCHANGED ops
           \/ /\ Submit(e, cloud[e.slot]) /\ Goto(p, "record")
              /\ cloud[e.slot] # NoId \/ Requested(e)
    BY <1>2, <1>11 DEF RequestDelete
  <2>2. cloud[e.slot] \in Int
    <3>1. e.slot \in Created
      BY <1>3, <2>1 DEF Slots
    <3> QED
      BY <3>1 DEF IInv, Discipline, TypeOK, Foreign
  <2>3. (cloud[e.slot] # NoId /\ ~Requested(e)) =>
          cloud[e.slot] = e.target \/ (RaceDelete /\ cloud[e.slot] = Foreign)
    BY <1>5, <1>11 DEF RequestDelete, Earned
  <2> QED
    BY <1>6, <1>8, <2>1, <2>2, <2>3
<1>12. CASE StartDns(p)
  <2> DEFINE goal == IF e.action = "delete" THEN "absent" ELSE "node"
  <2>1. /\ e.slot = Dns /\ e.action \in {"create", "update", "delete"}
        /\ UNCHANGED cloud
        /\ \/ Quit(p) /\ UNCHANGED <<ops, zone>>
           \/ Goto(p, "receipt") /\ zone.value = goal /\ UNCHANGED <<ops, zone>>
           \/ /\ Submit(e, NoId) /\ Goto(p, "record")
              /\ zone' = [value |-> goal, standard |-> TRUE,
                          by |-> IF goal = "node" THEN e.id ELSE NoId]
    BY <1>2, <1>12
       DEF StartDns, Satisfied, Expected, ChangeDns, DnsGoal, ReadyToStart
  <2>2. CASE Goto(p, "receipt") /\ zone.value = goal /\ UNCHANGED <<ops, zone>>
    <3>1. Earned("receipt", e)
      BY <1>5, <2>1, <2>2 DEF Earned, ZoneIsOurs
    <3> QED
      BY <1>7, <2>1, <2>2, <3>1
  <2>3. CASE /\ Submit(e, NoId) /\ Goto(p, "record")
             /\ zone' = [value |-> goal, standard |-> TRUE,
                         by |-> IF goal = "node" THEN e.id ELSE NoId]
    <3>1. /\ IdsAreFresh' /\ OperationsAreEffects'
          /\ \A o \in ops' : OnOurs(o)' =>
               e.id = o.id /\ e.slot = o.slot /\ e.action = o.action
      BY <1>2, <1>4, <2>1, <2>3, CloudSubmit DEF NoId
    <3>2. NoOrphan'
      BY <1>4, <1>5, <2>1, <2>3, <3>1 DEF NoOrphan, Accounted, NoId
    <3>3. ZoneIsOurs'
      BY <2>3 DEF ZoneIsOurs
    <3>4. /\ proc'[p].pc = "record"
          /\ \A q \in Proc : q # p => proc'[q] = proc[q]
      BY <2>3, EndFacts
    <3>5. ReceiptIsEarned'
      BY <1>1, <3>4, HolderEarns DEF Earned
    <3> QED
      BY <3>1, <3>2, <3>3, <3>5 DEF CloudKept, CloudAgrees
  <2> QED
    BY <1>6, <2>1, <2>2, <2>3
<1>13. CASE PollEffect(p)
  <2>1. /\ UNCHANGED <<cloud, ops, zone>>
        /\ \/ Quit(p)
           \/ /\ Goto(p, "receipt") /\ Happened(e)
              /\ \E o \in ops : o.id = e.id /\ o.st # "running"
    BY <1>2, <1>13 DEF PollEffect, Over
  <2>2. (Happened(e) /\ \E o \in ops : o.id = e.id /\ o.st # "running")
          => Earned("receipt", e)
    BY <1>3, <1>5 DEF Earned, Happened, Gone, InPlace, NoId, ZoneIsOurs
  <2> QED
    BY <1>6, <1>7, <2>1, <2>2
<1> QED
  BY <1>9, <1>10, <1>11, <1>12, <1>13

(***************************************************************************)
(* The receipt of an effect moves its resource from the journal to the     *)
(* recorded resources, or strikes it there, when nothing is in flight.     *)
(***************************************************************************)
Accepted(e) ==
  IF e.action = "delete"
    THEN stored.destroy.on /\ PendingMatchesTarget(e, stored.destroy)
    ELSE Happened(e)

LEMMA NothingInFlight ==
  ASSUME IInv, HasPending(stored), Accepted(stored.pending),
         Earned("receipt", stored.pending)
  PROVE  \A o \in ops : ~OnOurs(o)
<1> DEFINE e == stored.pending
<1>1. ASSUME NEW o \in ops, OnOurs(o)
      PROVE  FALSE
  <2>1. /\ o.id = e.id /\ o.slot = e.slot /\ o.action = e.action
        /\ o.st = "running" /\ o.slot # Dns
        /\ o.action \in {"create", "delete"}
        /\ o.action = "delete" => o.target = e.target /\ cloud[o.slot] = o.target
    BY <1>1 DEF IInv, CloudAgrees, NoOrphan, InFlight, OnOurs, OperationsAreEffects,
                  Strayed
  <2>2. CASE e.action = "create"
    <3>1. PICK done \in ops : done.id = e.id /\ done.st # "running"
      BY <2>1, <2>2 DEF Earned
    <3> QED
      BY <2>1, <3>1 DEF IInv, CloudAgrees, IdsAreFresh
  <2>3. CASE e.action = "delete"
    BY <2>1, <2>3 DEF Earned
  <2> QED
    BY <2>1, <2>2, <2>3
<1> QED
  BY <1>1

LEMMA ReceiptBalances ==
  ASSUME IInv, HasPending(stored), Accepted(stored.pending),
         Earned("receipt", stored.pending),
         stored'.res = [stored.res EXCEPT ![stored.pending.slot] =
                          IF stored.pending.action = "delete" THEN NoId
                          ELSE stored.pending.id],
         stored'.pending = NoEffect,
         UNCHANGED <<lastId, cloud, ops, zone>>
  PROVE  CloudAgrees'
<1> DEFINE e == stored.pending
<1>1. /\ e \in Effect /\ e.id = lastId /\ lastId \in Nat
      /\ e.slot \in Slots /\ e.action \in {"create", "update", "delete"}
      /\ e.target \in Nat
      /\ stored.res \in [Slots -> Nat]
      /\ IdsAreFresh /\ OperationsAreEffects /\ ZoneIsOurs /\ NoOrphan
  BY PendingFacts, StoredFields DEF IInv, CloudAgrees, Discipline
<1>2. ~HasPending(stored)'
  BY DEF HasPending, NoEffect
<1>3. \A t \in Slots : /\ stored'.res[t] \in Nat /\ stored'.res[t] <= lastId
                       /\ t # e.slot => stored'.res[t] = stored.res[t]
  BY <1>1 DEF IdsAreFresh, NoId
<1>4. stored'.res[e.slot] = IF e.action = "delete" THEN NoId ELSE e.id
  BY <1>1
<1>5. IdsAreFresh'
  BY <1>1, <1>2, <1>3 DEF IdsAreFresh
<1>6. OperationsAreEffects'
  BY <1>1, <1>2 DEF OperationsAreEffects, NoEffect
<1>7. ZoneIsOurs'
  BY <1>1 DEF ZoneIsOurs
<1>8. ASSUME e.action = "delete"
      PROVE  stored.res[e.slot] = e.target
  <2>1. /\ e.slot \in stored.destroy.left /\ stored.destroy.on
        /\ e.target = stored.destroy.plan.target[e.slot] /\ e.target # NoId
    BY <1>1, <1>8, PendingFacts DEF Accepted, PendingMatchesTarget, IsCurrent, NoId
  <2>2. ValidateActiveDestroy(stored)
    BY DEF IInv, Discipline, StoredIsValid, Validate
  <2> QED
    BY <1>1, <2>1, <2>2 DEF ValidateActiveDestroy, Targets
<1>9. e.action # "delete" => stored.res[e.slot] = NoId
  BY <1>1 DEF IInv, Discipline, JournalIsSound, SoundJournal
<1>10. ASSUME NEW t \in Created, cloud[t] > NoId
       PROVE  Accounted(t, cloud[t])'
  <2>1. Accounted(t, cloud[t]) /\ t # Dns /\ t \in Slots
    BY <1>1, <1>10, SlotFacts DEF NoOrphan
  <2>2. CASE t # e.slot
    BY <1>3, <2>1, <2>2 DEF Accounted
  <2>3. CASE t = e.slot /\ e.action = "delete"
    BY <1>8, <2>1, <2>3 DEF Accounted, Earned
  <2>4. CASE t = e.slot /\ e.action # "delete"
    <3>1. cloud[t] = e.id
      BY <1>9, <1>10, <2>1, <2>4 DEF Accounted, NoId
    <3>2. stored'.res[t] = e.id /\ cloud'[t] = cloud[t]
      BY <1>4, <2>4
    <3> QED
      BY <3>1, <3>2 DEF Accounted
  <2> QED
    BY <2>2, <2>3, <2>4
<1>11. ASSUME zone.by # NoId
       PROVE  Accounted(Dns, zone.by)'
  <2>1. Accounted(Dns, zone.by) /\ Dns \in Slots
    BY <1>1, <1>11, SlotFacts DEF NoOrphan
  <2>2. CASE e.slot # Dns
    BY <1>3, <2>1, <2>2 DEF Accounted
  <2>3. CASE e.slot = Dns /\ e.action = "delete"
    BY <1>11, <2>3 DEF Earned
  <2>4. CASE e.slot = Dns /\ e.action # "delete"
    BY <1>4, <1>9, <1>11, <2>1, <2>4 DEF Accounted
  <2> QED
    BY <2>2, <2>3, <2>4
<1>12. \A o \in ops' : ~OnOurs(o)'
  BY NothingInFlight DEF InFlight, OnOurs
<1>13. NoOrphan'
  BY <1>10, <1>11, <1>12 DEF NoOrphan
<1> QED
  BY <1>5, <1>6, <1>7, <1>13 DEF CloudAgrees

LEMMA CloudRecord ==
  ASSUME IInv, NEW p \in Proc, RecordOperation(p) \/ RecordReceipt(p)
  PROVE  CloudKept'
<1> USE DEF files, outside
<1> DEFINE m == proc[p].mem
           e == stored.pending
<1>1. proc[p].pc \in Executing /\ proc[p].pc \notin Unlocked
  BY DEF RecordOperation, RecordReceipt, Executing, Unlocked
<1>2. /\ m.pending = e /\ m.res = stored.res /\ m.destroy = stored.destroy
      /\ HasPending(stored)
  BY <1>1, HolderFacts
<1>3. m \in State /\ e \in Effect /\ e.slot \in Slots
      /\ m.res \in [Slots -> Nat] /\ m.destroy \in ActiveDestroy
      /\ proc \in [Proc -> Process] /\ proc[p] \in Process
  BY <1>2, ProcessFields, PendingFacts DEF IInv, Discipline, TypeOK
<1>4. UNCHANGED <<lastId, cloud, ops, zone>>
  BY DEF RecordOperation, RecordReceipt
<1>5. CASE RecordOperation(p)
  <2> DEFINE s == [m EXCEPT !.pending.op = TRUE]
  <2>1. SameAccount(s, m)
    BY <1>2, <1>3 DEF SameAccount, State, Effect
  <2>2. WriteState(p, s, "poll") /\ "poll" \in Silent
    BY <1>5 DEF RecordOperation, Silent, Steps
  <2> HIDE DEF s
  <2> QED
    BY <1>1, <1>4, <2>1, <2>2, QuietWrite
<1>6. CASE RecordReceipt(p)
  <2> DEFINE s == ApplyReceipt(m)
  <2>1. /\ s.pending = NoEffect
        /\ s.res = [stored.res EXCEPT ![e.slot] =
                      IF e.action = "delete" THEN NoId ELSE e.id]
    BY <1>2, <1>3 DEF ApplyReceipt, State
  <2>2. \/ Quit(p) /\ UNCHANGED stored
        \/ /\ Accepted(e)
           /\ \/ WriteLast(p, s)
              \/ \E step \in {"targets", "effects"} : WriteState(p, s, step)
    BY <1>2, <1>6 DEF RecordReceipt, Accepted
  <2> HIDE DEF s
  <2>3. CASE Quit(p) /\ UNCHANGED stored
    BY <1>4, <2>3, QuietQuit
  <2>4. CASE ~(Quit(p) /\ UNCHANGED stored)
    <3>1. /\ Accepted(e) /\ stored' = s
          /\ \/ Quit(p)
             \/ \E step \in {"targets", "effects"} :
                  proc' = [proc EXCEPT ![p].pc = step, ![p].mem = s]
      BY <2>2, <2>4 DEF WriteLast, WriteState
    <3>2. Earned("receipt", e)
      BY <1>6 DEF RecordReceipt, IInv, ReceiptIsEarned
    <3>3. CloudAgrees'
      BY <1>2, <1>4, <2>1, <3>1, <3>2, ReceiptBalances
    <3>4. /\ proc'[p].pc \notin {"deleting", "receipt"}
          /\ \A q \in Proc : q # p => proc'[q] = proc[q]
      <4>1. CASE Quit(p)
        BY <4>1, EndFacts
      <4>2. ASSUME NEW step \in {"targets", "effects"},
                   proc' = [proc EXCEPT ![p].pc = step, ![p].mem = s]
            PROVE  /\ proc'[p].pc \notin {"deleting", "receipt"}
                   /\ \A q \in Proc : q # p => proc'[q] = proc[q]
        BY <1>3, <4>2 DEF Process
      <4> QED
        BY <3>1, <4>1, <4>2
    <3>5. ReceiptIsEarned'
      BY <1>1, <3>4, HolderEarns DEF Earned
    <3> QED
      BY <3>3, <3>5 DEF CloudKept
  <2> QED
    BY <2>3, <2>4
<1> QED
  BY <1>5, <1>6

-----------------------------------------------------------------------------
(***************************************************************************)
(* Every other step.                                                       *)
(***************************************************************************)

(* A command that is opened, or moves on without a write. *)
LEMMA CloudOpen ==
  ASSUME IInv, NEW p \in Proc,
         \/ DeployPlan(p) \/ ApplyObserve(p) \/ ApplyFound(p)
         \/ ApplyNotFound(p) \/ ApplyRefused(p) \/ ApplyOpenFresh(p)
         \/ WritePlanFile(p) \/ ConnectInstall(p)
         \/ \E cmd \in {"resume", "pending_only"} : Resume(p, cmd)
         \/ \E purge \in BOOLEAN : ShowDestroyPlan(p, purge)
                                   \/ OpenDestroy(p, purge)
  PROVE  CloudKept'
<1> USE DEF files, outside
<1>1. UNCHANGED <<stored, lastId, cloud, ops, zone>>
  BY DEF DeployPlan, ApplyObserve, ApplyFound, ApplyNotFound, ApplyRefused,
         ApplyOpenFresh, WritePlanFile, ConnectInstall, Resume,
         ShowDestroyPlan, OpenDestroy
<1>2. proc \in [Proc -> Process] /\ proc[p] \in Process
  BY DEF IInv, Discipline, TypeOK
<1>3. ASSUME UNCHANGED proc, proc[p].pc = "idle"
      PROVE  CloudKept'
  BY <1>1, <1>3, QuietStep
<1>4. ASSUME NEW q \in Process, q.pc \notin {"deleting", "receipt"},
             proc' = [proc EXCEPT ![p] = q]
      PROVE  CloudKept'
  BY <1>1, <1>2, <1>4, QuietStep
<1>5. ASSUME NEW step \in Silent, proc'[p].pc = step,
             \A q \in Proc : q # p => proc'[q] = proc[q]
      PROVE  CloudKept'
  BY <1>1, <1>5, QuietStep DEF Silent
<1>6. ASSUME NEW step \in Silent, Goto(p, step)
      PROVE  CloudKept'
  BY <1>1, <1>6, QuietGoto
<1>7. CASE Quit(p)
  BY <1>1, <1>7, QuietQuit
<1> HIDE DEF files, outside
<1>8. CASE DeployPlan(p)
  BY <1>3, <1>8 DEF DeployPlan
<1>9. CASE ApplyObserve(p)
  <2>1. proc'[p].pc = "observed" /\ \A q \in Proc : q # p => proc'[q] = proc[q]
    BY <1>2, <1>9 DEF ApplyObserve, Idle
  <2> QED
    BY <1>5, <2>1 DEF Silent, Steps, Unlocked
<1>10. CASE ApplyFound(p)
  <2>1. proc'[p].pc = "plan_file" /\ \A q \in Proc : q # p => proc'[q] = proc[q]
    BY <1>2, <1>10 DEF ApplyFound, Process
  <2> QED
    BY <1>5, <2>1 DEF Silent, Steps
<1>11. CASE ApplyNotFound(p)
  <2>1. proc'[p].pc = "fresh" /\ \A q \in Proc : q # p => proc'[q] = proc[q]
    BY <1>2, <1>11 DEF ApplyNotFound, Process
  <2> QED
    BY <1>5, <2>1 DEF Silent, Steps, Unlocked
<1>12. CASE ApplyRefused(p)
  BY <1>7, <1>12 DEF ApplyRefused
<1>13. CASE ApplyOpenFresh(p)
  <2>1. \/ Quit(p)
        \/ /\ proc'[p].pc = "plan_file"
           /\ \A q \in Proc : q # p => proc'[q] = proc[q]
    BY <1>2, <1>13 DEF ApplyOpenFresh, Process
  <2> QED
    BY <1>5, <1>7, <2>1 DEF Silent, Steps
<1>14. CASE WritePlanFile(p)
  BY <1>6, <1>14 DEF WritePlanFile, Silent, Steps
<1>15. CASE ConnectInstall(p)
  <2>1. proc'[p].pc = "linked" /\ \A q \in Proc : q # p => proc'[q] = proc[q]
    BY <1>2, <1>15 DEF ConnectInstall, Idle
  <2> QED
    BY <1>5, <2>1 DEF Silent, Steps
<1>16. CASE \E cmd \in {"resume", "pending_only"} : Resume(p, cmd)
  <2>1. proc'[p].pc = "resume" /\ \A q \in Proc : q # p => proc'[q] = proc[q]
    BY <1>2, <1>16 DEF Resume, Idle
  <2> QED
    BY <1>5, <2>1 DEF Silent, Steps
<1>17. CASE \E purge \in BOOLEAN : ShowDestroyPlan(p, purge)
  BY <1>3, <1>17 DEF ShowDestroyPlan
<1>18. CASE \E purge \in BOOLEAN : OpenDestroy(p, purge)
  <2>1. proc'[p].pc = "destroy" /\ \A q \in Proc : q # p => proc'[q] = proc[q]
    <3>1. PICK purge \in BOOLEAN : OpenDestroy(p, purge)
      BY <1>18
    <3> QED
      BY <1>2, <3>1 DEF OpenDestroy, Idle
  <2> QED
    BY <1>5, <2>1 DEF Silent, Steps
<1> QED
  BY <1>8, <1>9, <1>10, <1>11, <1>12, <1>13, <1>14, <1>15, <1>16, <1>17, <1>18

(* A step of the lock holder that writes nothing. *)
LEMMA CloudMoveOn ==
  ASSUME IInv, NEW p \in Proc,
         \/ ResumePlan(p) \/ RevalidateHost(p) \/ InstallHost(p)
         \/ CompleteProduct(p) \/ InstallConnectStep(p) \/ VerifyHost(p)
         \/ VerifyHttp(p) \/ VerifyConnect(p) \/ UninstallConnect(p) \/ Abort(p)
  PROVE  CloudKept'
<1> USE DEF files, outside
<1>1. UNCHANGED <<stored, lastId, cloud, ops, zone>>
  BY DEF ResumePlan, RevalidateHost, InstallHost, CompleteProduct,
         InstallConnectStep, VerifyHost, VerifyHttp, VerifyConnect,
         UninstallConnect, Abort
<1> HIDE DEF files, outside
<1>2. proc \in [Proc -> Process] /\ proc[p] \in Process
  BY DEF IInv, Discipline, TypeOK
<1>3. ASSUME NEW step \in Silent, Goto(p, step)
      PROVE  CloudKept'
  BY <1>1, <1>3, QuietGoto
<1>4. CASE Quit(p)
  BY <1>1, <1>4, QuietQuit
<1>5. CASE ResumePlan(p)
  BY <1>3, <1>4, <1>5 DEF ResumePlan, Silent, Steps
<1>6. CASE RevalidateHost(p) \/ InstallHost(p)
  BY <1>3, <1>4, <1>6 DEF RevalidateHost, InstallHost, Silent, Steps
<1>7. CASE CompleteProduct(p)
  BY <1>3, <1>4, <1>7 DEF CompleteProduct, Silent, Steps
<1>8. CASE InstallConnectStep(p)
  BY <1>3, <1>4, <1>8 DEF InstallConnectStep, Silent, Steps
<1>9. CASE UninstallConnect(p)
  <2>1. CASE proc[p].mem.installed
    <3>1. /\ proc'[p].pc = "destroyed"
          /\ \A q \in Proc : q # p => proc'[q] = proc[q]
      BY <1>2, <1>9, <2>1 DEF UninstallConnect, Process
    <3> QED
      BY <1>1, <3>1, QuietStep
  <2>2. CASE ~proc[p].mem.installed
    BY <1>3, <1>9, <2>2 DEF UninstallConnect, Silent, Steps
  <2> QED
    BY <2>1, <2>2
<1>10. CASE Abort(p)
  BY <1>4, <1>10 DEF Abort
<1>11. CASE VerifyHost(p)
  <2>1. CASE Begin(p)
    <3>1. /\ proc'[p].pc = "reach"
          /\ \A q \in Proc : q # p => proc'[q] = proc[q]
      BY <1>2, <2>1 DEF Begin, Process
    <3> QED
      BY <1>1, <3>1, QuietStep
  <2> QED
    BY <1>4, <1>11, <2>1 DEF VerifyHost
<1>12. CASE VerifyHttp(p) \/ VerifyConnect(p)
  BY <1>3, <1>4, <1>12 DEF VerifyHttp, VerifyConnect, Silent, Steps
<1> QED
  BY <1>5, <1>6, <1>7, <1>8, <1>9, <1>10, <1>11, <1>12

(* A write of a command that changes neither resources nor journal. *)
LEMMA CloudWrite ==
  ASSUME IInv, NEW p \in Proc,
         \/ WriteApplying(p) \/ WriteInstalled(p) \/ WriteWiring(p)
         \/ WriteComplete(p) \/ WriteLinked(p) \/ BeginDestroy(p)
         \/ WriteDestroyed(p)
  PROVE  CloudKept'
<1> USE DEF files, outside
<1>1. UNCHANGED <<lastId, cloud, ops, zone>>
  BY DEF WriteApplying, WriteInstalled, WriteWiring, WriteComplete, WriteLinked,
         BeginDestroy, WriteDestroyed
<1>2. proc[p].pc \notin Unlocked
  BY DEF WriteApplying, WriteInstalled, WriteWiring, WriteComplete, WriteLinked,
         BeginDestroy, WriteDestroyed, Unlocked
<1> HIDE DEF files, outside
<1> DEFINE m == proc[p].mem
<1>3. m \in State
  BY ProcessFields DEF IInv, Discipline
<1>4. ASSUME NEW s, s.res = m.res, s.pending = m.pending,
             WriteLast(p, s) \/ \E step \in Silent : WriteState(p, s, step)
      PROVE  CloudKept'
  BY <1>1, <1>2, <1>4, QuietWrite DEF SameAccount
<1>5. CASE WriteApplying(p)
  <2> DEFINE s == IF m.phase = "none" THEN FreshState(proc[p].plan)
                  ELSE [m EXCEPT !.phase = "applying", !.plan = proc[p].plan]
  <2>1. ASSUME m.phase = "none"
        PROVE  s.res = m.res /\ s.pending = m.pending
    <3>1. SameRecord(m, stored)
      BY <1>2, MemoryIsSound DEF IInv
    <3>2. m.res = NoTargets /\ m.pending = NoEffect
      BY <2>1, <3>1 DEF SameRecord, IInv, Discipline, StoredIsValid, NoState
    <3> QED
      BY <2>1, <3>2 DEF FreshState, NoState
  <2>2. s.res = m.res /\ s.pending = m.pending
    BY <1>3, <2>1 DEF State, FreshState, NoState
  <2>3. WriteState(p, s, "resume") /\ "resume" \in Silent
    BY <1>5 DEF WriteApplying, Silent, Steps
  <2> HIDE DEF s
  <2> QED
    BY <1>4, <2>2, <2>3
<1>6. CASE WriteInstalled(p)
  <2> DEFINE s == [m EXCEPT !.receipt = TRUE, !.phase = "installed"]
  <2>1. s.res = m.res /\ s.pending = m.pending
    BY <1>3 DEF State
  <2>2. WriteState(p, s, "product") /\ "product" \in Silent
    BY <1>6 DEF WriteInstalled, Silent, Steps
  <2> HIDE DEF s
  <2> QED
    BY <1>4, <2>1, <2>2
<1>7. CASE WriteWiring(p)
  <2> DEFINE s == [m EXCEPT !.installed = TRUE]
  <2>1. s.res = m.res /\ s.pending = m.pending
    BY <1>3 DEF State
  <2>2. WriteState(p, s, "verify") /\ "verify" \in Silent
    BY <1>7 DEF WriteWiring, Silent, Steps
  <2> HIDE DEF s
  <2> QED
    BY <1>4, <2>1, <2>2
<1>8. CASE WriteComplete(p)
  <2> DEFINE s == [m EXCEPT !.phase = "complete"]
  <2>1. s.res = m.res /\ s.pending = m.pending
    BY <1>3 DEF State
  <2>2. WriteLast(p, s)
    BY <1>8 DEF WriteComplete
  <2> HIDE DEF s
  <2> QED
    BY <1>4, <2>1, <2>2
<1>9. CASE WriteLinked(p)
  <2> DEFINE s == [m EXCEPT !.requested = TRUE, !.installed = TRUE]
  <2>1. s.res = m.res /\ s.pending = m.pending
    BY <1>3 DEF State
  <2>2. WriteLast(p, s)
    BY <1>9 DEF WriteLinked
  <2> HIDE DEF s
  <2> QED
    BY <1>4, <2>1, <2>2
<1>10. CASE BeginDestroy(p)
  <2> DEFINE s == [m EXCEPT !.phase = "destroying", !.destroy = ActiveDestroyOf(
                               DestroyPlanOf(m, proc[p].cmd = "purge"))]
  <2>1. s.res = m.res /\ s.pending = m.pending
    BY <1>3 DEF State
  <2>2. \/ UNCHANGED stored /\ \E step \in {"pending", "targets"} : Goto(p, step)
        \/ WriteState(p, s, "targets")
    BY <1>10 DEF BeginDestroy
  <2> HIDE DEF s
  <2>3. {"pending", "targets"} \subseteq Silent
    BY DEF Silent, Steps
  <2> QED
    BY <1>1, <1>4, <2>1, <2>2, <2>3, QuietGoto
<1>11. CASE WriteDestroyed(p)
  <2> DEFINE s == [m EXCEPT !.phase = "destroyed", !.destroy = NoDestroy,
                            !.receipt = FALSE]
  <2>1. s.res = m.res /\ s.pending = m.pending
    BY <1>3 DEF State
  <2>2. WriteLast(p, s)
    BY <1>11 DEF WriteDestroyed
  <2> HIDE DEF s
  <2> QED
    BY <1>4, <2>1, <2>2
<1> QED
  BY <1>5, <1>6, <1>7, <1>8, <1>9, <1>10, <1>11

(* The steps that journal an effect, or find none to journal. *)
LEMMA CloudNextEffect ==
  ASSUME IInv, NEW p \in Proc,
         NextEffect(p) \/ ResolveDns(p) \/ NextTarget(p)
  PROVE  CloudKept'
<1> USE DEF files, outside
<1>1. UNCHANGED <<cloud, ops, zone>>
  BY DEF NextEffect, ResolveDns, NextTarget
<1> HIDE DEF files, outside
<1>2. proc[p].pc \in Journaling /\ proc[p].pc \notin Unlocked
  BY DEF NextEffect, ResolveDns, NextTarget, Journaling, Unlocked
<1>3. /\ proc[p].mem \in State /\ proc[p].mem.res = stored.res
      /\ stored.res \in [Slots -> Nat] /\ lastId \in Nat
      /\ proc[p].plan.cur \in DnsValues /\ "node" \in DnsValues
      /\ "absent" \in DnsValues
      /\ \A t \in Slots : stored.res[t] <= lastId
      /\ NoId \in Nat /\ NoId <= lastId
  BY <1>2, HolderFacts, ProcessFields, StoredFields
     DEF IInv, Discipline, TypeOK, Plan, DnsValues, CloudAgrees, IdsAreFresh, NoId
<1>4. ASSUME NEW action \in {"create", "update", "delete"}, NEW t \in Slots,
             NEW target \in Nat, NEW cur \in DnsValues,
             JournalEffect(p, action, t, target, cur),
             action = "update" => t = Dns, target <= lastId
      PROVE  CloudKept'
  BY <1>1, <1>2, <1>4, CloudJournalEffect
<1>5. ASSUME NEW step \in {"dns", "host", "uninstall"}, Goto(p, step),
             UNCHANGED <<stored, lastId>>
      PROVE  CloudKept'
  BY <1>1, <1>5, QuietGoto DEF Silent, Steps
<1>6. CASE NextEffect(p)
  <2>1. \/ Goto(p, "dns") /\ UNCHANGED <<stored, lastId>>
        \/ \E t \in Slots :
             LET cur == IF t = Dns THEN proc[p].plan.cur ELSE "absent" IN
             JournalEffect(p, IF t = Dns THEN DnsAction(cur) ELSE "create", t,
                           NoId, cur)
    BY <1>6 DEF NextEffect
  <2>2. ASSUME NEW t \in Slots, NEW cur \in DnsValues, NEW action,
               action = IF t = Dns THEN DnsAction(cur) ELSE "create",
               JournalEffect(p, action, t, NoId, cur)
        PROVE  CloudKept'
    <3>1. /\ action \in {"create", "update", "delete"}
          /\ action = "update" => t = Dns
      BY <2>2 DEF DnsAction
    <3> QED
      BY <1>3, <1>4, <2>2, <3>1
  <2> QED
    BY <1>3, <1>5, <2>1, <2>2
<1>7. CASE ResolveDns(p)
  <2> DEFINE s == [proc[p].mem EXCEPT !.phase = "waiting_user"]
  <2>1. \/ WriteLast(p, s) /\ UNCHANGED lastId
        \/ JournalEffect(p, DnsAction(proc[p].plan.cur), Dns, NoId,
                         proc[p].plan.cur)
        \/ Goto(p, "host") /\ UNCHANGED <<stored, lastId>>
    BY <1>7 DEF ResolveDns
  <2>2. s.res = proc[p].mem.res /\ s.pending = proc[p].mem.pending
    BY <1>3 DEF State
  <2> HIDE DEF s
  <2>3. DnsAction(proc[p].plan.cur) \in {"create", "update", "delete"}
    BY DEF DnsAction
  <2>4. CASE WriteLast(p, s) /\ UNCHANGED lastId
    BY <1>1, <1>2, <2>2, <2>4, QuietWrite DEF SameAccount
  <2>5. CASE JournalEffect(p, DnsAction(proc[p].plan.cur), Dns, NoId,
                           proc[p].plan.cur)
    BY <1>3, <1>4, <2>3, <2>5, SlotFacts
  <2> QED
    BY <1>5, <2>1, <2>4, <2>5
<1>8. CASE NextTarget(p)
  <2>1. \/ \E t \in Slots, cur \in {"node", "absent"} :
             JournalEffect(p, "delete", t, stored.res[t], cur)
        \/ Quit(p) /\ UNCHANGED <<stored, lastId>>
        \/ Goto(p, "uninstall") /\ UNCHANGED <<stored, lastId>>
    BY <1>3, <1>8 DEF NextTarget
  <2>2. \A t \in Slots : stored.res[t] \in Nat
    BY <1>3
  <2>3. CASE Quit(p) /\ UNCHANGED <<stored, lastId>>
    BY <1>1, <2>3, QuietQuit
  <2>4. ASSUME NEW t \in Slots, NEW cur \in {"node", "absent"},
               JournalEffect(p, "delete", t, stored.res[t], cur)
        PROVE  CloudKept'
    BY <1>3, <1>4, <2>2, <2>4
  <2> QED
    BY <1>5, <2>1, <2>3, <2>4
<1> QED
  BY <1>6, <1>7, <1>8

-----------------------------------------------------------------------------
(***************************************************************************)
(* The environment.                                                        *)
(***************************************************************************)

(* Between the check of a delete and its request. *)
LEMMA DeletingFacts ==
  ASSUME IInv, NEW p \in Proc, proc[p].pc = "deleting"
  PROVE  stored.pending.slot \in Created
<1>1. proc[p].pc \notin Unlocked /\ proc[p].pc \in Executing
  BY DEF Unlocked, Executing
<1>2. HasPending(stored) /\ stored.pending.slot # Dns
  BY <1>1, HolderFacts
<1> QED
  BY <1>2, PendingFacts DEF Slots

(* What an operation says of its target. *)
LEMMA OperationFacts ==
  ASSUME IInv, NEW o \in ops
  PROVE  /\ o.id \in 1..lastId /\ lastId \in Nat /\ o.slot \in Slots
         /\ o.slot # Dns => o.slot \in Created
         /\ o.slot # Dns => o.action \in {"create", "delete"}
         /\ (o.slot # Dns /\ o.action = "delete") =>
              o.target \in 1..(lastId - 1) \/ Strayed(o)
<1>1. /\ o \in Operation /\ lastId \in Nat /\ o.id \in 1..lastId
      /\ o.slot # Dns =>
           /\ o.action \in {"create", "delete"}
           /\ o.action = "delete" => o.target \in 1..(o.id - 1) \/ Strayed(o)
  BY DEF IInv, Discipline, TypeOK, CloudAgrees, IdsAreFresh,
         OperationsAreEffects
<1>2. o.slot \in Slots /\ (o.slot # Dns => o.slot \in Created)
  BY <1>1 DEF Operation, Slots
<1> QED
  BY <1>1, <1>2

(* An operation ends, with its effect on the cloud or without. *)
LEMMA CloudOperationEnds ==
  ASSUME IInv, NEW o \in ops, o.st = "running", NEW n,
         n.id = o.id, n.slot = o.slot, n.action = o.action,
         n.target = o.target, n.st # "running",
         ops' = (ops \ {o}) \cup {n},
         UNCHANGED <<stored, lastId, zone, proc>>,
         \/ UNCHANGED cloud
         \/ /\ o.slot # Dns /\ o.action = "create"
            /\ cloud' = [cloud EXCEPT ![o.slot] = o.id]
         \/ /\ o.slot # Dns /\ o.action = "delete" /\ cloud[o.slot] = o.target
            /\ cloud' = [cloud EXCEPT ![o.slot] = NoId]
  PROVE  CloudKept'
<1> DEFINE e == stored.pending
<1>1. /\ IdsAreFresh /\ OperationsAreEffects /\ ZoneIsOurs /\ NoOrphan
      /\ cloud \in [Created -> Nat \cup {Foreign}]
  BY DEF IInv, CloudAgrees, Discipline, TypeOK
<1>2. IdsAreFresh'
  <2>1. \A q \in ops' : q.id \in 1..lastId'
    BY <1>1 DEF IdsAreFresh
  <2>2. \A o1, o2 \in ops' : o1.id = o2.id => o1 = o2
    BY <1>1 DEF IdsAreFresh
  <2> QED
    BY <1>1, <2>1, <2>2 DEF IdsAreFresh
<1>3. OperationsAreEffects'
  <2>1. \A q \in ops' : \E r \in ops :
          /\ q.id = r.id /\ q.slot = r.slot
          /\ q.action = r.action /\ q.target = r.target
    OBVIOUS
  <2> QED
    BY <1>1, <2>1 DEF OperationsAreEffects, HasPending, Strayed
<1>4. ZoneIsOurs'
  BY <1>1 DEF ZoneIsOurs
\* If the cloud moves, the operation was the journaled effect's, or a delete
\* that took what somebody put in place after its check.
<1>5. ASSUME ~UNCHANGED cloud, o.action = "create" \/ o.target # Foreign
      PROVE  /\ o.slot # Dns /\ o.slot \in Created
             /\ e.id = o.id /\ e.slot = o.slot /\ e.action = o.action
             /\ e.id = lastId /\ HasPending(stored)
  <2>1. OnOurs(o)
    BY <1>5 DEF InFlight, OnOurs
  <2>2. e.id = o.id /\ e.slot = o.slot /\ e.action = o.action
    BY <1>1, <2>1 DEF NoOrphan
  <2>3. o.slot # Dns /\ o.slot \in Created
        /\ o.action \in {"create", "delete"}
    BY <2>1, OperationFacts DEF InFlight, OnOurs
  <2>4. HasPending(stored)
    BY <2>2, <2>3 DEF HasPending
  <2> QED
    BY <1>1, <2>2, <2>3, <2>4 DEF IdsAreFresh
<1>6. \A t \in Created :
        /\ cloud'[t] \in Int
        /\ (cloud'[t] # cloud[t]) =>
             /\ t = o.slot /\ ~UNCHANGED cloud
             /\ \/ /\ o.action = "create" \/ o.target # Foreign
                   /\ cloud'[t] = IF o.action = "create" THEN lastId ELSE NoId
                \/ o.action = "delete" /\ Strayed(o) /\ cloud'[t] = NoId
  <2>1. CASE UNCHANGED cloud
    BY <1>1, <2>1 DEF Foreign
  <2>2. CASE ~UNCHANGED cloud /\ (o.action = "create" \/ o.target # Foreign)
    BY <1>1, <1>5, <2>2, OperationFacts DEF Foreign, NoId
  <2>3. CASE ~UNCHANGED cloud /\ o.action = "delete" /\ o.target = Foreign
    <3>1. Strayed(o) /\ o.slot \in Created
      BY <2>3, OperationFacts DEF Foreign
    <3> QED
      BY <1>1, <2>3, <3>1 DEF Foreign, NoId
  <2> QED
    BY <2>1, <2>2, <2>3
<1>7. NoOrphan'
  <2>1. ASSUME NEW t \in Created, cloud'[t] > NoId
        PROVE  Accounted(t, cloud[t])'
    <3>1. CASE cloud'[t] = cloud[t]
      <4>1. Accounted(t, cloud[t])
        BY <1>1, <2>1, <3>1 DEF NoOrphan
      <4> QED
        BY <3>1, <4>1 DEF Accounted
    <3>2. CASE cloud'[t] # cloud[t]
      <4>1. /\ t = o.slot /\ ~UNCHANGED cloud
            /\ o.action = "create" /\ cloud'[t] = lastId
        BY <1>6, <2>1, <3>2 DEF NoId
      <4>2. e.slot = t /\ e.action = "create" /\ e.id = lastId
        BY <1>5, <4>1
      <4> QED
        BY <4>1, <4>2 DEF Accounted
    <3> QED
      BY <3>1, <3>2
  <2>2. zone'.by # NoId => Accounted(Dns, zone.by)'
    BY <1>1 DEF NoOrphan, Accounted
  <2>3. ASSUME NEW q \in ops', OnOurs(q)'
        PROVE  e.id = q.id /\ e.slot = q.slot /\ e.action = q.action
    <3>1. q \in ops /\ q # o /\ q.st = "running" /\ q.slot # Dns
      BY <2>3 DEF InFlight, OnOurs
    <3>2. OnOurs(q)
      <4>1. CASE q.action = "create"
        BY <3>1, <4>1 DEF InFlight, OnOurs
      <4>2. CASE q.action # "create"
        <5>1. cloud'[q.slot] = q.target /\ q.action = "delete"
              /\ q.slot \in Created /\ q.target \in 1..(lastId - 1)
              /\ lastId \in Nat
          BY <2>3, <3>1, <4>2, OperationFacts DEF InFlight, OnOurs, Strayed
        <5>2. cloud'[q.slot] = cloud[q.slot]
          BY <1>6, <5>1 DEF NoId
        <5> QED
          BY <2>3, <3>1, <4>2, <5>1, <5>2 DEF InFlight, OnOurs
      <4> QED
        BY <4>1, <4>2
    <3> QED
      BY <1>1, <3>1, <3>2 DEF NoOrphan
  <2> QED
    BY <2>1, <2>2, <2>3 DEF NoOrphan
<1>8. ASSUME NEW q \in Proc
      PROVE  Earned(proc[q].pc, stored.pending)'
  <2>1. Earned(proc[q].pc, e)
    BY DEF IInv, ReceiptIsEarned
  <2>2. proc[q].pc = "deleting" =>
          \/ cloud'[e.slot] = e.target \/ Requested(e)'
          \/ RaceDelete /\ cloud'[e.slot] \in {NoId, Foreign}
    <3>1. Requested(e) => Requested(e)'
      BY DEF Requested
    <3>2. CASE ~UNCHANGED cloud /\ (o.action = "create" \/ o.target # Foreign)
      BY <1>5, <3>2 DEF Requested
    <3>3. CASE /\ ~UNCHANGED cloud /\ o.action = "delete" /\ o.target = Foreign
               /\ proc[q].pc = "deleting"
      <4>1. RaceDelete /\ o.slot \in Created
        BY <3>3, OperationFacts DEF Foreign, Strayed
      <4>2. e.slot \in Created
        BY <3>3, DeletingFacts
      <4>3. cloud'[e.slot] = cloud[e.slot] \/ cloud'[e.slot] = NoId
        BY <1>1, <3>3, <4>1, <4>2
      <4> QED
        BY <2>1, <3>1, <3>3, <4>1, <4>3 DEF Earned
    <3>4. CASE UNCHANGED cloud
      BY <2>1, <3>1, <3>4 DEF Earned
    <3> QED
      BY <3>2, <3>3, <3>4
  <2>3. (proc[q].pc = "receipt" /\ e.action = "create" /\ e.slot # Dns) =>
          \E r \in ops' : r.id = e.id /\ r.st # "running"
    BY <2>1 DEF Earned
  <2>4. (proc[q].pc = "receipt" /\ e.action = "delete") =>
          IF e.slot = Dns THEN zone'.by = NoId ELSE cloud'[e.slot] # e.target
    <3>1. CASE UNCHANGED cloud
      BY <2>1, <3>1 DEF Earned
    <3>2. ASSUME ~UNCHANGED cloud, o.action = "create" \/ o.target # Foreign,
                 e.action = "delete"
          PROVE  e.slot # Dns /\ cloud'[e.slot] = NoId /\ e.target > NoId
      <4>1. /\ e.slot = o.slot /\ e.slot # Dns /\ o.action = "delete"
            /\ o.slot \in Created /\ HasPending(stored)
        BY <1>5, <3>2
      <4>2. cloud'[e.slot] = NoId
        BY <1>1, <3>2, <4>1
      <4> QED
        BY <3>2, <4>1, <4>2, PendingFacts DEF NoId
    <3>3. ASSUME ~UNCHANGED cloud, o.action = "delete" /\ o.target = Foreign,
                 e.action = "delete", e.slot # Dns
          PROVE  cloud'[e.slot] # e.target \/ cloud'[e.slot] = cloud[e.slot]
      <4>1. HasPending(stored) /\ o.slot \in Created
        BY <3>3, OperationFacts DEF HasPending
      <4>2. e.target > 0 /\ e.slot \in Created
        BY <3>3, <4>1, PendingFacts DEF Slots
      <4>3. cloud'[e.slot] = cloud[e.slot] \/ cloud'[e.slot] = NoId
        BY <1>1, <3>3, <4>1, <4>2
      <4> QED
        BY <4>2, <4>3 DEF NoId
    <3> QED
      BY <2>1, <3>1, <3>2, <3>3 DEF NoId, Earned
  <2> QED
    BY <2>2, <2>3, <2>4 DEF Earned
<1> QED
  BY <1>2, <1>3, <1>4, <1>7, <1>8 DEF CloudKept, CloudAgrees, ReceiptIsEarned

(* Somebody else removes resources and records, or puts foreign ones in    *)
(* their place, also between the check of a delete and its request.        *)
LEMMA CloudTampered ==
  ASSUME IInv, UNCHANGED <<stored, lastId, ops, proc>>,
         cloud' \in [Created -> Nat \cup {Foreign}],
         \A t \in Created : cloud'[t] = cloud[t] \/ cloud'[t] \in {NoId, Foreign},
         zone' = zone \/ zone'.by = NoId,
         \/ UNCHANGED cloud \/ RaceDelete
         \/ \A p \in Proc : proc[p].pc # "deleting"
  PROVE  CloudKept'
<1> DEFINE e == stored.pending
<1>1. /\ IdsAreFresh /\ OperationsAreEffects /\ ZoneIsOurs /\ NoOrphan
      /\ cloud \in [Created -> Nat \cup {Foreign}]
  BY DEF IInv, CloudAgrees, Discipline, TypeOK
<1>2. IdsAreFresh' /\ OperationsAreEffects' /\ ZoneIsOurs'
  BY <1>1 DEF IdsAreFresh, OperationsAreEffects, ZoneIsOurs, HasPending
<1>3. \A t \in Created : /\ cloud'[t] \in Int
                         /\ cloud'[t] > NoId => cloud'[t] = cloud[t]
  BY DEF NoId, Foreign
<1>4. NoOrphan'
  <2>1. ASSUME NEW t \in Created, cloud'[t] > NoId
        PROVE  Accounted(t, cloud[t])'
    <3>1. cloud'[t] = cloud[t] /\ Accounted(t, cloud[t])
      BY <1>1, <1>3, <2>1 DEF NoOrphan
    <3> QED
      BY <3>1 DEF Accounted
  <2>2. zone'.by # NoId => Accounted(Dns, zone.by)'
    BY <1>1 DEF NoOrphan, Accounted
  <2>3. ASSUME NEW o \in ops', OnOurs(o)'
        PROVE  e.id = o.id /\ e.slot = o.slot /\ e.action = o.action
    <3>1. OnOurs(o)
      <4>1. CASE o.action = "create"
        BY <2>3, <4>1 DEF InFlight, OnOurs
      <4>2. CASE o.action # "create"
        <5>1. /\ o \in ops /\ o.st = "running" /\ o.slot # Dns
              /\ cloud'[o.slot] = o.target /\ o.target # Foreign
          BY <2>3, <4>2 DEF InFlight, OnOurs
        <5>2. o.slot \in Created /\ o.target > NoId
          BY <4>2, <5>1, OperationFacts DEF NoId, Strayed
        <5>3. cloud[o.slot] = o.target
          BY <1>3, <5>1, <5>2
        <5> QED
          BY <5>1, <5>3 DEF InFlight, OnOurs
      <4> QED
        BY <4>1, <4>2
    <3> QED
      BY <1>1, <2>3, <3>1 DEF NoOrphan
  <2> QED
    BY <2>1, <2>2, <2>3 DEF NoOrphan
<1>5. ASSUME NEW q \in Proc
      PROVE  Earned(proc[q].pc, stored.pending)'
  <2>1. Earned(proc[q].pc, e)
    BY DEF IInv, ReceiptIsEarned
  <2>2. proc[q].pc = "deleting" =>
          \/ cloud'[e.slot] = e.target \/ Requested(e)'
          \/ RaceDelete /\ cloud'[e.slot] \in {NoId, Foreign}
    <3>1. Requested(e) => Requested(e)'
      BY DEF Requested
    <3>2. CASE UNCHANGED cloud
      BY <2>1, <3>1, <3>2 DEF Earned
    <3>3. CASE proc[q].pc = "deleting" /\ RaceDelete
      <4>1. e.slot \in Created
        BY <3>3, DeletingFacts
      <4> QED
        BY <2>1, <3>1, <3>3, <4>1 DEF Earned
    <3> QED
      BY <3>2, <3>3
  <2>3. (proc[q].pc = "receipt" /\ e.action = "delete") =>
          IF e.slot = Dns THEN zone'.by = NoId ELSE cloud'[e.slot] # e.target
    <3>1. CASE e.slot = Dns
      BY <2>1, <3>1 DEF Earned
    <3>2. ASSUME e.slot # Dns, e.action = "delete", cloud[e.slot] # e.target
          PROVE  cloud'[e.slot] # e.target
      <4>1. HasPending(stored) /\ e.slot \in Slots \ {Dns} /\ e.target > 0
        BY <3>2, PendingFacts DEF HasPending
      <4>2. e.slot \in Created
        BY <4>1 DEF Slots
      <4> QED
        BY <1>3, <3>2, <4>1, <4>2 DEF NoId
    <3> QED
      BY <2>1, <3>1, <3>2 DEF Earned
  <2> QED
    BY <2>1, <2>2, <2>3 DEF Earned
<1> QED
  BY <1>2, <1>4, <1>5 DEF CloudKept, CloudAgrees, ReceiptIsEarned

LEMMA CloudEnvironment ==
  ASSUME IInv, Environment
  PROVE  CloudKept'
<1> USE DEF files, outside
<1>1. /\ cloud \in [Created -> Nat \cup {Foreign}]
      /\ \A o \in ops : o \in Operation
  BY DEF IInv, Discipline, TypeOK
<1>2. CASE \E o \in ops : OperationDone(o)
  <2>1. PICK o \in ops : OperationDone(o)
    BY <1>2
  <2> DEFINE taken == o.slot # Dns /\ o.action = "create" /\ cloud[o.slot] # NoId
             n == [o EXCEPT !.st = IF taken THEN "failed" ELSE "done"]
  <2>2. /\ n.id = o.id /\ n.slot = o.slot /\ n.action = o.action
        /\ n.target = o.target /\ n.st # "running"
    BY <1>1 DEF Operation
  <2>3. /\ o.st = "running" /\ ops' = (ops \ {o}) \cup {n}
        /\ UNCHANGED <<stored, lastId, zone, proc>>
    BY <2>1 DEF OperationDone
  <2>4. \/ UNCHANGED cloud
        \/ /\ o.slot # Dns /\ o.action = "create"
           /\ cloud' = [cloud EXCEPT ![o.slot] = o.id]
        \/ /\ o.slot # Dns /\ o.action # "create"
           /\ cloud' = [cloud EXCEPT ![o.slot] = IF @ = o.target THEN NoId ELSE @]
    BY <2>1 DEF OperationDone
  <2>5. \/ UNCHANGED cloud
        \/ /\ o.slot # Dns /\ o.action = "create"
           /\ cloud' = [cloud EXCEPT ![o.slot] = o.id]
        \/ /\ o.slot # Dns /\ o.action = "delete" /\ cloud[o.slot] = o.target
           /\ cloud' = [cloud EXCEPT ![o.slot] = NoId]
    BY <1>1, <2>4, OperationFacts
  <2> HIDE DEF n
  <2> QED
    BY <2>2, <2>3, <2>5, CloudOperationEnds
<1>3. CASE \E o \in ops : OperationFails(o)
  <2>1. PICK o \in ops : OperationFails(o)
    BY <1>3
  <2> DEFINE n == [o EXCEPT !.st = "failed"]
  <2>2. /\ n.id = o.id /\ n.slot = o.slot /\ n.action = o.action
        /\ n.target = o.target /\ n.st # "running"
    BY <1>1 DEF Operation
  <2>3. /\ o.st = "running" /\ ops' = (ops \ {o}) \cup {n}
        /\ UNCHANGED <<stored, lastId, zone, proc, cloud>>
    BY <2>1 DEF OperationFails
  <2> HIDE DEF n
  <2> QED
    BY <2>2, <2>3, CloudOperationEnds
<1>4. CASE \E s \in Created : Tamper(s)
  <2>1. PICK s \in Created : Tamper(s)
    BY <1>4
  <2>2. /\ UNCHANGED <<stored, lastId, ops, proc, zone>>
        /\ RaceDelete \/ \A p \in Proc : proc[p].pc # "deleting"
        /\ \E id \in {NoId, Foreign} : cloud' = [cloud EXCEPT ![s] = id]
    BY <2>1 DEF Tamper
  <2>3. /\ cloud' \in [Created -> Nat \cup {Foreign}]
        /\ \A t \in Created :
             cloud'[t] = cloud[t] \/ cloud'[t] \in {NoId, Foreign}
    BY <1>1, <2>2 DEF NoId
  <2> QED
    BY <2>2, <2>3, CloudTampered
<1>5. CASE TamperDns \/ OperatorSetsDns
  <2>1. /\ UNCHANGED <<stored, lastId, ops, proc, cloud>>
        /\ zone'.by = NoId
    BY <1>5 DEF TamperDns, OperatorSetsDns, RecordsOfOthers, NoId
  <2> QED
    BY <1>1, <2>1, CloudTampered
<1> QED
  BY <1>2, <1>3, <1>4, <1>5 DEF Environment

LEMMA CloudInit ==
  ASSUME Init
  PROVE  CloudKept
<1>1. IdsAreFresh
  BY DEF Init, IdsAreFresh, NoState, NoEffect, NoTargets, NoId, HasPending
<1>2. OperationsAreEffects /\ ZoneIsOurs
  BY DEF Init, RecordsOfOthers, OperationsAreEffects, ZoneIsOurs, NoState,
         NoEffect, NoId
<1>3. NoOrphan
  BY DEF Init, RecordsOfOthers, NoOrphan, NoId
<1>4. ReceiptIsEarned
  BY DEF Init, ReceiptIsEarned, Earned, Idle
<1> QED
  BY <1>1, <1>2, <1>3, <1>4 DEF CloudKept, CloudAgrees

LEMMA InvariantNext ==
  ASSUME IInv, [Next]_vars
  PROVE  IInv'
<1>1. Discipline'
  BY DisciplineNext DEF IInv
<1>2. CloudKept'
  <2>1. CASE UNCHANGED vars
    <3>1. UNCHANGED <<stored, lastId, ops, proc, cloud, zone>>
      BY <2>1 DEF vars
    <3> QED
      BY <3>1, CloudTampered DEF IInv, Discipline, TypeOK
  <2>2. ASSUME NEW p \in Proc, Start(p)
        PROVE  CloudKept'
    BY <2>2, CloudOpen DEF Start
  <2>3. ASSUME NEW p \in Proc, Step(p)
        PROVE  CloudKept'
    BY <2>3, CloudOpen, CloudMoveOn, CloudWrite, CloudNextEffect, CloudStart,
       CloudRecord DEF Step
  <2>4. ASSUME NEW p \in Proc, Abort(p)
        PROVE  CloudKept'
    BY <2>4, CloudMoveOn
  <2>5. CASE Environment
    BY <2>5, CloudEnvironment
  <2> QED
    BY <2>1, <2>2, <2>3, <2>4, <2>5 DEF Next
<1> QED
  BY <1>1, <1>2 DEF IInv, CloudKept

-----------------------------------------------------------------------------
(***************************************************************************)
(* The invariant holds in every deployment, whatever others do to its      *)
(* resources and its A record, and whenever they do it.                    *)
(***************************************************************************)
THEOREM InvariantHolds == Spec => []IInv
<1>1. Init => IInv
  BY DisciplineInit, CloudInit DEF IInv, CloudKept
<1>2. IInv /\ [Next]_vars => IInv'
  BY InvariantNext
<1> QED
  BY <1>1, <1>2, PTL DEF Spec

(***************************************************************************)
(* Nothing is ever orphaned: a resource in place is recorded or journaled, *)
(* and an operation in flight belongs to the journaled effect              *)
(* (execute_effect and resume_pending in engine.rs).                       *)
(***************************************************************************)
THEOREM NothingOrphaned == Spec => []NoOrphan
<1>1. IInv => NoOrphan
  BY DEF IInv, CloudAgrees
<1> QED
  BY <1>1, InvariantHolds, PTL

(***************************************************************************)
(* A delete in flight removes an approved target of the active destroy,    *)
(* the boot disk only under a purge plan (destroy in engine.rs).           *)
(***************************************************************************)
THEOREM OnlyApprovedDeletes ==
  ASSUME ~RaceDelete
  PROVE  Spec => []DeletesOnlyApproved
<1>1. ASSUME IInv
      PROVE  DeletesOnlyApproved
  <2>1. SUFFICES ASSUME NEW o \in ops, InFlight(o), o.action = "delete"
                 PROVE  /\ stored.destroy.on
                        /\ o.slot \in stored.destroy.left
                        /\ o.target = stored.destroy.plan.target[o.slot]
                        /\ o.slot = Disk => stored.destroy.plan.purge
    BY DEF DeletesOnlyApproved
  <2> DEFINE e == stored.pending
  <2>2. e.id = o.id /\ e.slot = o.slot /\ e.action = "delete"
    <3>1. o.target \in 1..(lastId - 1)
      BY <1>1, <2>1, OperationFacts DEF InFlight, Strayed
    <3>2. OnOurs(o)
      BY <2>1, <3>1 DEF OnOurs, Foreign
    <3> QED
      BY <1>1, <2>1, <3>2 DEF IInv, CloudAgrees, NoOrphan
  <2>3. HasPending(stored) /\ o.slot # Dns
    BY <2>1, <2>2 DEF HasPending, InFlight
  <2>4. e.target = o.target
    BY <1>1, <2>1, <2>2, <2>3 DEF IInv, CloudAgrees, OperationsAreEffects, Strayed
  <2>5. Validate(stored) /\ SoundJournal(stored)
    BY <1>1 DEF IInv, Discipline, StoredIsValid, JournalIsSound
  <2>6. stored.destroy.on
    BY <2>2, <2>5 DEF SoundJournal
  <2>7. PendingMatchesTarget(e, stored.destroy)
    BY <2>3, <2>5, <2>6 DEF Validate, ValidateActiveDestroy
  <2>8. /\ o.slot \in stored.destroy.left
        /\ o.target = stored.destroy.plan.target[o.slot]
    BY <2>2, <2>4, <2>7 DEF PendingMatchesTarget, IsCurrent
  <2>9. o.target # NoId
    BY <1>1, <2>1, <2>3, OperationFacts DEF NoId, Strayed
  <2> QED
    BY <2>5, <2>6, <2>8, <2>9 DEF SoundJournal
<1> QED
  BY <1>1, InvariantHolds, PTL

(***************************************************************************)
(* Once a destroy is recorded no insert is in flight: a resume that loses  *)
(* the race against destroy rebuilds nothing (validate_active_destroy).    *)
(***************************************************************************)
THEOREM NothingRebuilt == Spec => []NoCreateWhileDestroying
<1>1. ASSUME IInv
      PROVE  NoCreateWhileDestroying
  <2>1. SUFFICES ASSUME stored.phase \in {"destroying", "destroyed"},
                        NEW o \in ops, InFlight(o), o.action = "create"
                 PROVE  FALSE
    BY DEF NoCreateWhileDestroying
  <2>2. stored.pending.action = "create" /\ HasPending(stored)
    BY <1>1, <2>1 DEF IInv, CloudAgrees, NoOrphan, OnOurs, HasPending
  <2>3. Validate(stored) /\ SoundJournal(stored)
    BY <1>1 DEF IInv, Discipline, StoredIsValid, JournalIsSound
  <2>4. CASE stored.destroy.on
    BY <2>2, <2>3, <2>4
       DEF Validate, ValidateActiveDestroy, PendingMatchesTarget
  <2>5. CASE ~stored.destroy.on
    BY <2>1, <2>2, <2>3, <2>5 DEF Validate, ValidateEffect, ValidateActiveDestroy
  <2> QED
    BY <2>4, <2>5
<1> QED
  BY <1>1, InvariantHolds, PTL

(***************************************************************************)
(* A destroyed deployment leaves nothing in the cloud but the disk its     *)
(* state records, and no A record of its own (validate_phase and the end   *)
(* of destroy).                                                            *)
(***************************************************************************)
THEOREM CleanWhenDestroyed == Spec => []DestroyedIsClean
<1>1. ASSUME IInv
      PROVE  DestroyedIsClean
  <2>1. SUFFICES ASSUME stored.phase = "destroyed"
                 PROVE  /\ \A t \in Created : cloud[t] > NoId =>
                             t = Disk /\ stored.res[Disk] = cloud[Disk]
                        /\ zone.by = NoId
    BY DEF DestroyedIsClean
  <2>2. ValidatePhase(stored)
    BY <1>1 DEF IInv, Discipline, StoredIsValid, Validate
  <2>3. /\ stored.pending.action = "none"
        /\ \A t \in Slots \ {Disk} : stored.res[t] = NoId
    BY <2>1, <2>2 DEF ValidatePhase, HasPending
  <2>4. /\ \A t \in Created : cloud[t] > NoId => stored.res[t] = cloud[t]
        /\ zone.by # NoId => stored.res[Dns] = zone.by
    BY <1>1, <2>3 DEF IInv, CloudAgrees, NoOrphan, Accounted
  <2>5. Dns \in Slots \ {Disk} /\ Created \subseteq Slots
    BY SlotFacts
  <2> QED
    BY <2>3, <2>4, <2>5 DEF NoId
<1> QED
  BY <1>1, InvariantHolds, PTL
===============================================================================

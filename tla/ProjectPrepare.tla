---------------------------- MODULE ProjectPrepare ----------------------------
(***************************************************************************)
(* `project prepare`: runs that enable the missing prerequisite services   *)
(* of one project, one after the other, and journal every enable in a file *)
(* that a later run resumes.  A run reads the services one by one while    *)
(* Service Usage, its operations and other users of the project go on; it  *)
(* may be killed between any two steps, and the machine may lose power.    *)
(***************************************************************************)
EXTENDS Naturals, FiniteSets

CONSTANTS
  Proc,         \* invocations of the command that may overlap
  Account,      \* the Google accounts they run under
  NumServices,  \* GCP_V01_REQUIRED_SERVICES, by position in the fixed order
  MaxOps,       \* bound on Service Usage operations
  MaxFaults,    \* bounds, by kind: "abort", "fail", "outside", "power"
  MaxInAll,     \* bound on faults of all kinds together
  Nil           \* no file, no approval, no operation, nobody

Service == 1 .. NumServices
NoService == 0
OpId == 1 .. MaxOps
NoOp == 0

Plan == [who : Account, services : SUBSET Service]
State == [plan : Plan, completed : SUBSET Service, pending : Service \cup {NoService},
          op : OpId \cup {NoOp}, complete : BOOLEAN]
Operation == [service : Service, who : Account, status : {"pending", "succeeded", "failed"},
              applied : BOOLEAN]
NoFile == Nil
NoApproval == Nil
None == Nil

ASSUME PrepareAssumption ==
  /\ NumServices \in Nat \ {0}
  /\ MaxOps \in Nat
  /\ MaxFaults \in [{"abort", "fail", "outside", "power"} -> Nat]
  /\ MaxInAll \in Nat
  /\ Nil \notin Plan \cup State \cup Operation

VARIABLES
  file,      \* service-preparation.json as every process reads it
  disk,      \* the version of it that a power loss leaves
  enabled,   \* services of the project that are ENABLED
  ops,       \* Service Usage operations, by name; None where not issued
  proc,      \* the runs
  approved,  \* plans the user was shown and may approve
  touched,   \* services another user of the project turned on or off
  faults     \* faults so far, by kind

vars == <<file, disk, enabled, ops, proc, approved, touched, faults>>

Step == {"idle", "discover", "decide", "service", "check", "await", "enable", "record",
         "poll", "settle", "readback", "done"}


Run == [pc : Step, who : Account \cup {Nil}, approval : Plan \cup {NoApproval},
        state : State \cup {NoFile}, missing : SUBSET Service, cursor : 1 .. NumServices + 1,
        resuming : BOOLEAN, call : OpId \cup {NoOp},
        reply : {"pending", "succeeded", "failed"}, dropped : SUBSET Service]

Idle == [pc |-> "idle", who |-> Nil, approval |-> NoApproval, state |-> NoFile,
         missing |-> {}, cursor |-> 1, resuming |-> FALSE, call |-> NoOp,
         reply |-> "pending", dropped |-> {}]

TypeOK ==
  /\ file \in State \cup {NoFile}
  /\ disk \in State \cup {NoFile}
  /\ enabled \in SUBSET Service
  /\ ops \in [OpId -> Operation \cup {None}]
  /\ proc \in [Proc -> Run]
  /\ approved \in SUBSET Plan
  /\ touched \in SUBSET Service
  /\ faults \in [DOMAIN MaxFaults -> Nat]

Init ==
  /\ file = NoFile
  /\ disk = NoFile
  /\ enabled \in SUBSET Service
  /\ ops = [o \in OpId |-> None]
  /\ proc = [p \in Proc |-> Idle]
  /\ approved = {}
  /\ touched = {}
  /\ faults = [k \in DOMAIN MaxFaults |-> 0]

-----------------------------------------------------------------------------
(* The run's own state file. *)

Busy(p) == proc[p].pc \notin {"idle", "done"}

LockIsFree == \A p \in Proc : ~Busy(p)
Incomplete(f) == f # NoFile /\ ~f.complete

(* As if any account could take up a preparation. *)
ValidForAnyone(f, who) ==
  /\ f.plan.services # {}
  /\ f.completed \subseteq f.plan.services
  /\ f.pending # NoService => f.pending \in f.plan.services \ f.completed

(* validate_state_identity: whose preparation it is, what it may contain. *)
ValidFor(f, who) ==
  /\ f.plan.who = who
  /\ f.plan.services # {}
  /\ f.completed \subseteq f.plan.services
  /\ f.pending # NoService => f.pending \in f.plan.services \ f.completed
  /\ f.complete => f.pending = NoService /\ f.completed = f.plan.services

Running(s) == {o \in OpId : /\ ops[o] # None
                            /\ ops[o].service = s
                            /\ ops[o].status # "failed"
                            /\ ~ops[o].applied}

MayFault(k) ==
  /\ faults[k] < MaxFaults[k]
  /\ faults["abort"] + faults["fail"] + faults["outside"] + faults["power"] < MaxInAll

Goto(p, pc) == proc' = [proc EXCEPT ![p].pc = pc]
End(p) == proc' = [proc EXCEPT ![p] = Idle]

(* A run whose state becomes f in memory and, by restrictive_replace, on    *)
(* disk: the rename is atomic and no directory is synchronized after it.    *)
Write(p, f, pc) ==
  /\ ValidFor(f, f.plan.who)
  /\ file' = f
  /\ proc' = [proc EXCEPT ![p].state = f, ![p].pc = pc, ![p].cursor = 1, ![p].dropped = {}]
  /\ UNCHANGED disk

-----------------------------------------------------------------------------
(* Which plan. *)

(* ProjectPreparationStore::open and read, under the exclusive lock. *)
Open(p, who, approval) ==
  /\ ~Busy(p)
  /\ LockIsFree
  /\ Incomplete(file) => ValidFor(file, who)
  /\ proc' = [proc EXCEPT
       ![p] = [Idle EXCEPT !.pc = IF Incomplete(file) THEN "decide" ELSE "discover",
                           !.who = who, !.approval = approval, !.state = file,
                           !.missing = IF Incomplete(file) THEN file.plan.services ELSE {}]]
  /\ UNCHANGED <<file, disk, enabled, ops, approved, touched, faults>>

(* discover_plan: one service is read at a time. *)
Discover(p) ==
  /\ proc[p].pc = "discover"
  /\ proc' = [proc EXCEPT
       ![p].missing = IF proc[p].cursor \in enabled THEN @ ELSE @ \cup {proc[p].cursor},
       ![p].cursor = @ + 1,
       ![p].pc = IF proc[p].cursor = NumServices THEN "decide" ELSE @]
  /\ UNCHANGED <<file, disk, enabled, ops, approved, touched, faults>>

PlanOf(p) == IF Incomplete(proc[p].state) THEN proc[p].state.plan
             ELSE [who |-> proc[p].who, services |-> proc[p].missing]

(* Nothing is missing: complete, and nothing is written. *)
NothingMissing(p) ==
  /\ proc[p].pc = "decide"
  /\ proc[p].missing = {}
  /\ proc' = [proc EXCEPT ![p] = [Idle EXCEPT !.pc = "done", !.dropped = proc[p].dropped]]
  /\ UNCHANGED <<file, disk, enabled, ops, approved, touched, faults>>

(* ApprovalRequired: the plan and its digest are shown, nothing changes. *)
ShowPlan(p) ==
  /\ proc[p].pc = "decide"
  /\ proc[p].missing # {}
  /\ proc[p].approval = NoApproval
  /\ approved' = approved \cup {PlanOf(p)}
  /\ End(p)
  /\ UNCHANGED <<file, disk, enabled, ops, touched, faults>>

(* An approval of another plan, one shown before the project changed. *)
RefuseApproval(p) ==
  /\ proc[p].pc = "decide"
  /\ proc[p].missing # {}
  /\ proc[p].approval \notin {NoApproval, PlanOf(p)}
  /\ End(p)
  /\ UNCHANGED <<file, disk, enabled, ops, approved, touched, faults>>

NewState(p) == [plan |-> PlanOf(p), completed |-> {}, pending |-> NoService, op |-> NoOp,
                complete |-> FALSE]

(* The approved plan: a new one is written down first, an incomplete one is *)
(* taken up where the file says.                                            *)
StartPlan(p) ==
  /\ proc[p].pc = "decide"
  /\ proc[p].missing # {}
  /\ proc[p].approval = PlanOf(p)
  /\ IF Incomplete(proc[p].state)
       THEN Goto(p, "service") /\ UNCHANGED <<file, disk>>
       ELSE Write(p, NewState(p), "service")
  /\ UNCHANGED <<enabled, ops, approved, touched, faults>>

-----------------------------------------------------------------------------
(* enable_one_service *)

Todo(f) == f.plan.services \ f.completed
FirstOf(S) == CHOOSE s \in S : \A t \in S : s <= t
Current(p) == FirstOf(Todo(proc[p].state))

(* As if the intent were only remembered, and any service could be next. *)
IntendInMemory(p) ==
  /\ proc[p].pc = "service"
  /\ Todo(proc[p].state) # {}
  /\ proc[p].state.pending = NoService
  /\ proc' = [proc EXCEPT ![p].state.pending = Current(p), ![p].resuming = FALSE,
                          ![p].pc = "check"]
  /\ UNCHANGED <<file, disk, enabled, ops, approved, touched, faults>>

IntendAny(p) ==
  /\ proc[p].pc = "service"
  /\ proc[p].state.pending = NoService
  /\ \E s \in Todo(proc[p].state) : file' = [proc[p].state EXCEPT !.pending = s, !.op = NoOp]
  /\ proc' = [proc EXCEPT ![p].state = file', ![p].resuming = FALSE, ![p].pc = "check"]
  /\ UNCHANGED <<disk, enabled, ops, approved, touched, faults>>

(* Journal the intent, unless an earlier run already did. *)
Intend(p) ==
  /\ proc[p].pc = "service"
  /\ Todo(proc[p].state) # {}
  /\ proc[p].state.pending = NoService
  /\ file' = [proc[p].state EXCEPT !.pending = Current(p), !.op = NoOp]
  /\ proc' = [proc EXCEPT ![p].state = file', ![p].resuming = FALSE, ![p].pc = "check"]
  /\ UNCHANGED <<disk, enabled, ops, approved, touched, faults>>

TakeUp(p) ==
  /\ proc[p].pc = "service"
  /\ Todo(proc[p].state) # {}
  /\ proc[p].state.pending = Current(p)
  /\ proc' = [proc EXCEPT ![p].resuming = TRUE, ![p].pc = "check"]
  /\ UNCHANGED <<file, disk, enabled, ops, approved, touched, faults>>

(* finish_service *)
Finished(f) == [f EXCEPT !.completed = @ \cup {f.pending}, !.pending = NoService, !.op = NoOp]

(* A service that reads as enabled is finished, at the first read and at    *)
(* every read of wait_for_service_enabled.                                  *)
FinishEnabled(p) ==
  /\ proc[p].pc \in {"check", "await", "settle"}
  /\ Current(p) \in enabled
  /\ Write(p, Finished(proc[p].state), "service")
  /\ UNCHANGED <<enabled, ops, approved, touched, faults>>

(* As if a journaled enable without an operation could not be resumed. *)
StillDisabledStops(p) ==
  /\ proc[p].pc = "check"
  /\ Current(p) \notin enabled
  /\ IF proc[p].state.op # NoOp THEN Goto(p, "poll")
     ELSE IF proc[p].resuming THEN End(p) ELSE Goto(p, "enable")
  /\ UNCHANGED <<file, disk, enabled, ops, approved, touched, faults>>

(* It does not: the recorded operation is polled; without one a resumed run *)
(* first waits for the enable of the earlier run to show.                   *)
StillDisabled(p) ==
  /\ proc[p].pc = "check"
  /\ Current(p) \notin enabled
  /\ Goto(p, IF proc[p].state.op # NoOp THEN "poll"
             ELSE IF proc[p].resuming THEN "await" ELSE "enable")
  /\ UNCHANGED <<file, disk, enabled, ops, approved, touched, faults>>

GiveUpWaiting(p) ==
  /\ proc[p].pc = "await"
  /\ Goto(p, "enable")
  /\ UNCHANGED <<file, disk, enabled, ops, approved, touched, faults>>

(* enable_service carries no request id: every call is a new operation.  It *)
(* may answer that the operation is over already.                           *)
Enable(p) ==
  /\ proc[p].pc = "enable"
  /\ \E o \in OpId, status \in {"pending", "succeeded", "failed"} :
       /\ ops[o] = None
       /\ \A q \in OpId : q < o => ops[q] # None
       /\ status = "failed" => MayFault("fail")
       /\ ops' = [ops EXCEPT ![o] = [service |-> Current(p), who |-> proc[p].who,
                                     status |-> status, applied |-> status = "succeeded"]]
       /\ enabled' = IF status = "succeeded" THEN enabled \cup {Current(p)} ELSE enabled
       /\ faults' = IF status = "failed" THEN [faults EXCEPT !["fail"] = @ + 1] ELSE faults
       /\ proc' = [proc EXCEPT ![p].pc = "record", ![p].call = o, ![p].reply = status]
  /\ UNCHANGED <<file, disk, approved, touched>>

(* The operation's name is journaled before its outcome is looked at. *)
Record(p) ==
  /\ proc[p].pc = "record"
  /\ file' = [proc[p].state EXCEPT !.op = proc[p].call]
  /\ proc' = [proc EXCEPT
       ![p] = IF proc[p].reply = "failed" THEN Idle
              ELSE [@ EXCEPT !.state = file', !.call = NoOp,
                             !.pc = IF proc[p].reply = "succeeded" THEN "settle" ELSE "poll"]]
  /\ UNCHANGED <<disk, enabled, ops, approved, touched, faults>>

(* poll_operation: the operation succeeded, failed, or is pending for       *)
(* longer than the run polls.                                               *)
Poll(p) ==
  /\ proc[p].pc = "poll"
  /\ IF ops[proc[p].state.op].status = "succeeded" THEN Goto(p, "settle") ELSE End(p)
  /\ UNCHANGED <<file, disk, enabled, ops, approved, touched, faults>>

(* It succeeded and the service never reads as enabled. *)
NeverSettles(p) ==
  /\ proc[p].pc = "settle"
  /\ Current(p) \notin enabled
  /\ End(p)
  /\ UNCHANGED <<file, disk, enabled, ops, approved, touched, faults>>

-----------------------------------------------------------------------------
(* The final readback of every required service, one at a time. *)

(* As if what this plan enabled were all there is to read back. *)
AllDoneTrusted(p) ==
  /\ proc[p].pc = "service"
  /\ Todo(proc[p].state) = {}
  /\ proc' = [proc EXCEPT ![p].pc = "readback", ![p].cursor = NumServices + 1, ![p].dropped = {}]
  /\ UNCHANGED <<file, disk, enabled, ops, approved, touched, faults>>

AllDone(p) ==
  /\ proc[p].pc = "service"
  /\ Todo(proc[p].state) = {}
  /\ proc' = [proc EXCEPT ![p].pc = "readback", ![p].cursor = 1, ![p].dropped = {}]
  /\ UNCHANGED <<file, disk, enabled, ops, approved, touched, faults>>

Readback(p) ==
  /\ proc[p].pc = "readback"
  /\ proc[p].cursor <= NumServices
  /\ proc' = IF proc[p].cursor \in enabled
               THEN [proc EXCEPT ![p].cursor = @ + 1]
               ELSE [proc EXCEPT ![p] = Idle]
  /\ UNCHANGED <<file, disk, enabled, ops, approved, touched, faults>>

Complete(p) ==
  /\ proc[p].pc = "readback"
  /\ proc[p].cursor = NumServices + 1
  /\ file' = [proc[p].state EXCEPT !.complete = TRUE, !.pending = NoService, !.op = NoOp]
  /\ proc' = [proc EXCEPT ![p] = [Idle EXCEPT !.pc = "done", !.dropped = proc[p].dropped]]
  /\ UNCHANGED <<disk, enabled, ops, approved, touched, faults>>

-----------------------------------------------------------------------------
(* Service Usage, other users of the project, faults. *)

Apply(o) ==
  /\ ops[o] # None
  /\ ops[o].status # "failed"
  /\ ~ops[o].applied
  /\ ops' = [ops EXCEPT ![o].applied = TRUE]
  /\ enabled' = enabled \cup {ops[o].service}
  /\ UNCHANGED <<file, disk, proc, approved, touched, faults>>

(* It may be over before the service reads as enabled, or after. *)
Succeed(o) ==
  /\ ops[o] # None
  /\ ops[o].status = "pending"
  /\ ops' = [ops EXCEPT ![o].status = "succeeded"]
  /\ UNCHANGED <<file, disk, enabled, proc, approved, touched, faults>>

Fault(k) ==
  /\ MayFault(k)
  /\ faults' = [faults EXCEPT ![k] = @ + 1]

Fail(o) ==
  /\ ops[o] # None
  /\ ops[o].status = "pending"
  /\ ~ops[o].applied
  /\ Fault("fail")
  /\ ops' = [ops EXCEPT ![o].status = "failed"]
  /\ UNCHANGED <<file, disk, enabled, proc, approved, touched>>

(* The services a run has read as enabled in the walk it is in. *)
Seen(p) ==
  CASE proc[p].pc \in {"discover", "readback"} ->
         {s \in Service : s < proc[p].cursor} \ (IF proc[p].pc = "discover" THEN proc[p].missing ELSE {})
    [] proc[p].pc \in {"decide", "done"} -> Service
    [] OTHER -> {}

OthersDisable(s) ==
  /\ s \in enabled
  /\ Fault("outside")
  /\ enabled' = enabled \ {s}
  /\ touched' = touched \cup {s}
  /\ proc' = [p \in Proc |-> [proc[p] EXCEPT !.dropped = @ \cup ({s} \cap Seen(p))]]
  /\ UNCHANGED <<file, disk, ops, approved>>

OthersEnable(s) ==
  /\ s \notin enabled
  /\ Fault("outside")
  /\ enabled' = enabled \cup {s}
  /\ touched' = touched \cup {s}
  /\ UNCHANGED <<file, disk, ops, proc, approved>>

(* A killed run, or one whose next call or write fails. *)
Abort(p) ==
  /\ Busy(p)
  /\ Fault("abort")
  /\ End(p)
  /\ UNCHANGED <<file, disk, enabled, ops, approved, touched>>

(* The file system writes its directories back when it likes (only worth    *)
(* following while a power loss may still come).                            *)
WriteBack ==
  /\ MayFault("power")
  /\ disk # file
  /\ disk' = file
  /\ UNCHANGED <<file, enabled, ops, proc, approved, touched, faults>>

PowerLoss ==
  /\ Fault("power")
  /\ file' = disk
  /\ proc' = [p \in Proc |-> Idle]
  /\ UNCHANGED <<disk, enabled, ops, approved, touched>>

-----------------------------------------------------------------------------
RunStep(p) ==
  \/ Discover(p) \/ NothingMissing(p) \/ ShowPlan(p) \/ RefuseApproval(p) \/ StartPlan(p)
  \/ Intend(p) \/ TakeUp(p) \/ FinishEnabled(p) \/ StillDisabled(p) \/ GiveUpWaiting(p)
  \/ Enable(p) \/ Record(p) \/ Poll(p) \/ NeverSettles(p)
  \/ AllDone(p) \/ Readback(p) \/ Complete(p)

Next ==
  \/ \E p \in Proc : RunStep(p) \/ Abort(p)
  \/ \E p \in Proc, who \in Account, approval \in approved \cup {NoApproval} :
       Open(p, who, approval)
  \/ \E o \in OpId : Apply(o) \/ Succeed(o) \/ Fail(o)
  \/ \E s \in Service : OthersDisable(s) \/ OthersEnable(s)
  \/ WriteBack
  \/ PowerLoss

(* A run goes on until it ends; an operation is over and applied some time; *)
(* the user who approved a plan runs the command again, with that approval, *)
(* until it is done, whatever else is run in between.                       *)
Resume == \E p \in Proc : Incomplete(file) /\ Open(p, file.plan.who, file.plan)
Fairness ==
  /\ \A p \in Proc : WF_vars(RunStep(p))
  /\ \A o \in OpId : WF_vars(Apply(o)) /\ WF_vars(Succeed(o))
  /\ SF_vars(Resume)

Spec == Init /\ [][Next]_vars /\ Fairness

-----------------------------------------------------------------------------
(* Properties *)

(* Every enable a project receives is for a service of a plan that was      *)
(* shown to, and approved by, the account it is sent under, whichever run   *)
(* sends it: one that found the plan or one that took up another run's.     *)
EnablesOnlyApproved ==
  \A o \in OpId : ops[o] # None =>
    \E plan \in approved : plan.who = ops[o].who /\ ops[o].service \in plan.services

(* An enable that is to take effect is never forgotten: however runs were   *)
(* killed, the file names its service as pending, so there is one at most.  *)
(* (A power loss may take the file back, as its directory is not synced;    *)
(* services that someone else switches are left out.)                       *)
NoForgottenEnable ==
  faults["power"] = 0 =>
    \A s \in Service \ (touched \cup enabled) : Running(s) # {} => file # NoFile /\ file.pending = s

(* The journal never gets out of step with the order of the plan: a pending *)
(* service is the first unfinished one, else every later run would refuse   *)
(* the file.                                                                *)
PendingIsFirst ==
  \A f \in {file, disk} \ {NoFile} :
    f.pending # NoService => Todo(f) # {} /\ f.pending = FirstOf(Todo(f))

(* A run that reports the project prepared has read every required service  *)
(* as enabled, also those its plan did not contain: one that is off now was *)
(* turned off by someone else after the run had read it.                    *)
CompleteMeansEnabled ==
  \A p \in Proc : proc[p].pc = "done" => Service \ enabled \subseteq proc[p].dropped

(* What a run believes is what the file says: nobody writes in between.     *)
MemoryIsFile ==
  \A p \in Proc : Busy(p) => proc[p].state = file

(* An approved preparation is finished some time, through crashes, power    *)
(* losses and other runs, if no operation fails and nobody else switches    *)
(* services.                                                                *)
PreparedEventually ==
  Incomplete(file) ~> (~Incomplete(file) \/ faults["fail"] > 0 \/ touched # {})
=============================================================================

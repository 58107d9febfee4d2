------------------------- MODULE ProjectPrepareProofs -------------------------
(***************************************************************************)
(* Proofs about `project prepare`, for any number of runs, accounts,       *)
(* services, operations and faults: the types, that a run knows what its   *)
(* file says, and the safety properties of the enables.                    *)
(***************************************************************************)
EXTENDS ProjectPrepare, WellFoundedInduction, TLAPS

Serving == {"check", "await", "enable", "record", "poll", "settle"}
Started == Serving \cup {"service", "readback"}
IsBusy(r) == r.pc \notin {"idle", "done"}

-----------------------------------------------------------------------------
(* The inductive invariant.                                                 *)

\* What a run relies on: its file f, the plans known as approved.
RunSound(r, f, known) ==
  /\ IsBusy(r) => /\ r.state = f
                  /\ r.who \in Account
                  /\ r.approval \in known \cup {NoApproval}
                  /\ Incomplete(f) => f.plan.who = r.who
  /\ r.pc = "discover" => r.cursor <= NumServices /\ ~Incomplete(f)
  /\ r.pc = "decide" /\ Incomplete(f) => r.missing # {}
  /\ r.pc \in Started => Incomplete(f)
  /\ r.pc \in Serving => f.pending # NoService
  /\ r.pc = "readback" => Todo(f) = {}

\* What a run has read as enabled and nobody else has turned off since.
Walked(r, f, on) ==
  /\ r.pc = "discover" =>
       \A s \in Service : s < r.cursor => s \in on \cup r.missing \cup r.dropped
  /\ r.pc = "readback" => \A s \in Service : s < r.cursor => s \in on \cup r.dropped
  /\ r.pc = "decide" /\ ~Incomplete(f) =>
       \A s \in Service : s \in on \cup r.missing \cup r.dropped
  /\ r.pc = "done" => \A s \in Service : s \in on \cup r.dropped

OneRun == \A p, q \in Proc : p # q => ~(IsBusy(proc[p]) /\ IsBusy(proc[q]))

FileSound(f, known) ==
  f # NoFile =>
    /\ f.plan \in known
    /\ f.pending # NoService => Todo(f) # {} /\ f.pending = FirstOf(Todo(f))
    /\ f.complete => f.pending = NoService

\* NoForgottenEnable, operation by operation.
Journaled ==
  faults["power"] = 0 =>
    \A o \in OpId :
      /\ ops[o] # None
      /\ ops[o].status # "failed"
      /\ ~ops[o].applied
      /\ ops[o].service \notin touched \cup enabled
      => file # NoFile /\ file.pending = ops[o].service

Inv ==
  /\ TypeOK
  /\ \A p \in Proc : RunSound(proc[p], file, approved) /\ Walked(proc[p], file, enabled)
  /\ OneRun
  /\ FileSound(file, approved)
  /\ FileSound(disk, approved)
  /\ EnablesOnlyApproved
  /\ Journaled

-----------------------------------------------------------------------------
(* Every set of services has a first one.                                   *)
LEMMA LessIs == \A x, y \in Nat : <<y, x>> \in OpToRel(<, Nat) <=> y < x
BY DEF OpToRel

LEMMA LessIsWellFounded ==
  \E R : IsWellFoundedOn(R, Nat) /\ \A x, y \in Nat : <<y, x>> \in R <=> y < x
BY NatLessThanWellFounded, LessIs, Zenon

LEMMA Least == ASSUME NEW S \in SUBSET Nat, S # {} PROVE \E x \in S : \A y \in S : x <= y
<1>1. PICK R : IsWellFoundedOn(R, Nat) /\ \A x, y \in Nat : <<y, x>> \in R <=> y < x
  BY LessIsWellFounded
<1>2. PICK x \in S : \A y \in S : ~ (<<y, x>> \in R)
  BY <1>1, WFMin
<1>3. \A y \in S : x <= y
  <2> SUFFICES ASSUME NEW y \in S PROVE x <= y
    OBVIOUS
  <2>1. x \in Nat /\ y \in Nat
    OBVIOUS
  <2>2. ~ (y < x)
    BY <1>1, <1>2, <2>1, Zenon
  <2> QED
    BY <2>1, <2>2
<1> QED
  BY <1>3

LEMMA FirstIsIn == ASSUME NEW S \in SUBSET Service, S # {} PROVE FirstOf(S) \in S
<1>1. S \in SUBSET Nat
  BY PrepareAssumption DEF Service
<1>2. \E x \in S : \A y \in S : x <= y
  BY <1>1, Least
<1> QED
  BY <1>2 DEF FirstOf

LEMMA Constants ==
  /\ NoFile \notin State /\ NoApproval \notin Plan /\ None \notin Operation
  /\ NoService \notin Service /\ NumServices \in Nat \ {0}
  /\ Service \subseteq Nat /\ 1 \in 1 .. NumServices + 1
BY PrepareAssumption DEF NoFile, NoApproval, None, NoService, Service

LEMMA IdleIs ==
  /\ Idle \in Run /\ Idle.pc = "idle" /\ ~IsBusy(Idle)
  /\ \A f, known : RunSound(Idle, f, known)
  /\ \A f, on : Walked(Idle, f, on)
<1>1. Idle \in Run /\ Idle.pc = "idle"
  BY Constants DEF Idle, Run, Step, NoFile, NoApproval
<1>2. ~IsBusy(Idle)
  BY <1>1 DEF IsBusy
<1> QED
  BY <1>1, <1>2 DEF RunSound, Walked, Started, Serving

LEMMA InitInv == Init => Inv
<1> SUFFICES ASSUME Init PROVE Inv
  OBVIOUS
<1>1. TypeOK
  BY IdleIs DEF Init, TypeOK
<1>2. \A p \in Proc : RunSound(proc[p], file, approved) /\ Walked(proc[p], file, enabled)
  BY IdleIs DEF Init
<1>3. OneRun
  BY IdleIs DEF Init, OneRun
<1>4. FileSound(file, approved) /\ FileSound(disk, approved)
  BY DEF Init, FileSound
<1>5. EnablesOnlyApproved /\ Journaled
  BY DEF Init, EnablesOnlyApproved, Journaled
<1> QED
  BY <1>1, <1>2, <1>3, <1>4, <1>5 DEF Inv

LEMMA Typed ==
  ASSUME Inv, NEW p \in Proc
  PROVE  /\ proc[p] \in Run /\ RunSound(proc[p], file, approved) /\ Walked(proc[p], file, enabled)
         /\ file \in State \cup {NoFile} /\ FileSound(file, approved)
         /\ \A q \in Proc : q # p /\ IsBusy(proc[p]) => ~IsBusy(proc[q])
BY DEF Inv, TypeOK, OneRun

-----------------------------------------------------------------------------
(* A step that changes one run and nothing else.                            *)
Quiet == UNCHANGED <<file, disk, enabled, ops, approved, touched, faults>>

LEMMA RunKeeps ==
  ASSUME Inv, NEW p \in Proc, NEW r \in Run, proc' = [proc EXCEPT ![p] = r], Quiet,
         RunSound(r, file, approved), Walked(r, file, enabled),
         IsBusy(r) => \A q \in Proc : q # p => ~IsBusy(proc[q])
  PROVE  Inv'
<1>1. /\ proc' \in [Proc -> Run] /\ proc'[p] = r
      /\ \A q \in Proc : q # p => proc'[q] = proc[q]
  BY DEF Inv, TypeOK
<1>2. TypeOK'
  BY <1>1 DEF Inv, TypeOK, Quiet
<1>3. \A q \in Proc : RunSound(proc'[q], file, approved) /\ Walked(proc'[q], file, enabled)
  BY <1>1 DEF Inv
<1>4. OneRun'
  BY <1>1 DEF Inv, OneRun
<1>5. EnablesOnlyApproved' /\ Journaled'
  BY DEF Inv, Quiet, EnablesOnlyApproved, Journaled
<1>6. UNCHANGED <<file, disk, approved, enabled>>
  BY DEF Quiet
<1> QED
  BY <1>2, <1>3, <1>4, <1>5, <1>6 DEF Inv

LEMMA EndKeeps == ASSUME Inv, NEW p \in Proc, End(p), Quiet PROVE Inv'
BY IdleIs, RunKeeps DEF End

LEMMA OpenKeeps ==
  ASSUME Inv, NEW p \in Proc, NEW who \in Account, NEW approval \in approved \cup {NoApproval},
         Open(p, who, approval)
  PROVE  Inv'
<1> DEFINE pc == IF Incomplete(file) THEN "decide" ELSE "discover"
           missing == IF Incomplete(file) THEN file.plan.services ELSE {}
           r == [Idle EXCEPT !.pc = pc, !.who = who, !.approval = approval, !.state = file,
                             !.missing = missing]
<1>1. approval \in Plan \cup {NoApproval}
  BY DEF Inv, TypeOK
<1>2. Incomplete(file) => /\ file.plan.services \in SUBSET Service /\ file.plan.services # {}
                          /\ file.plan.who = who
  BY Typed DEF Open, ValidFor, Incomplete, State, Plan
<1>3. Idle \in Run /\ Idle.cursor = 1
  BY IdleIs DEF Idle
<1>4. proc' = [proc EXCEPT ![p] = r] /\ Quiet /\ \A q \in Proc : ~IsBusy(proc[q])
  BY DEF Open, Quiet, LockIsFree, Busy, IsBusy
<1>5. pc \in {"decide", "discover"} /\ missing \in SUBSET Service
  BY <1>2
<1>6. /\ Incomplete(file) => pc = "decide" /\ missing # {}
      /\ ~Incomplete(file) => pc = "discover"
  BY <1>2
<1> HIDE DEF pc, missing
<1>7. r \in Run
  <2>1. file \in State \cup {NoFile}
    BY Typed
  <2> QED
    BY <1>1, <1>3, <1>5, <2>1 DEF Run, Step
<1>8. r.pc = pc /\ r.who = who /\ r.approval = approval /\ r.state = file /\ r.cursor = 1
  BY <1>3 DEF Run
<1>9. r.missing = missing
  BY <1>3 DEF Run
<1> HIDE DEF r
<1>10. RunSound(r, file, approved)
  BY <1>2, <1>5, <1>6, <1>8, <1>9, Constants DEF RunSound, Started, Serving
<1>11. \A s \in Service : ~(s < 1)
  BY Constants DEF Service
<1>12. Walked(r, file, enabled)
  BY <1>5, <1>6, <1>8, <1>11 DEF Walked
<1> QED
  BY <1>4, <1>7, <1>10, <1>12, RunKeeps

LEMMA DiscoverKeeps == ASSUME Inv, NEW p \in Proc, Discover(p) PROVE Inv'
<1> DEFINE c == proc[p].cursor
           r == [proc[p] EXCEPT !.missing = IF c \in enabled THEN @ ELSE @ \cup {c},
                                !.cursor = @ + 1,
                                !.pc = IF c = NumServices THEN "decide" ELSE @]
<1>1. /\ proc[p].pc = "discover" /\ c \in Nat /\ c >= 1 /\ c <= NumServices /\ ~Incomplete(file)
      /\ IsBusy(proc[p])
  BY Typed, Constants DEF Discover, RunSound, Run, IsBusy
<1>2. c \in Service /\ c + 1 \in 1 .. NumServices + 1
  BY <1>1, Constants DEF Service
<1>3. /\ r \in Run /\ r.pc = (IF c = NumServices THEN "decide" ELSE "discover")
      /\ r.who = proc[p].who /\ r.approval = proc[p].approval /\ r.state = proc[p].state
      /\ r.cursor = c + 1 /\ r.dropped = proc[p].dropped
      /\ r.missing = (IF c \in enabled THEN proc[p].missing ELSE proc[p].missing \cup {c})
  <2>1. proc[p] \in Run
    BY Typed
  <2>2. (IF c \in enabled THEN proc[p].missing ELSE proc[p].missing \cup {c}) \in SUBSET Service
    BY <1>2, <2>1 DEF Run
  <2>3. (IF c = NumServices THEN "decide" ELSE "discover") \in Step
    BY DEF Step
  <2> QED
    BY <1>1, <1>2, <2>1, <2>2, <2>3 DEF Run
<1>4. proc' = [proc EXCEPT ![p] = r] /\ Quiet
  BY DEF Discover, Quiet
<1> HIDE DEF r
<1>5. RunSound(r, file, approved)
  BY <1>1, <1>3, Typed, Constants DEF RunSound, Started, Serving, IsBusy
<1>6. \A s \in Service : s < c + 1 => s \in enabled \cup r.missing \cup r.dropped
  <2> SUFFICES ASSUME NEW s \in Service, s < c + 1 PROVE s \in enabled \cup r.missing \cup r.dropped
    OBVIOUS
  <2>1. s = c \/ s < c
    BY <1>1, Constants
  <2>2. s < c => s \in enabled \cup proc[p].missing \cup proc[p].dropped
    BY <1>1, Typed DEF Walked
  <2> QED
    BY <2>1, <2>2, <1>3
<1>7. c = NumServices => \A s \in Service : s < c + 1
  BY Constants DEF Service
<1>8. Walked(r, file, enabled)
  BY <1>3, <1>6, <1>7 DEF Walked
<1> QED
  BY <1>1, <1>3, <1>4, <1>5, <1>8, Typed, RunKeeps

LEMMA NothingMissingKeeps == ASSUME Inv, NEW p \in Proc, NothingMissing(p) PROVE Inv'
<1> DEFINE r == [Idle EXCEPT !.pc = "done", !.dropped = proc[p].dropped]
<1>1. r \in Run /\ r.pc = "done" /\ r.dropped = proc[p].dropped
  BY IdleIs, Typed DEF Run, Step
<1>2. /\ proc[p].pc = "decide" /\ proc[p].missing = {}
      /\ proc' = [proc EXCEPT ![p] = r] /\ Quiet
  BY DEF NothingMissing, Quiet
<1> HIDE DEF r
<1>3. ~IsBusy(r) /\ RunSound(r, file, approved)
  BY <1>1 DEF RunSound, Started, Serving, IsBusy
<1>4. Walked(r, file, enabled)
  BY <1>1, <1>2, Typed DEF Walked, RunSound
<1> QED
  BY <1>1, <1>2, <1>3, <1>4, RunKeeps

\* A step of a run that has started, to another of its steps.
LEMMA GotoKeeps ==
  ASSUME Inv, NEW p \in Proc, NEW r \in Run, proc' = [proc EXCEPT ![p] = r], Quiet,
         IsBusy(proc[p]), Incomplete(file), r.pc \in Started,
         r.state = proc[p].state, r.who = proc[p].who, r.approval = proc[p].approval,
         r.pc \in Serving => file.pending # NoService,
         r.pc = "readback" =>
           Todo(file) = {} /\ \A s \in Service : s < r.cursor => s \in enabled \cup r.dropped
  PROVE  Inv'
<1>1. IsBusy(r) /\ r.pc # "discover" /\ r.pc # "decide" /\ r.pc # "done"
  BY DEF IsBusy, Started, Serving
<1>2. RunSound(r, file, approved)
  BY <1>1, Typed DEF RunSound
<1>3. Walked(r, file, enabled)
  BY <1>1 DEF Walked
<1> QED
  BY <1>2, <1>3, Typed, RunKeeps

LEMMA PcKeeps ==
  ASSUME Inv, NEW p \in Proc, NEW pc \in Serving, Goto(p, pc), Quiet, proc[p].pc \in Serving
  PROVE  Inv'
<1> DEFINE r == [proc[p] EXCEPT !.pc = pc]
<1>1. /\ r \in Run /\ r.pc = pc /\ r.state = proc[p].state /\ r.who = proc[p].who
      /\ r.approval = proc[p].approval
  BY Typed DEF Run, Step, Serving
<1>2. proc' = [proc EXCEPT ![p] = r]
  BY DEF Goto
<1>3. IsBusy(proc[p]) /\ Incomplete(file) /\ file.pending # NoService
  BY Typed DEF RunSound, Started, Serving, IsBusy
<1> HIDE DEF r
<1>4. r.pc \in Started /\ r.pc # "readback"
  BY <1>1 DEF Started, Serving
<1> QED
  BY <1>1, <1>2, <1>3, <1>4, GotoKeeps

LEMMA TakeUpKeeps == ASSUME Inv, NEW p \in Proc, TakeUp(p) PROVE Inv'
<1> DEFINE r == [proc[p] EXCEPT !.resuming = TRUE, !.pc = "check"]
<1>1. proc[p].pc = "service" /\ Todo(proc[p].state) # {} /\ proc[p].state.pending = Current(p)
  BY DEF TakeUp
<1>2. IsBusy(proc[p]) /\ Incomplete(file) /\ proc[p].state = file
  BY <1>1, Typed DEF RunSound, Started, IsBusy
<1>3. Current(p) \in Service
  <2>1. Todo(file) \in SUBSET Service
    BY <1>2, Typed DEF Incomplete, State, Plan, Todo
  <2> QED
    BY <2>1, <1>1, <1>2, FirstIsIn DEF Current
<1>4. file.pending # NoService
  BY <1>1, <1>2, <1>3, Constants
<1>5. /\ r \in Run /\ r.pc = "check" /\ r.state = proc[p].state /\ r.who = proc[p].who
      /\ r.approval = proc[p].approval
  <2>1. proc[p] \in Run
    BY Typed
  <2> QED
    BY <2>1 DEF Run, Step
<1>6. proc' = [proc EXCEPT ![p] = r] /\ Quiet
  BY DEF TakeUp, Quiet
<1> HIDE DEF r
<1>7. r.pc \in Started /\ r.pc # "readback"
  BY <1>5 DEF Started, Serving
<1> QED
  BY <1>2, <1>4, <1>5, <1>6, <1>7, GotoKeeps

LEMMA AllDoneKeeps == ASSUME Inv, NEW p \in Proc, AllDone(p) PROVE Inv'
<1> DEFINE r == [proc[p] EXCEPT !.pc = "readback", !.cursor = 1, !.dropped = {}]
<1>1. proc[p].pc = "service" /\ Todo(proc[p].state) = {}
  BY DEF AllDone
<1>2. IsBusy(proc[p]) /\ Incomplete(file) /\ proc[p].state = file
  BY <1>1, Typed DEF RunSound, Started, IsBusy
<1>3. /\ r \in Run /\ r.pc = "readback" /\ r.state = proc[p].state /\ r.who = proc[p].who
      /\ r.approval = proc[p].approval /\ r.cursor = 1
  <2>1. proc[p] \in Run
    BY Typed
  <2>2. 1 \in 1 .. NumServices + 1
    BY Constants
  <2> QED
    BY <2>1, <2>2 DEF Run, Step
<1>4. proc' = [proc EXCEPT ![p] = r] /\ Quiet
  BY DEF AllDone, Quiet
<1> HIDE DEF r
<1>5. r.pc \in Started /\ r.pc \notin Serving
  BY <1>3 DEF Started, Serving
<1>6. \A s \in Service : ~(s < 1)
  BY Constants DEF Service
<1> QED
  BY <1>1, <1>2, <1>3, <1>4, <1>5, <1>6, GotoKeeps

LEMMA ReadbackKeeps == ASSUME Inv, NEW p \in Proc, Readback(p) PROVE Inv'
<1>1. CASE proc[p].cursor \notin enabled
  BY <1>1, IdleIs, RunKeeps DEF Readback, Quiet
<1>2. CASE proc[p].cursor \in enabled
  <2> DEFINE c == proc[p].cursor
             r == [proc[p] EXCEPT !.cursor = @ + 1]
  <2>1. proc[p].pc = "readback" /\ c \in Nat /\ c >= 1 /\ c <= NumServices
    BY Typed, Constants DEF Readback, Run
  <2>2. /\ r \in Run /\ r.pc = "readback" /\ r.state = proc[p].state /\ r.who = proc[p].who
        /\ r.approval = proc[p].approval /\ r.cursor = c + 1 /\ r.dropped = proc[p].dropped
    BY <2>1, Typed, Constants DEF Run
  <2>3. IsBusy(proc[p]) /\ Incomplete(file) /\ Todo(file) = {}
    BY <2>1, Typed DEF RunSound, Started, IsBusy
  <2>4. \A s \in Service : s < c + 1 => s \in enabled \cup r.dropped
    <3> SUFFICES ASSUME NEW s \in Service, s < c + 1 PROVE s \in enabled \cup r.dropped
      OBVIOUS
    <3>1. s = c \/ s < c
      BY <2>1, Constants
    <3>2. s < c => s \in enabled \cup proc[p].dropped
      BY <2>1, Typed DEF Walked
    <3> QED
      BY <3>1, <3>2, <1>2, <2>2
  <2>5. proc' = [proc EXCEPT ![p] = r] /\ Quiet
    BY <1>2 DEF Readback, Quiet
  <2> HIDE DEF r
  <2>6. r.pc \in Started /\ r.pc \notin Serving
    BY <2>2 DEF Started, Serving
  <2> QED
    BY <2>2, <2>3, <2>4, <2>5, <2>6, GotoKeeps
<1> QED
  BY <1>1, <1>2

LEMMA StillDisabledKeeps == ASSUME Inv, NEW p \in Proc, StillDisabled(p) PROVE Inv'
<1>1. proc[p].pc \in Serving /\ Quiet
  BY DEF StillDisabled, Quiet, Serving
<1>2. PICK pc \in {"poll", "await", "enable"} : Goto(p, pc)
  BY DEF StillDisabled
<1>3. pc \in Serving
  BY DEF Serving
<1> QED
  BY <1>1, <1>2, <1>3, PcKeeps

LEMMA GiveUpWaitingKeeps == ASSUME Inv, NEW p \in Proc, GiveUpWaiting(p) PROVE Inv'
<1>1. proc[p].pc \in Serving /\ Quiet /\ Goto(p, "enable") /\ "enable" \in Serving
  BY DEF GiveUpWaiting, Quiet, Serving
<1> QED
  BY <1>1, PcKeeps

LEMMA PollKeeps == ASSUME Inv, NEW p \in Proc, Poll(p) PROVE Inv'
<1>1. proc[p].pc \in Serving /\ Quiet /\ "settle" \in Serving
  BY DEF Poll, Quiet, Serving
<1> QED
  BY <1>1, PcKeeps, EndKeeps DEF Poll

-----------------------------------------------------------------------------
(* A step that writes the file.                                             *)
LEMMA WriteKeeps ==
  ASSUME Inv, NEW p \in Proc, NEW r \in Run, NEW f \in State,
         proc' = [proc EXCEPT ![p] = r], file' = f, IsBusy(proc[p]),
         UNCHANGED <<disk, enabled, ops, approved, touched, faults>>,
         RunSound(r, f, approved), Walked(r, f, enabled), FileSound(f, approved),
         \/ file # NoFile /\ f.pending = file.pending
         \/ file = NoFile \/ file.pending \notin Service \ enabled
  PROVE  Inv'
<1>1. /\ proc' \in [Proc -> Run] /\ proc'[p] = r
      /\ \A q \in Proc : q # p => proc'[q] = proc[q] /\ ~IsBusy(proc[q])
  BY Typed DEF Inv, TypeOK
<1>2. TypeOK'
  BY <1>1 DEF Inv, TypeOK
<1>3. ASSUME NEW q \in Proc PROVE RunSound(proc'[q], f, approved) /\ Walked(proc'[q], f, enabled)
  <2>1. CASE q = p
    BY <1>1, <2>1
  <2>2. CASE q # p
    <3>1. proc'[q] = proc[q] /\ ~IsBusy(proc[q])
      BY <1>1, <2>2
    <3>2. Walked(proc[q], file, enabled)
      BY Typed
    <3> QED
      BY <3>1, <3>2 DEF RunSound, Walked, IsBusy, Started, Serving
  <2> QED
    BY <2>1, <2>2
<1>4. OneRun'
  BY <1>1 DEF OneRun
<1>5. EnablesOnlyApproved'
  BY DEF Inv, EnablesOnlyApproved
<1>6. f # NoFile
  BY Constants
<1>7. Journaled'
  <2> SUFFICES ASSUME faults["power"] = 0, NEW o \in OpId, ops[o] # None,
                      ops[o].status # "failed", ~ops[o].applied,
                      ops[o].service \notin touched \cup enabled
               PROVE  f.pending = ops[o].service
    BY <1>6 DEF Journaled
  <2>1. file # NoFile /\ file.pending = ops[o].service
    BY DEF Inv, Journaled
  <2>2. ops[o].service \in Service
    BY DEF Inv, TypeOK, Operation
  <2> QED
    BY <2>1, <2>2
<1>8. FileSound(file', approved') /\ FileSound(disk', approved')
  BY DEF Inv
<1> QED
  BY <1>2, <1>3, <1>4, <1>5, <1>7, <1>8 DEF Inv

LEMMA StartPlanKeeps == ASSUME Inv, NEW p \in Proc, StartPlan(p) PROVE Inv'
<1> DEFINE r1 == [proc[p] EXCEPT !.pc = "service"]
           f == NewState(p)
           r2 == [proc[p] EXCEPT !.state = f, !.pc = "service", !.cursor = 1, !.dropped = {}]
<1>1. /\ proc[p].pc = "decide" /\ proc[p].approval = PlanOf(p) /\ IsBusy(proc[p])
      /\ proc[p].state = file
  BY Typed DEF StartPlan, RunSound, IsBusy
<1>2. /\ r1 \in Run /\ r1.pc = "service" /\ r1.state = proc[p].state /\ r1.who = proc[p].who
      /\ r1.approval = proc[p].approval
  BY Typed DEF Run, Step
<1>3. CASE Incomplete(file)
  <2>1. proc' = [proc EXCEPT ![p] = r1] /\ Quiet
    BY <1>1, <1>3 DEF StartPlan, Goto, Quiet
  <2> HIDE DEF r1
  <2>2. r1.pc \in Started /\ r1.pc \notin Serving /\ r1.pc # "readback"
    BY <1>2 DEF Started, Serving
  <2> QED
    BY <1>1, <1>2, <1>3, <2>1, <2>2, GotoKeeps
<1>4. CASE ~Incomplete(file)
  <2>1. PlanOf(p) = [who |-> proc[p].who, services |-> proc[p].missing]
    BY <1>1, <1>4 DEF PlanOf
  <2>2. PlanOf(p) \in Plan /\ PlanOf(p).who = proc[p].who
    BY <2>1, <1>1, Typed DEF Plan, Run, RunSound
  <2>3. PlanOf(p) \in approved
    BY <1>1, <2>2, Typed, Constants DEF RunSound
  <2>4. /\ f \in State /\ f.plan = PlanOf(p) /\ f.pending = NoService /\ f.complete = FALSE
    BY <2>2 DEF NewState, State
  <2>5. file' = f /\ UNCHANGED <<disk, enabled, ops, approved, touched, faults>>
        /\ proc' = [proc EXCEPT ![p] = r2]
    BY <1>1, <1>4 DEF StartPlan, Write
  <2> HIDE DEF f
  <2>6. /\ r2 \in Run /\ r2.pc = "service" /\ r2.state = f /\ r2.who = proc[p].who
        /\ r2.approval = proc[p].approval
    <3>1. proc[p] \in Run
      BY Typed
    <3>2. 1 \in 1 .. NumServices + 1 /\ f \in State \cup {NoFile}
      BY <2>4, Constants
    <3> QED
      BY <3>1, <3>2 DEF Run, Step
  <2> HIDE DEF r2
  <2>7. Incomplete(f) /\ FileSound(f, approved)
    BY <2>3, <2>4, Constants DEF Incomplete, FileSound
  <2>8. RunSound(r2, f, approved)
    <3>1. proc[p].who \in Account /\ proc[p].approval \in approved \cup {NoApproval}
      BY <1>1, Typed DEF RunSound
    <3> QED
      BY <3>1, <2>2, <2>4, <2>6, <2>7 DEF RunSound, Started, Serving
  <2>9. Walked(r2, f, enabled)
    BY <2>6 DEF Walked
  <2>10. file = NoFile \/ file.pending = NoService
    BY <1>4, Typed DEF Incomplete, FileSound
  <2> QED
    BY <1>1, <2>4, <2>5, <2>6, <2>7, <2>8, <2>9, <2>10, Constants, WriteKeeps
<1> QED
  BY <1>3, <1>4

\* What a run in one of its later steps relies on.
LEMMA StartedIs ==
  ASSUME Inv, NEW p \in Proc, proc[p].pc \in Started
  PROVE  /\ IsBusy(proc[p]) /\ proc[p].state = file /\ file \in State /\ Incomplete(file)
         /\ file.plan \in approved /\ file.plan.who = proc[p].who /\ proc[p].who \in Account
         /\ proc[p].approval \in approved \cup {NoApproval}
         /\ Todo(file) \in SUBSET file.plan.services /\ file.plan.services \in SUBSET Service
         /\ Current(p) = FirstOf(Todo(file))
         /\ Todo(file) # {} => Current(p) \in Todo(file)
         /\ proc[p].pc \in Serving =>
              file.pending = Current(p) /\ file.pending \in file.plan.services
<1>1. IsBusy(proc[p]) /\ Incomplete(file)
  BY Typed DEF RunSound, IsBusy, Started, Serving
<1>2. /\ proc[p].state = file /\ file \in State /\ file.plan \in approved
      /\ file.plan.who = proc[p].who /\ proc[p].who \in Account
      /\ proc[p].approval \in approved \cup {NoApproval}
  BY <1>1, Typed DEF RunSound, Incomplete, FileSound
<1>3. /\ Todo(file) \in SUBSET file.plan.services /\ file.plan.services \in SUBSET Service
  BY <1>2 DEF State, Plan, Todo
<1>4. Current(p) = FirstOf(Todo(file))
  BY <1>2 DEF Current
<1>5. Todo(file) # {} => Current(p) \in Todo(file)
  BY <1>3, <1>4, FirstIsIn
<1>6. proc[p].pc \in Serving => file.pending = Current(p) /\ Todo(file) # {}
  BY <1>1, <1>4, Typed DEF RunSound, FileSound, Incomplete
<1> QED
  BY <1>1, <1>2, <1>3, <1>4, <1>5, <1>6

LEMMA IntendKeeps == ASSUME Inv, NEW p \in Proc, Intend(p) PROVE Inv'
<1> DEFINE f == [file EXCEPT !.pending = Current(p), !.op = NoOp]
           r == [proc[p] EXCEPT !.state = f, !.resuming = FALSE, !.pc = "check"]
<1>1. proc[p].pc \in Started /\ Todo(proc[p].state) # {} /\ proc[p].state.pending = NoService
  BY DEF Intend, Started
<1>2. /\ proc[p].state = file /\ file \in State /\ Current(p) \in Service
      /\ Current(p) = FirstOf(Todo(file)) /\ Todo(file) # {} /\ file.plan \in approved
      /\ IsBusy(proc[p]) /\ Incomplete(file)
  BY <1>1, StartedIs
<1>3. file' = f /\ UNCHANGED <<disk, enabled, ops, approved, touched, faults>>
      /\ proc' = [proc EXCEPT ![p] = r]
  BY <1>2 DEF Intend
<1>4. /\ f \in State /\ f.plan = file.plan /\ f.completed = file.completed
      /\ f.pending = Current(p) /\ f.complete = file.complete
  BY <1>2 DEF State
<1> HIDE DEF f
<1>5. /\ r \in Run /\ r.pc = "check" /\ r.state = f /\ r.who = proc[p].who
      /\ r.approval = proc[p].approval
  <2>1. proc[p] \in Run
    BY Typed
  <2>2. f \in State \cup {NoFile}
    BY <1>4
  <2> QED
    BY <2>1, <2>2 DEF Run, Step
<1> HIDE DEF r
<1>6. Todo(f) = Todo(file) /\ f # NoFile
  BY <1>4, Constants DEF Todo
<1>7. Incomplete(f) /\ FileSound(f, approved)
  BY <1>2, <1>4, <1>6 DEF Incomplete, FileSound
<1>8. RunSound(r, f, approved)
  <2>1. Current(p) # NoService
    BY <1>2, Constants
  <2> QED
    BY <2>1, <1>1, <1>4, <1>5, <1>7, StartedIs DEF RunSound, Started, Serving
<1>9. Walked(r, f, enabled)
  BY <1>5 DEF Walked
<1>10. file.pending \notin Service
  BY <1>1, <1>2, Constants
<1> QED
  BY <1>2, <1>3, <1>4, <1>5, <1>7, <1>8, <1>9, <1>10, WriteKeeps

LEMMA FinishEnabledKeeps == ASSUME Inv, NEW p \in Proc, FinishEnabled(p) PROVE Inv'
<1> DEFINE f == Finished(file)
           r == [proc[p] EXCEPT !.state = f, !.pc = "service", !.cursor = 1, !.dropped = {}]
<1>1. proc[p].pc \in Serving /\ proc[p].pc \in Started /\ Current(p) \in enabled
  BY DEF FinishEnabled, Started, Serving
<1>2. /\ proc[p].state = file /\ file \in State /\ file.pending = Current(p)
      /\ file.pending \in Service /\ file.plan \in approved
      /\ IsBusy(proc[p]) /\ Incomplete(file)
  BY <1>1, StartedIs
<1>3. file' = f /\ UNCHANGED <<disk, enabled, ops, approved, touched, faults>>
      /\ proc' = [proc EXCEPT ![p] = r]
  BY <1>2 DEF FinishEnabled, Write
<1>4. /\ f \in State /\ f.plan = file.plan /\ f.pending = NoService
      /\ f.complete = file.complete
  BY <1>2 DEF Finished, State
<1> HIDE DEF f
<1>5. /\ r \in Run /\ r.pc = "service" /\ r.state = f /\ r.who = proc[p].who
      /\ r.approval = proc[p].approval
  <2>1. proc[p] \in Run
    BY Typed
  <2>2. 1 \in 1 .. NumServices + 1 /\ f \in State \cup {NoFile}
    BY <1>4, Constants
  <2> QED
    BY <2>1, <2>2 DEF Run, Step
<1> HIDE DEF r
<1>6. f # NoFile
  BY <1>4, Constants
<1>7. Incomplete(f) /\ FileSound(f, approved)
  BY <1>2, <1>4, <1>6 DEF Incomplete, FileSound
<1>8. RunSound(r, f, approved)
  BY <1>1, <1>4, <1>5, <1>7, StartedIs DEF RunSound, Started, Serving
<1>9. Walked(r, f, enabled)
  BY <1>5 DEF Walked
<1>10. file.pending \in enabled
  BY <1>1, <1>2
<1> QED
  BY <1>2, <1>3, <1>4, <1>5, <1>7, <1>8, <1>9, <1>10, WriteKeeps

LEMMA RecordKeeps == ASSUME Inv, NEW p \in Proc, Record(p) PROVE Inv'
<1> DEFINE f == [file EXCEPT !.op = proc[p].call]
           pc == IF proc[p].reply = "succeeded" THEN "settle" ELSE "poll"
           r1 == [proc[p] EXCEPT !.state = f, !.call = NoOp, !.pc = pc]
           r == IF proc[p].reply = "failed" THEN Idle ELSE r1
<1>1. proc[p].pc \in Serving /\ proc[p].pc \in Started
  BY DEF Record, Started, Serving
<1>2. /\ proc[p].state = file /\ file \in State /\ file.pending = Current(p)
      /\ file.pending \in Service /\ file.plan \in approved /\ file # NoFile
      /\ IsBusy(proc[p]) /\ Incomplete(file)
  BY <1>1, StartedIs, Constants
<1>3. file' = f /\ UNCHANGED <<disk, enabled, ops, approved, touched, faults>>
      /\ proc' = [proc EXCEPT ![p] = r]
  BY <1>2 DEF Record
<1>4. /\ f \in State /\ f.plan = file.plan /\ f.pending = file.pending
      /\ f.complete = file.complete /\ f.completed = file.completed
  BY <1>2, Typed DEF State, Run
<1> HIDE DEF f
<1>5. pc \in Serving /\ pc \in Step /\ pc \in Started
  BY DEF Serving, Step, Started
<1> HIDE DEF pc
<1>6. /\ r1 \in Run /\ r1.pc = pc /\ r1.state = f /\ r1.who = proc[p].who
      /\ r1.approval = proc[p].approval
  BY <1>4, <1>5, Typed DEF Run
<1> HIDE DEF r1
<1>7. Todo(f) = Todo(file) /\ f # NoFile
  BY <1>4, Constants DEF Todo
<1>8. Incomplete(f) /\ FileSound(f, approved)
  BY <1>2, <1>4, <1>7, Typed DEF Incomplete, FileSound
<1>9. RunSound(r1, f, approved) /\ Walked(r1, f, enabled)
  <2>1. f.pending # NoService
    BY <1>2, <1>4, Constants
  <2>2. /\ pc # "discover" /\ pc # "decide" /\ pc # "readback" /\ pc # "done"
    BY <1>5 DEF Serving
  <2> QED
    BY <2>1, <2>2, <1>1, <1>4, <1>5, <1>6, <1>8, StartedIs DEF RunSound, Walked
<1>10. r \in Run /\ RunSound(r, f, approved) /\ Walked(r, f, enabled)
  BY <1>6, <1>9, IdleIs
<1> QED
  BY <1>2, <1>3, <1>4, <1>8, <1>10, WriteKeeps

LEMMA CompleteKeeps == ASSUME Inv, NEW p \in Proc, Complete(p) PROVE Inv'
<1> DEFINE f == [file EXCEPT !.complete = TRUE, !.pending = NoService, !.op = NoOp]
           r == [Idle EXCEPT !.pc = "done", !.dropped = proc[p].dropped]
<1>1. /\ proc[p].pc = "readback" /\ proc[p].pc \in Started
      /\ proc[p].cursor = NumServices + 1
  BY DEF Complete, Started, Serving
<1>2. /\ proc[p].state = file /\ file \in State /\ file.plan \in approved /\ file # NoFile
      /\ IsBusy(proc[p]) /\ Incomplete(file)
  BY <1>1, StartedIs, Constants
<1>3. file' = f /\ UNCHANGED <<disk, enabled, ops, approved, touched, faults>>
      /\ proc' = [proc EXCEPT ![p] = r]
  BY <1>2 DEF Complete
<1>4. /\ f \in State /\ f.plan = file.plan /\ f.pending = NoService
  BY <1>2 DEF State
<1> HIDE DEF f
<1>5. r \in Run /\ r.pc = "done" /\ r.dropped = proc[p].dropped
  BY IdleIs, Typed DEF Run, Step
<1> HIDE DEF r
<1>6. FileSound(f, approved)
  BY <1>2, <1>4 DEF FileSound
<1>7. RunSound(r, f, approved)
  BY <1>5 DEF RunSound, IsBusy, Started, Serving
<1>8. \A s \in Service : s < NumServices + 1
  BY Constants DEF Service
<1>9. Walked(r, f, enabled)
  BY <1>1, <1>5, <1>8, Typed DEF Walked
<1>10. file.pending \notin Service
  <2>1. Todo(file) = {}
    BY <1>1, Typed DEF RunSound
  <2> QED
    BY <2>1, <1>2, Typed, Constants DEF FileSound
<1> QED
  BY <1>2, <1>3, <1>4, <1>5, <1>6, <1>7, <1>9, <1>10, WriteKeeps

-----------------------------------------------------------------------------
(* Steps that leave the file alone and change the world around it.          *)
LEMMA More ==
  ASSUME NEW r, NEW f, NEW known, NEW known2, NEW on, NEW on2,
         known \subseteq known2, on \subseteq on2
  PROVE  /\ RunSound(r, f, known) => RunSound(r, f, known2)
         /\ Walked(r, f, on) => Walked(r, f, on2)
         /\ FileSound(f, known) => FileSound(f, known2)
<1>1. RunSound(r, f, known) => RunSound(r, f, known2)
  BY DEF RunSound
<1>2. Walked(r, f, on) => Walked(r, f, on2)
  BY DEF Walked
<1>3. FileSound(f, known) => FileSound(f, known2)
  BY DEF FileSound
<1> QED
  BY <1>1, <1>2, <1>3

LEMMA AroundKeeps ==
  ASSUME Inv, TypeOK', UNCHANGED <<file, disk>>, approved \subseteq approved',
         \A p \in Proc : RunSound(proc'[p], file, approved') /\ Walked(proc'[p], file, enabled'),
         \A p \in Proc : IsBusy(proc'[p]) => IsBusy(proc[p]),
         EnablesOnlyApproved', Journaled'
  PROVE  Inv'
<1>1. OneRun'
  BY DEF Inv, OneRun
<1>2. FileSound(file, approved') /\ FileSound(disk, approved')
  BY More DEF Inv
<1> QED
  BY <1>1, <1>2 DEF Inv

\* No run takes part.
LEMMA WorldKeeps ==
  ASSUME Inv, TypeOK', UNCHANGED <<file, disk, proc, approved>>, enabled \subseteq enabled',
         EnablesOnlyApproved', Journaled'
  PROVE  Inv'
<1>1. \A p \in Proc : RunSound(proc'[p], file, approved') /\ Walked(proc'[p], file, enabled')
  BY More DEF Inv
<1> QED
  BY <1>1, AroundKeeps

LEMMA FaultIs ==
  ASSUME Inv, NEW k \in {"abort", "fail", "outside", "power"},
         faults' = [faults EXCEPT ![k] = @ + 1]
  PROVE  /\ faults' \in [DOMAIN MaxFaults -> Nat]
         /\ k # "power" => faults'["power"] = faults["power"]
         /\ k = "power" => faults'["power"] # 0
<1>1. DOMAIN MaxFaults = {"abort", "fail", "outside", "power"}
  BY PrepareAssumption
<1>2. faults \in [{"abort", "fail", "outside", "power"} -> Nat]
  BY <1>1 DEF Inv, TypeOK
<1> QED
  BY <1>1, <1>2

LEMMA ShowPlanKeeps == ASSUME Inv, NEW p \in Proc, ShowPlan(p) PROVE Inv'
<1>1. /\ proc[p].pc = "decide" /\ proc' = [proc EXCEPT ![p] = Idle]
      /\ approved' = approved \cup {PlanOf(p)}
      /\ UNCHANGED <<file, disk, enabled, ops, touched, faults>>
  BY DEF ShowPlan, End
<1>2. PlanOf(p) \in Plan
  <2>1. proc[p].who \in Account /\ proc[p].state = file
    BY <1>1, Typed DEF RunSound, IsBusy
  <2>2. proc[p].missing \in SUBSET Service
    BY Typed DEF Run
  <2>3. Incomplete(file) => file.plan \in Plan
    BY Typed DEF Incomplete, State
  <2> QED
    BY <2>1, <2>2, <2>3 DEF PlanOf, Plan
<1>3. TypeOK'
  BY <1>1, <1>2, IdleIs DEF Inv, TypeOK
<1>4. ASSUME NEW q \in Proc
      PROVE  RunSound(proc'[q], file, approved') /\ Walked(proc'[q], file, enabled')
  <2>1. proc'[q] = (IF q = p THEN Idle ELSE proc[q])
    BY <1>1 DEF Inv, TypeOK
  <2>2. RunSound(proc[q], file, approved) /\ Walked(proc[q], file, enabled)
    BY Typed
  <2>3. RunSound(proc[q], file, approved')
    BY <1>1, <2>2, More
  <2> QED
    BY <1>1, <2>1, <2>2, <2>3, IdleIs
<1>5. \A q \in Proc : IsBusy(proc'[q]) => IsBusy(proc[q])
  BY <1>1, IdleIs DEF Inv, TypeOK
<1>6. EnablesOnlyApproved'
  BY <1>1 DEF Inv, EnablesOnlyApproved
<1>7. Journaled'
  BY <1>1 DEF Inv, Journaled
<1> QED
  BY <1>1, <1>3, <1>4, <1>5, <1>6, <1>7, AroundKeeps

LEMMA AbortKeeps == ASSUME Inv, NEW p \in Proc, Abort(p) PROVE Inv'
<1>1. /\ proc' = [proc EXCEPT ![p] = Idle]
      /\ faults' = [faults EXCEPT !["abort"] = @ + 1]
      /\ UNCHANGED <<file, disk, enabled, ops, approved, touched>>
  BY DEF Abort, End, Fault
<1>2. faults' \in [DOMAIN MaxFaults -> Nat] /\ faults'["power"] = faults["power"]
  BY <1>1, FaultIs
<1>3. TypeOK'
  BY <1>1, <1>2, IdleIs DEF Inv, TypeOK
<1>4. \A q \in Proc : proc'[q] = (IF q = p THEN Idle ELSE proc[q])
  BY <1>1 DEF Inv, TypeOK
<1>5. \A q \in Proc : RunSound(proc'[q], file, approved') /\ Walked(proc'[q], file, enabled')
  BY <1>1, <1>4, IdleIs DEF Inv
<1>6. \A q \in Proc : IsBusy(proc'[q]) => IsBusy(proc[q])
  BY <1>4, IdleIs
<1>7. EnablesOnlyApproved'
  BY <1>1 DEF Inv, EnablesOnlyApproved
<1>8. Journaled'
  BY <1>1, <1>2 DEF Inv, Journaled
<1> QED
  BY <1>1, <1>3, <1>5, <1>6, <1>7, <1>8, AroundKeeps

-----------------------------------------------------------------------------
(* Service Usage.                                                           *)
LEMMA EnableKeeps == ASSUME Inv, NEW p \in Proc, Enable(p) PROVE Inv'
<1>1. PICK o \in OpId, status \in {"pending", "succeeded", "failed"} :
        /\ ops[o] = None
        /\ ops' = [ops EXCEPT ![o] = [service |-> Current(p), who |-> proc[p].who,
                                      status |-> status, applied |-> status = "succeeded"]]
        /\ enabled' = IF status = "succeeded" THEN enabled \cup {Current(p)} ELSE enabled
        /\ faults' = IF status = "failed" THEN [faults EXCEPT !["fail"] = @ + 1] ELSE faults
        /\ proc' = [proc EXCEPT ![p].pc = "record", ![p].call = o, ![p].reply = status]
  BY DEF Enable
<1> DEFINE new == [service |-> Current(p), who |-> proc[p].who, status |-> status,
                   applied |-> status = "succeeded"]
           r == [proc[p] EXCEPT !.pc = "record", !.call = o, !.reply = status]
<1>2. proc[p].pc = "enable" /\ UNCHANGED <<file, disk, approved, touched>>
  BY DEF Enable
<1>3. proc[p].pc \in Started /\ proc[p].pc \in Serving
  BY <1>2 DEF Started, Serving
<1>4. /\ file.pending = Current(p) /\ Current(p) \in file.plan.services
      /\ Current(p) \in Service /\ file.plan \in approved /\ file.plan.who = proc[p].who
      /\ proc[p].who \in Account /\ file # NoFile /\ Incomplete(file) /\ IsBusy(proc[p])
  BY <1>3, StartedIs, Constants
<1>5. /\ new \in Operation /\ new.service = Current(p) /\ new.who = proc[p].who
      /\ new.status # "failed" /\ ~new.applied => status = "pending"
  BY <1>4 DEF Operation
<1>6. /\ r \in Run /\ r.pc = "record" /\ r.state = proc[p].state /\ r.who = proc[p].who
      /\ r.approval = proc[p].approval
  <2>1. proc[p] \in Run
    BY Typed
  <2> QED
    BY <2>1 DEF Run, Step
<1>7. ops' = [ops EXCEPT ![o] = new] /\ proc' = [proc EXCEPT ![p] = r]
  BY <1>1
<1> HIDE DEF new, r
<1>8. faults' \in [DOMAIN MaxFaults -> Nat] /\ faults'["power"] = faults["power"]
  <2>1. CASE status = "failed"
    BY <1>1, <2>1, FaultIs
  <2>2. CASE status # "failed"
    BY <1>1, <2>2 DEF Inv, TypeOK
  <2> QED
    BY <2>1, <2>2
<1>9. enabled' \in SUBSET Service /\ enabled \subseteq enabled'
  BY <1>1, <1>4 DEF Inv, TypeOK
<1>10. \A x \in OpId : ops'[x] = (IF x = o THEN new ELSE ops[x])
  BY <1>7 DEF Inv, TypeOK
<1>11. TypeOK'
  BY <1>2, <1>5, <1>6, <1>7, <1>8, <1>9 DEF Inv, TypeOK
<1>12. \A q \in Proc : proc'[q] = (IF q = p THEN r ELSE proc[q])
  BY <1>7 DEF Inv, TypeOK
<1>13. RunSound(r, file, approved) /\ Walked(r, file, enabled)
  <2>1. file.pending # NoService
    BY <1>4, Constants
  <2>2. proc[p].state = file /\ proc[p].approval \in approved \cup {NoApproval}
    BY <1>3, StartedIs
  <2> QED
    BY <1>4, <1>6, <2>1, <2>2 DEF RunSound, Walked, Started, Serving
<1>14. ASSUME NEW q \in Proc
       PROVE  RunSound(proc'[q], file, approved') /\ Walked(proc'[q], file, enabled')
  <2>1. RunSound(proc'[q], file, approved) /\ Walked(proc'[q], file, enabled)
    BY <1>12, <1>13, Typed
  <2> QED
    BY <1>2, <1>9, <2>1, More
<1>15. \A q \in Proc : IsBusy(proc'[q]) => IsBusy(proc[q])
  BY <1>4, <1>12
<1>16. EnablesOnlyApproved'
  <2> SUFFICES ASSUME NEW x \in OpId, ops'[x] # None
               PROVE  \E plan \in approved : plan.who = ops'[x].who /\ ops'[x].service \in plan.services
    BY <1>2 DEF EnablesOnlyApproved
  <2>1. CASE x = o
    BY <2>1, <1>4, <1>5, <1>10
  <2>2. CASE x # o
    BY <2>2, <1>10 DEF Inv, EnablesOnlyApproved
  <2> QED
    BY <2>1, <2>2
<1>17. Journaled'
  <2> SUFFICES ASSUME faults["power"] = 0, NEW x \in OpId, ops'[x] # None,
                      ops'[x].status # "failed", ~ops'[x].applied,
                      ops'[x].service \notin touched \cup enabled'
               PROVE  file.pending = ops'[x].service
    BY <1>2, <1>4, <1>8 DEF Journaled
  <2>1. CASE x = o
    BY <2>1, <1>4, <1>5, <1>10
  <2>2. CASE x # o
    <3>1. ops'[x] = ops[x] /\ ops[x].service \notin touched \cup enabled
      BY <2>2, <1>9, <1>10
    <3> QED
      BY <3>1 DEF Inv, Journaled
  <2> QED
    BY <2>1, <2>2
<1> QED
  BY <1>2, <1>11, <1>14, <1>15, <1>16, <1>17, AroundKeeps

\* An operation that stays with its service and account.
LEMMA OperationKeeps ==
  ASSUME Inv, NEW o \in OpId, NEW new \in Operation, ops[o] # None,
         ops' = [ops EXCEPT ![o] = new], new.service = ops[o].service, new.who = ops[o].who,
         enabled' \in SUBSET Service, enabled \subseteq enabled',
         UNCHANGED <<file, disk, proc, approved, touched>>,
         faults' \in [DOMAIN MaxFaults -> Nat], faults'["power"] = faults["power"],
         \/ new.status = "failed"
         \/ new.service \in enabled'
         \/ ops[o].status # "failed" /\ new.applied = ops[o].applied
  PROVE  Inv'
<1>1. \A x \in OpId : ops'[x] = (IF x = o THEN new ELSE ops[x])
  BY DEF Inv, TypeOK
<1>2. TypeOK'
  BY DEF Inv, TypeOK
<1>3. EnablesOnlyApproved'
  <2> SUFFICES ASSUME NEW x \in OpId, ops'[x] # None
               PROVE  \E plan \in approved : plan.who = ops'[x].who /\ ops'[x].service \in plan.services
    BY DEF EnablesOnlyApproved
  <2>1. ops[x] # None /\ ops'[x].who = ops[x].who /\ ops'[x].service = ops[x].service
    BY <1>1
  <2> QED
    BY <2>1 DEF Inv, EnablesOnlyApproved
<1>4. Journaled'
  <2> SUFFICES ASSUME faults["power"] = 0, NEW x \in OpId, ops'[x] # None,
                      ops'[x].status # "failed", ~ops'[x].applied,
                      ops'[x].service \notin touched \cup enabled'
               PROVE  file # NoFile /\ file.pending = ops'[x].service
    BY DEF Journaled
  <2>1. /\ ops[x] # None /\ ops[x].status # "failed" /\ ~ops[x].applied
        /\ ops[x].service = ops'[x].service /\ ops[x].service \notin touched \cup enabled
    BY <1>1
  <2> QED
    BY <2>1 DEF Inv, Journaled
<1> QED
  BY <1>2, <1>3, <1>4, WorldKeeps

LEMMA IssuedIs ==
  ASSUME Inv, NEW o \in OpId, ops[o] # None
  PROVE  ops[o] \in Operation /\ ops[o].service \in Service
BY DEF Inv, TypeOK, Operation

LEMMA ApplyKeeps == ASSUME Inv, NEW o \in OpId, Apply(o) PROVE Inv'
<1> DEFINE new == [ops[o] EXCEPT !.applied = TRUE]
<1>1. ops[o] # None /\ ops[o] \in Operation /\ ops[o].service \in Service
  BY IssuedIs DEF Apply
<1>2. new \in Operation /\ new.service = ops[o].service /\ new.who = ops[o].who
  BY <1>1 DEF Operation
<1>3. /\ ops' = [ops EXCEPT ![o] = new] /\ enabled' = enabled \cup {ops[o].service}
      /\ UNCHANGED <<file, disk, proc, approved, touched, faults>>
  BY DEF Apply
<1> HIDE DEF new
<1>4. enabled' \in SUBSET Service /\ faults \in [DOMAIN MaxFaults -> Nat]
  BY <1>1, <1>3 DEF Inv, TypeOK
<1> QED
  BY <1>1, <1>2, <1>3, <1>4, OperationKeeps

LEMMA SucceedKeeps == ASSUME Inv, NEW o \in OpId, Succeed(o) PROVE Inv'
<1> DEFINE new == [ops[o] EXCEPT !.status = "succeeded"]
<1>1. ops[o] # None /\ ops[o] \in Operation /\ ops[o].status # "failed"
  BY IssuedIs DEF Succeed
<1>2. /\ new \in Operation /\ new.service = ops[o].service /\ new.who = ops[o].who
      /\ new.applied = ops[o].applied
  BY <1>1 DEF Operation
<1>3. /\ ops' = [ops EXCEPT ![o] = new]
      /\ UNCHANGED <<file, disk, enabled, proc, approved, touched, faults>>
  BY DEF Succeed
<1> HIDE DEF new
<1>4. enabled \in SUBSET Service /\ faults \in [DOMAIN MaxFaults -> Nat]
  BY DEF Inv, TypeOK
<1> QED
  BY <1>1, <1>2, <1>3, <1>4, OperationKeeps

LEMMA FailKeeps == ASSUME Inv, NEW o \in OpId, Fail(o) PROVE Inv'
<1> DEFINE new == [ops[o] EXCEPT !.status = "failed"]
<1>1. ops[o] # None /\ ops[o] \in Operation
  BY IssuedIs DEF Fail
<1>2. /\ new \in Operation /\ new.service = ops[o].service /\ new.who = ops[o].who
      /\ new.status = "failed"
  BY <1>1 DEF Operation
<1>3. /\ ops' = [ops EXCEPT ![o] = new] /\ faults' = [faults EXCEPT !["fail"] = @ + 1]
      /\ UNCHANGED <<file, disk, enabled, proc, approved, touched>>
  BY DEF Fail, Fault
<1> HIDE DEF new
<1>4. /\ enabled \in SUBSET Service /\ faults' \in [DOMAIN MaxFaults -> Nat]
      /\ faults'["power"] = faults["power"]
  BY <1>3, FaultIs DEF Inv, TypeOK
<1> QED
  BY <1>1, <1>2, <1>3, <1>4, OperationKeeps

-----------------------------------------------------------------------------
(* Other users of the project, and the machine.                             *)
LEMMA OthersEnableKeeps == ASSUME Inv, NEW s \in Service, OthersEnable(s) PROVE Inv'
<1>1. /\ enabled' = enabled \cup {s} /\ touched' = touched \cup {s}
      /\ faults' = [faults EXCEPT !["outside"] = @ + 1]
      /\ UNCHANGED <<file, disk, ops, proc, approved>>
  BY DEF OthersEnable, Fault
<1>2. faults' \in [DOMAIN MaxFaults -> Nat] /\ faults'["power"] = faults["power"]
  BY <1>1, FaultIs
<1>3. TypeOK'
  BY <1>1, <1>2 DEF Inv, TypeOK
<1>4. EnablesOnlyApproved'
  BY <1>1 DEF Inv, EnablesOnlyApproved
<1>5. Journaled'
  BY <1>1, <1>2 DEF Inv, Journaled
<1> QED
  BY <1>1, <1>3, <1>4, <1>5, WorldKeeps

LEMMA OthersDisableKeeps == ASSUME Inv, NEW s \in Service, OthersDisable(s) PROVE Inv'
<1> DEFINE Left(p) == proc[p].dropped \cup ({s} \cap Seen(p))
           r(p) == [proc[p] EXCEPT !.dropped = Left(p)]
<1>1. /\ enabled' = enabled \ {s} /\ touched' = touched \cup {s}
      /\ faults' = [faults EXCEPT !["outside"] = @ + 1]
      /\ proc' = [p \in Proc |-> r(p)]
      /\ UNCHANGED <<file, disk, ops, approved>>
  BY DEF OthersDisable, Fault
<1>2. faults' \in [DOMAIN MaxFaults -> Nat] /\ faults'["power"] = faults["power"]
  BY <1>1, FaultIs
<1>3. ASSUME NEW p \in Proc
      PROVE  /\ r(p) \in Run /\ r(p).pc = proc[p].pc /\ r(p).who = proc[p].who
             /\ r(p).approval = proc[p].approval /\ r(p).state = proc[p].state
             /\ r(p).missing = proc[p].missing /\ r(p).cursor = proc[p].cursor
             /\ r(p).dropped = Left(p)
  <2>1. Left(p) \in SUBSET Service /\ proc[p] \in Run
    BY Typed DEF Run
  <2> HIDE DEF Left
  <2> QED
    BY <2>1 DEF Run
<1> HIDE DEF r
<1>4. TypeOK'
  BY <1>1, <1>2, <1>3 DEF Inv, TypeOK
<1>5. ASSUME NEW p \in Proc PROVE RunSound(r(p), file, approved)
  <2>1. RunSound(proc[p], file, approved)
    BY Typed
  <2> QED
    BY <1>3, <2>1 DEF RunSound, IsBusy
<1>6. ASSUME NEW p \in Proc PROVE Walked(r(p), file, enabled \ {s})
  <2>1. Walked(proc[p], file, enabled)
    BY Typed
  <2>2. CASE proc[p].pc = "discover"
    <3>1. \A t \in Service : t < proc[p].cursor => t \in enabled \cup proc[p].missing \cup proc[p].dropped
      BY <2>1, <2>2 DEF Walked
    <3>2. Seen(p) = {t \in Service : t < proc[p].cursor} \ proc[p].missing
      BY <2>2 DEF Seen
    <3> QED
      BY <1>3, <2>2, <3>1, <3>2 DEF Walked
  <2>3. CASE proc[p].pc = "readback"
    <3>1. \A t \in Service : t < proc[p].cursor => t \in enabled \cup proc[p].dropped
      BY <2>1, <2>3 DEF Walked
    <3>2. Seen(p) = {t \in Service : t < proc[p].cursor}
      BY <2>3 DEF Seen
    <3> QED
      BY <1>3, <2>3, <3>1, <3>2 DEF Walked
  <2>4. CASE proc[p].pc \in {"decide", "done"}
    <3>1. Seen(p) = Service
      BY <2>4 DEF Seen
    <3> QED
      BY <1>3, <2>1, <2>4, <3>1 DEF Walked
  <2>5. CASE proc[p].pc \notin {"discover", "readback", "decide", "done"}
    BY <1>3, <2>5 DEF Walked
  <2> QED
    BY <2>2, <2>3, <2>4, <2>5
<1>7. \A p \in Proc : RunSound(proc'[p], file, approved') /\ Walked(proc'[p], file, enabled')
  BY <1>1, <1>5, <1>6
<1>8. \A p \in Proc : IsBusy(proc'[p]) => IsBusy(proc[p])
  BY <1>1, <1>3 DEF IsBusy
<1>9. EnablesOnlyApproved'
  BY <1>1 DEF Inv, EnablesOnlyApproved
<1>10. Journaled'
  BY <1>1, <1>2 DEF Inv, Journaled
<1> QED
  BY <1>1, <1>4, <1>7, <1>8, <1>9, <1>10, AroundKeeps

LEMMA WriteBackKeeps == ASSUME Inv, WriteBack PROVE Inv'
<1>1. disk' = file /\ UNCHANGED <<file, enabled, ops, proc, approved, touched, faults>>
  BY DEF WriteBack
<1>2. TypeOK'
  BY <1>1 DEF Inv, TypeOK
<1>3. OneRun' /\ EnablesOnlyApproved' /\ Journaled'
  BY <1>1 DEF Inv, OneRun, EnablesOnlyApproved, Journaled
<1> QED
  BY <1>1, <1>2, <1>3 DEF Inv

LEMMA PowerLossKeeps == ASSUME Inv, PowerLoss PROVE Inv'
<1>1. /\ file' = disk /\ proc' = [p \in Proc |-> Idle]
      /\ faults' = [faults EXCEPT !["power"] = @ + 1]
      /\ UNCHANGED <<disk, enabled, ops, approved, touched>>
  BY DEF PowerLoss, Fault
<1>2. faults' \in [DOMAIN MaxFaults -> Nat] /\ faults'["power"] # 0
  BY <1>1, FaultIs
<1>3. TypeOK'
  BY <1>1, <1>2, IdleIs DEF Inv, TypeOK
<1>4. \A p \in Proc : RunSound(proc'[p], file', approved') /\ Walked(proc'[p], file', enabled')
  BY <1>1, IdleIs
<1>5. OneRun'
  BY <1>1, IdleIs DEF OneRun
<1>6. EnablesOnlyApproved' /\ Journaled'
  BY <1>1, <1>2 DEF Inv, EnablesOnlyApproved, Journaled
<1>7. FileSound(file', approved') /\ FileSound(disk', approved')
  BY <1>1 DEF Inv
<1> QED
  BY <1>3, <1>4, <1>5, <1>6, <1>7 DEF Inv

-----------------------------------------------------------------------------
(* The theorems.                                                            *)
LEMMA RunStepKeeps == ASSUME Inv, NEW p \in Proc, RunStep(p) PROVE Inv'
<1>1. CASE Discover(p) \/ NothingMissing(p) \/ ShowPlan(p) \/ StartPlan(p)
  BY <1>1, DiscoverKeeps, NothingMissingKeeps, ShowPlanKeeps, StartPlanKeeps
<1>2. CASE RefuseApproval(p) \/ NeverSettles(p)
  BY <1>2, EndKeeps DEF RefuseApproval, NeverSettles, Quiet
<1>3. CASE Intend(p) \/ TakeUp(p) \/ FinishEnabled(p) \/ StillDisabled(p) \/ GiveUpWaiting(p)
  BY <1>3, IntendKeeps, TakeUpKeeps, FinishEnabledKeeps, StillDisabledKeeps, GiveUpWaitingKeeps
<1>4. CASE Enable(p) \/ Record(p) \/ Poll(p)
  BY <1>4, EnableKeeps, RecordKeeps, PollKeeps
<1>5. CASE AllDone(p) \/ Readback(p) \/ Complete(p)
  BY <1>5, AllDoneKeeps, ReadbackKeeps, CompleteKeeps
<1> QED
  BY <1>1, <1>2, <1>3, <1>4, <1>5 DEF RunStep

LEMMA NextKeeps == Inv /\ [Next]_vars => Inv'
<1> SUFFICES ASSUME Inv, [Next]_vars PROVE Inv'
  OBVIOUS
<1>1. ASSUME NEW p \in Proc, RunStep(p) \/ Abort(p) PROVE Inv'
  BY <1>1, RunStepKeeps, AbortKeeps
<1>2. ASSUME NEW p \in Proc, NEW who \in Account, NEW approval \in approved \cup {NoApproval},
             Open(p, who, approval)
      PROVE  Inv'
  BY <1>2, OpenKeeps
<1>3. ASSUME NEW o \in OpId, Apply(o) \/ Succeed(o) \/ Fail(o) PROVE Inv'
  BY <1>3, ApplyKeeps, SucceedKeeps, FailKeeps
<1>4. ASSUME NEW s \in Service, OthersDisable(s) \/ OthersEnable(s) PROVE Inv'
  BY <1>4, OthersDisableKeeps, OthersEnableKeeps
<1>5. CASE WriteBack
  BY <1>5, WriteBackKeeps
<1>6. CASE PowerLoss
  BY <1>6, PowerLossKeeps
<1>7. CASE UNCHANGED vars
  BY <1>7 DEF vars, Inv, TypeOK, OneRun, EnablesOnlyApproved, Journaled
<1> QED
  BY <1>1, <1>2, <1>3, <1>4, <1>5, <1>6, <1>7 DEF Next

\* The inductive invariant holds in every state a project can reach.
THEOREM InvariantHolds == Spec => []Inv
BY InitInv, NextKeeps, PTL DEF Spec

\* Every variable has its type: no run is ever at a step with a service, a
\* plan or an operation that does not exist.
THEOREM TypeCorrect == Spec => []TypeOK
<1>1. Inv => TypeOK
  BY DEF Inv
<1> QED
  BY <1>1, InvariantHolds, PTL

\* Whatever runs overlap, are killed or take up each other's file: an enable
\* is only sent for a service of a plan that its account was shown.
THEOREM OnlyWhatWasApproved == Spec => []EnablesOnlyApproved
<1>1. Inv => EnablesOnlyApproved
  BY DEF Inv
<1> QED
  BY <1>1, InvariantHolds, PTL

\* The journal names the service of every enable that has yet to show, until
\* the machine loses power.
THEOREM EnablesAreJournaled == Spec => []NoForgottenEnable
<1>1. Inv => NoForgottenEnable
  <2> SUFFICES ASSUME Inv, faults["power"] = 0, NEW s \in Service \ (touched \cup enabled),
                      Running(s) # {}
               PROVE  file # NoFile /\ file.pending = s
    BY DEF NoForgottenEnable
  <2>1. PICK o \in OpId : /\ ops[o] # None /\ ops[o].service = s
                          /\ ops[o].status # "failed" /\ ~ops[o].applied
    BY DEF Running
  <2> QED
    BY <2>1 DEF Inv, Journaled
<1> QED
  BY <1>1, InvariantHolds, PTL

\* No file a run leaves, and none a power loss leaves, has a pending service
\* out of the order in which a later run would take it up.
THEOREM JournalFollowsPlan == Spec => []PendingIsFirst
<1>1. Inv => PendingIsFirst
  BY DEF Inv, FileSound, PendingIsFirst
<1> QED
  BY <1>1, InvariantHolds, PTL

\* A run that says the project is prepared has seen every service enabled.
THEOREM PreparedIsEnabled == Spec => []CompleteMeansEnabled
<1>1. Inv => CompleteMeansEnabled
  BY DEF Inv, Walked, CompleteMeansEnabled
<1> QED
  BY <1>1, InvariantHolds, PTL

\* The lock and the single writer: what a run goes by is what the file says.
THEOREM RunsKnowTheirFile == Spec => []MemoryIsFile
<1>1. Inv => MemoryIsFile
  BY DEF Inv, RunSound, MemoryIsFile, Busy, IsBusy
<1> QED
  BY <1>1, InvariantHolds, PTL
=============================================================================

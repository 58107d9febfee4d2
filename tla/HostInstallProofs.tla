--------------------------- MODULE HostInstallProofs ---------------------------
(***************************************************************************)
(* Proofs about the installation of the host, for any name servers, host   *)
(* keys, receipt keys, runs and faults: the types and the safety           *)
(* properties.                                                             *)
(***************************************************************************)
EXTENDS HostInstall, FiniteSetTheorems, TLAPS

Working == FixedStep \cup {"check", "receipt", "cleanup"}
Asking  == {"pin", "connect", "upload", "read back", "execute", "wait"}

-----------------------------------------------------------------------------
(* The inductive invariant.                                                 *)

\* What an installer has done by the step it is at, with the services u that
\* run.
Sound(q, u) ==
  /\ q.pc = "load" => \A a \in Artifact : a < q.file => q.loaded[a] # Nil
  /\ q.pc \in Working => \A a \in Artifact : q.loaded[a] # Nil
  /\ q.pc \in Working \ {"cleanup"} => q.file = 1
  /\ q.pc \in {"cleanup", "success"} => q.answer # Nil
  /\ q.pc = "receipt" => Service \ u \subseteq q.dropped
  /\ q.pc = "VerifyUpdater" => {"split", "caddy"} \ u \subseteq q.dropped

\* What the installer of the waiting run has removed of the files s.
Removed(q, s) ==
  /\ q.pc = "cleanup" => \A a \in Artifact : a < q.file => s[a] = Nil
  /\ q.pc = "success" => s = NoFiles

RunSound ==
  /\ run.pc \notin {"idle", "key"} => run.key # Nil
  /\ run.pc \in Asking => run.request # Nil
  /\ run.pc = "wait" => Removed(installer[run.id], staged)
  /\ recorded # Nil => run.pc = "idle" /\ staged = NoFiles

\* start-local.sh lets one installer past it.  No receipt is there while it is
\* on its way, and what installers answer and the engine records is the one
\* that it writes.
Beyond == {"VerifyDns", "StartCaddy", "VerifyRuntime", "VerifyHttps", "VerifyTurn",
           "VerifyUpdater", "receipt"}

OneReceipt ==
  /\ \A i, j \in Id : installer[i].pc \in Beyond /\ installer[j].pc \in Beyond => i = j
  /\ \A i \in Id : installer[i].pc \in Beyond => started = TRUE /\ receipt = Nil
  /\ receipt # Nil => started = TRUE
  /\ \A i \in Id : installer[i].answer \in {Nil, receipt}
  /\ recorded \in {Nil, receipt}

Pinned ==
  faults["power"] = 0 =>
    /\ contacted \subseteq {node.pin}
    /\ run.pc = "connect" => run.pin = node.pin

Inv ==
  /\ TypeOK
  /\ \A i \in Id : Sound(installer[i], up)
  /\ RunSound
  /\ OneReceipt
  /\ Pinned

-----------------------------------------------------------------------------
(* Values.                                                                  *)

LEMMA Values ==
  /\ 1 \in Id /\ 1 \in Artifact /\ RequestFile \in Artifact /\ KeyFile \in Artifact
  /\ Nil \notin Key /\ Nil \notin Request /\ Nil \notin Receipt /\ Nil \notin File /\ Nil \notin SshKey
  /\ NoFiles \in [Artifact -> File \cup {Nil}]
  /\ \A a \in Artifact : NoFiles[a] = Nil
  /\ Idle \in Local /\ None \in Process
BY HostAssumption, NilAssumption
   DEF Id, Artifact, RequestFile, KeyFile, NoFiles, Idle, Local, None, Process

LEMMA FaultsGrow ==
  ASSUME TypeOK, NEW k \in Fault, Fail(k)
  PROVE  /\ faults' \in [Fault -> Nat]
         /\ faults'[k] = faults[k] + 1
         /\ \A j \in Fault : faults[j] <= faults'[j]
BY DEF Fail, TypeOK

\* Faults only become more.
Grow == faults' \in [Fault -> Nat] /\ \A j \in Fault : faults[j] <= faults'[j]

LEMMA PowerLosses ==
  ASSUME TypeOK, Grow
  PROVE  faults'["power"] = 0 => faults["power"] = 0
BY DEF TypeOK, Grow, Fault

-----------------------------------------------------------------------------
(* A step of one installer.                                                 *)
LEMMA InstallerStep ==
  ASSUME Inv, NEW i \in Id, NEW q \in Process,
         installer' = [installer EXCEPT ![i] = q],
         UNCHANGED <<env, local>>, Grow,
         staged' \in [Artifact -> File \cup {Nil}],
         \A a \in Artifact : staged'[a] = staged[a] \/ staged'[a] = Nil,
         receipt' \in Receipt \cup {Nil},
         \/ receipt' = receipt
         \/ receipt = Nil /\ installer[i].pc \in Beyond /\ q.pc \notin Beyond,
         started' \in BOOLEAN, started = TRUE => started' = TRUE,
         q.pc \in Beyond => started' = TRUE /\ receipt = Nil
                              /\ (installer[i].pc \in Beyond \/ started = FALSE),
         q.answer \in {Nil, receipt'},
         up \subseteq up', up' \in SUBSET Service, provisioned' \in BOOLEAN,
         Sound(q, up'),
         RunAt("wait") /\ run.id = i => Removed(q, staged')
  PROVE  Inv'
<1>0. TypeOK /\ installer \in [Id -> Process] /\ staged \in [Artifact -> File \cup {Nil}]
  BY DEF Inv, TypeOK
<1>1. /\ \A j \in Id : installer'[j] = IF j = i THEN q ELSE installer[j]
      /\ installer' \in [Id -> Process]
  BY <1>0
<1>2. UNCHANGED <<nameserver, published, sshKey, node, keys, recorded, run, contacted>>
  BY DEF env, local
<1>3. TypeOK'
  BY <1>0, <1>1, <1>2 DEF TypeOK, Grow
<1>4. \A j \in Id : Sound(installer[j], up)'
  <2> SUFFICES ASSUME NEW j \in Id
               PROVE  Sound(installer'[j], up')
    OBVIOUS
  <2>1. CASE j = i
    BY <1>1, <2>1
  <2>2. CASE j # i
    <3>1. installer'[j] = installer[j] /\ Sound(installer[j], up)
      BY <1>1, <2>2 DEF Inv
    <3> QED
      BY <3>1 DEF Sound
  <2> QED
    BY <2>1, <2>2
<1>5. RunSound'
  <2>1. run.pc = "wait" => Removed(installer'[run.id], staged')
    <3>1. run \in Local /\ run.id \in Id
      BY <1>0 DEF TypeOK, Local
    <3>2. CASE run.id = i
      BY <1>1, <3>2 DEF RunAt
    <3>3. CASE run.id # i
      <4>1. installer'[run.id] = installer[run.id]
        BY <1>1, <3>1, <3>3
      <4>2. staged = NoFiles => staged' = NoFiles
        BY Values
      <4> QED
        BY <4>1, <4>2 DEF Inv, RunSound, Removed
    <3> QED
      BY <3>2, <3>3
  <2>2. staged = NoFiles => staged' = NoFiles
    BY Values
  <2> QED
    BY <1>2, <2>1, <2>2 DEF Inv, RunSound
<1>6. OneReceipt'
  <2>0. OneReceipt
    BY DEF Inv
  <2>1. receipt' # Nil => started' = TRUE
    BY <2>0 DEF OneReceipt
  <2>2. \A j \in Id : installer'[j].answer \in {Nil, receipt'}
    <3> SUFFICES ASSUME NEW j \in Id
                 PROVE  installer'[j].answer \in {Nil, receipt'}
      OBVIOUS
    <3>1. CASE j = i
      BY <1>1, <3>1
    <3>2. CASE j # i
      BY <1>1, <2>0, <3>2 DEF OneReceipt
    <3> QED
      BY <3>1, <3>2
  <2>3. recorded' \in {Nil, receipt'}
    BY <1>2, <2>0 DEF OneReceipt
  <2>4. \A j \in Id : installer'[j].pc \in Beyond => started' = TRUE /\ receipt' = Nil
    <3> SUFFICES ASSUME NEW j \in Id, installer'[j].pc \in Beyond
                 PROVE  started' = TRUE /\ receipt' = Nil
      OBVIOUS
    <3>1. CASE j = i
      BY <1>1, <3>1
    <3>2. CASE j # i
      BY <1>1, <2>0, <3>2 DEF OneReceipt
    <3> QED
      BY <3>1, <3>2
  <2>5. \A j, k \in Id : installer'[j].pc \in Beyond /\ installer'[k].pc \in Beyond => j = k
    <3>1. \A j \in Id : installer'[j].pc \in Beyond /\ j # i => ~(q.pc \in Beyond)
      BY <1>1, <2>0 DEF OneReceipt
    <3> QED
      BY <1>1, <2>0, <3>1 DEF OneReceipt
  <2> QED
    BY <2>1, <2>2, <2>3, <2>4, <2>5 DEF OneReceipt
<1>7. Pinned'
  BY <1>0, <1>2, PowerLosses DEF Inv, Pinned
<1> QED
  BY <1>3, <1>4, <1>5, <1>6, <1>7 DEF Inv

LEMMA Unchanged == ASSUME TypeOK, UNCHANGED faults PROVE Grow
BY DEF TypeOK, Grow

\* It goes on to its next step.
LEMMA GoesOn ==
  ASSUME Inv, NEW i \in Id, NEW next \in FixedStep \cup {"receipt"}, Goto(i, next),
         installer[i].pc \in FixedStep \cup {"check"},
         UNCHANGED <<env, local, staged, receipt, faults>>,
         up \subseteq up', up' \in SUBSET Service, provisioned' \in BOOLEAN,
         started' \in BOOLEAN, started = TRUE => started' = TRUE,
         next \in Beyond => started' = TRUE /\ receipt = Nil
                              /\ (installer[i].pc \in Beyond \/ started = FALSE),
         next = "receipt" => Service \ up' \subseteq installer[i].dropped,
         next = "VerifyUpdater" => {"split", "caddy"} \ up' \subseteq installer[i].dropped
  PROVE  Inv'
<1> DEFINE q == [installer[i] EXCEPT !.pc = next]
<1>0. TypeOK /\ installer[i] \in Process /\ Sound(installer[i], up)
  BY DEF Inv, TypeOK
<1>1. installer' = [installer EXCEPT ![i] = q]
  BY DEF Goto
<1>2. /\ q \in Process /\ q.pc = next
      /\ q.loaded = installer[i].loaded /\ q.file = installer[i].file
      /\ q.dropped = installer[i].dropped /\ q.answer = installer[i].answer
  BY <1>0 DEF Process
<1> HIDE DEF q
<1>3. Sound(q, up')
  <2>1. installer[i].pc \in Working \ {"cleanup"}
    BY DEF Working, FixedStep
  <2>2. next \notin {"load", "cleanup", "success"}
    BY DEF FixedStep
  <2> QED
    BY <1>0, <1>2, <2>1, <2>2 DEF Sound
<1>4. q.answer \in {Nil, receipt'} /\ receipt' = receipt
  BY <1>2 DEF Inv, OneReceipt
<1>5. Removed(q, staged')
  BY <1>2 DEF Removed, FixedStep
<1>6. staged' \in [Artifact -> File \cup {Nil}] /\ receipt' \in Receipt \cup {Nil}
  BY <1>0 DEF TypeOK
<1> QED
  BY <1>0, <1>1, <1>2, <1>3, <1>4, <1>5, <1>6, InstallerStep, Unchanged

\* It ends without a receipt.
LEMMA GivesUp ==
  ASSUME Inv, NEW i \in Id, NEW outcome \in {"waiting", "failure"}, Exit(i, outcome),
         UNCHANGED <<env, local, staged, receipt, up>>, Grow, provisioned' \in BOOLEAN,
         started' \in BOOLEAN, started = TRUE => started' = TRUE
  PROVE  Inv'
<1> DEFINE q == IF RunAt("wait") /\ run.id = i THEN [installer[i] EXCEPT !.pc = outcome] ELSE None
<1>0. TypeOK /\ installer[i] \in Process /\ Sound(installer[i], up)
  BY DEF Inv, TypeOK
<1>1. installer' = [installer EXCEPT ![i] = q]
  BY DEF Exit
<1>2. \/ /\ q \in Process /\ q.pc = outcome
         /\ q.loaded = installer[i].loaded /\ q.answer = installer[i].answer
      \/ q = None
  BY <1>0 DEF Process, Outcome
<1> HIDE DEF q
<1>3. q \in Process /\ q.pc \in {"waiting", "failure", "none"}
  BY <1>2, Values DEF None
<1>4. Sound(q, up') /\ Removed(q, staged') /\ q.pc \notin Beyond
  BY <1>3 DEF Sound, Removed, Working, FixedStep, Beyond
<1>5. q.answer \in {Nil, receipt'} /\ receipt' = receipt
  BY <1>2 DEF Inv, OneReceipt, None
<1>6. staged' \in [Artifact -> File \cup {Nil}] /\ receipt' \in Receipt \cup {Nil}
      /\ up' \in SUBSET Service
  BY <1>0 DEF TypeOK
<1> QED
  BY <1>1, <1>3, <1>4, <1>5, <1>6, InstallerStep

LEMMA OnItsWay ==
  ASSUME Inv, NEW i \in Id, installer[i].pc \in Beyond
  PROVE  started = TRUE /\ receipt = Nil
BY DEF Inv, OneReceipt

LEMMA GateKeeps ==
  ASSUME Inv, NEW i \in Id, NEW pc \in FixedStep, NEW next \in FixedStep \cup {"receipt"},
         NEW condition, Gate(i, pc, next, condition),
         next \in Beyond => pc \in Beyond,
         condition => /\ next = "receipt" => Service \ up \subseteq installer[i].dropped
                      /\ next = "VerifyUpdater" => {"split", "caddy"} \subseteq up
  PROVE  Inv'
<1>1. /\ TypeOK /\ UNCHANGED <<env, local, staged, receipt, provisioned, started, up, faults>>
      /\ installer[i].pc = pc
  BY DEF Inv, Gate, At, NothingElse, host
<1>2. /\ up' \in SUBSET Service /\ provisioned' \in BOOLEAN /\ started' \in BOOLEAN /\ Grow
      /\ started = TRUE => started' = TRUE
  BY <1>1, Unchanged DEF TypeOK
<1>3. CASE condition
  <2>1. Goto(i, next)
    BY <1>3 DEF Gate
  <2>2. next \in Beyond => /\ started' = TRUE /\ receipt = Nil
                            /\ (installer[i].pc \in Beyond \/ started = FALSE)
    BY <1>1, OnItsWay
  <2> QED
    BY <1>1, <1>2, <1>3, <2>1, <2>2, GoesOn
<1>4. CASE ~condition
  BY <1>1, <1>2, <1>4, GivesUp DEF Gate
<1> QED
  BY <1>3, <1>4

LEMMA StepKeeps ==
  ASSUME Inv, NEW i \in Id, NEW pc \in FixedStep,
         NEW next \in FixedStep \ {"VerifyUpdater"}, Step(i, pc, next),
         next \in Beyond => pc \in Beyond, UNCHANGED started,
         up \subseteq up', up' \in SUBSET Service, provisioned' \in BOOLEAN
  PROVE  Inv'
<1>1. next \notin {"receipt", "VerifyUpdater"} /\ started' \in BOOLEAN
  BY DEF FixedStep, Inv, TypeOK
<1>2. /\ installer[i].pc = pc /\ Goto(i, next)
      /\ UNCHANGED <<env, local, staged, receipt, faults>>
  BY DEF Step, At
<1>3. next \in Beyond => /\ started' = TRUE /\ receipt = Nil
                          /\ (installer[i].pc \in Beyond \/ started = FALSE)
  BY <1>2, OnItsWay
<1> QED
  BY <1>1, <1>2, <1>3, GoesOn

LEMMA StartMessageServerKeeps == ASSUME Inv, NEW i \in Id, StartMessageServer(i) PROVE Inv'
<1>1. /\ TypeOK /\ installer[i].pc = "StartMessageServer" /\ started \in BOOLEAN
      /\ UNCHANGED <<env, local, staged, receipt, provisioned, faults>>
      /\ Grow /\ provisioned' \in BOOLEAN /\ up \in SUBSET Service
  BY Unchanged DEF Inv, TypeOK, StartMessageServer, At
<1>2. CASE started = TRUE
  <2>1. Exit(i, "failure") /\ UNCHANGED <<started, up>>
    BY <1>2 DEF StartMessageServer
  <2> QED
    BY <1>1, <2>1, GivesUp
<1>3. CASE started = FALSE
  <2>1. Goto(i, "VerifyDns") /\ started' = TRUE /\ up' = up \cup {"split"}
    BY <1>3 DEF StartMessageServer
  <2>2. receipt = Nil
    BY <1>3 DEF Inv, OneReceipt
  <2>3. up \subseteq up' /\ up' \in SUBSET Service
    BY <1>1, <2>1 DEF Service
  <2> QED
    BY <1>1, <1>3, <2>1, <2>2, <2>3, GoesOn DEF FixedStep
<1> QED
  BY <1>1, <1>2, <1>3

LEMMA ProvisionKeeps == ASSUME Inv, NEW i \in Id, Provision(i) PROVE Inv'
<1>1. /\ TypeOK /\ installer[i].pc = "Provision" /\ started' \in BOOLEAN
      /\ UNCHANGED <<env, local, staged, receipt, started, up, faults>>
      /\ Grow /\ provisioned' \in BOOLEAN /\ up' \in SUBSET Service
  BY Unchanged DEF Inv, TypeOK, Provision, At
<1>2. CASE Exit(i, "failure")
  BY <1>1, <1>2, GivesUp
<1>3. CASE Goto(i, "StartMessageServer")
  BY <1>1, <1>3, GoesOn DEF FixedStep, Beyond
<1> QED
  BY <1>2, <1>3 DEF Provision

LEMMA VerifyDnsKeeps == ASSUME Inv, NEW i \in Id, VerifyDns(i) PROVE Inv'
<1>1. /\ TypeOK /\ installer[i].pc = "VerifyDns" /\ started' \in BOOLEAN
      /\ UNCHANGED <<env, local, staged, receipt, provisioned, started, up, faults>>
      /\ Grow /\ provisioned' \in BOOLEAN /\ up' \in SUBSET Service
  BY Unchanged DEF Inv, TypeOK, VerifyDns, At, NothingElse, host
<1>2. CASE Exit(i, "waiting")
  BY <1>1, <1>2, GivesUp
<1>3. CASE Goto(i, "StartCaddy")
  <2>1. installer[i].pc \in Beyond /\ started = TRUE /\ receipt = Nil
    BY <1>1, OnItsWay DEF Beyond
  <2> QED
    BY <1>1, <1>3, <2>1, GoesOn DEF FixedStep
<1> QED
  BY <1>2, <1>3 DEF VerifyDns

LEMMA RunStepsKeep == ASSUME Inv, NEW i \in Id, RunSteps(i) PROVE Inv'
<1>0. TypeOK /\ up \in SUBSET Service /\ provisioned \in BOOLEAN /\ started \in BOOLEAN
      /\ Sound(installer[i], up)
  BY DEF Inv, TypeOK
<1>1. CASE LockPackages(i)
  <2>1. UNCHANGED <<env, local, staged, receipt, provisioned, started, up, faults>>
    BY <1>1 DEF LockPackages, NothingElse, host
  <2>2. CASE Exit(i, "waiting")
    BY <1>0, <2>1, <2>2, GivesUp, Unchanged
  <2>3. CASE Goto(i, "InstallDocker")
    BY <1>0, <1>1, <2>1, <2>3, GoesOn DEF LockPackages, At, FixedStep, Beyond
  <2> QED
    BY <1>1, <2>2, <2>3 DEF LockPackages
<1>2. CASE InstallDocker(i) \/ PullImages(i) \/ InstallFiles(i)
  BY <1>0, <1>2, StepKeeps DEF InstallDocker, PullImages, InstallFiles, FixedStep, Beyond
<1>3. CASE InstallUpdaterUnit(i)
  BY <1>0, <1>3, StepKeeps DEF InstallUpdaterUnit, FixedStep, Service, Beyond
<1>4. CASE StartCaddy(i)
  BY <1>0, <1>4, StepKeeps DEF StartCaddy, FixedStep, Service, Beyond
<1>5. CASE MaterializeRuntime(i) \/ VerifyRuntime(i) \/ VerifyHttps(i) \/ VerifyTurn(i)
  BY <1>5, GateKeeps DEF MaterializeRuntime, VerifyRuntime, VerifyHttps, VerifyTurn, FixedStep,
                         Beyond
<1>6. CASE VerifyUpdater(i)
  <2>1. "updater" \in up => Service \ up \subseteq installer[i].dropped
    BY <1>0, <1>6 DEF VerifyUpdater, Gate, At, Sound, Service
  <2> QED
    BY <1>6, <2>1, GateKeeps DEF VerifyUpdater, FixedStep, Beyond
<1> QED
  BY <1>1, <1>2, <1>3, <1>4, <1>5, <1>6, ProvisionKeeps, StartMessageServerKeeps, VerifyDnsKeeps
     DEF RunSteps

LEMMA LoadKeeps == ASSUME Inv, NEW i \in Id, Load(i) PROVE Inv'
<1> DEFINE a == installer[i].file
<1> DEFINE p == installer[i]
<1>0. /\ TypeOK /\ p \in Process /\ Sound(p, up) /\ p.pc = "load"
      /\ a \in Artifact /\ p.loaded \in [Artifact -> File \cup {Nil}]
      /\ staged \in [Artifact -> File \cup {Nil}] /\ installer \in [Id -> Process]
  BY DEF Inv, TypeOK, Load, At, Process
<1>1. /\ UNCHANGED <<env, local, staged, receipt, provisioned, started, up, faults>> /\ Grow
      /\ receipt' \in Receipt \cup {Nil} /\ up' \in SUBSET Service /\ provisioned' \in BOOLEAN
      /\ started' \in BOOLEAN
  BY <1>0, Unchanged DEF Load, NothingElse, host, TypeOK
<1>2. CASE Exit(i, "failure")
  BY <1>1, <1>2, GivesUp
<1>3. CASE ~Exit(i, "failure")
  <2> DEFINE q == [p EXCEPT !.loaded[a] = staged[a],
                            !.file = IF a = 4 THEN 1 ELSE a + 1,
                            !.pc = IF a = 4 THEN "check" ELSE "load"]
  <2>1. staged[a] # Nil /\ installer' = [installer EXCEPT ![i] = q]
    BY <1>0, <1>3 DEF Load
  <2>2. /\ q.loaded = [p.loaded EXCEPT ![a] = staged[a]] /\ q.answer = p.answer
        /\ q.file = IF a = 4 THEN 1 ELSE a + 1
        /\ q.pc = IF a = 4 THEN "check" ELSE "load"
        /\ q \in Process
    <3>1. (IF a = 4 THEN 1 ELSE a + 1) \in Artifact
      BY <1>0 DEF Artifact
    <3>2. [p.loaded EXCEPT ![a] = staged[a]] \in [Artifact -> File \cup {Nil}]
      BY <1>0
    <3> QED
      BY <1>0, <3>1, <3>2 DEF Process
  <2> HIDE DEF q
  <2>3. \A b \in Artifact : q.loaded[b] = IF b = a THEN staged[a] ELSE p.loaded[b]
    BY <1>0, <2>2
  <2>4. Sound(q, up')
    <3>1. CASE a = 4
      <4>1. \A b \in Artifact : b # a => b < a
        BY <3>1 DEF Artifact
      <4>2. \A b \in Artifact : q.loaded[b] # Nil
        BY <1>0, <2>1, <2>3, <4>1 DEF Sound
      <4> QED
        BY <2>2, <3>1, <4>2 DEF Sound
    <3>2. CASE a # 4
      <4>1. \A b \in Artifact : b < a + 1 => b = a \/ b < a
        BY <1>0 DEF Artifact
      <4>2. \A b \in Artifact : b < a + 1 => q.loaded[b] # Nil
        BY <1>0, <2>1, <2>3, <4>1 DEF Sound
      <4> QED
        BY <2>2, <3>2, <4>2 DEF Sound, Working, FixedStep
    <3> QED
      BY <3>1, <3>2
  <2>5. q.answer \in {Nil, receipt'} /\ q.pc \notin Beyond
    BY <1>1, <2>2 DEF Inv, OneReceipt, Beyond
  <2>6. Removed(q, staged')
    BY <2>2 DEF Removed
  <2> QED
    BY <1>0, <1>1, <2>1, <2>2, <2>4, <2>5, <2>6, InstallerStep
<1> QED
  BY <1>2, <1>3

\* It answers with a receipt: one that is there, or one that it writes.
LEMMA Answers ==
  ASSUME Inv, NEW i \in Id, NEW r \in Receipt, NEW gone \in SUBSET Service,
         \/ installer[i].pc = "check" /\ receipt = r
         \/ installer[i].pc = "receipt",
         installer' = [installer EXCEPT ![i] =
           [installer[i] EXCEPT !.pc = "cleanup", !.answer = r, !.dropped = gone]],
         UNCHANGED <<env, local, staged, provisioned, started, up, faults>>,
         receipt' = r
  PROVE  Inv'
<1> DEFINE q == [installer[i] EXCEPT !.pc = "cleanup", !.answer = r, !.dropped = gone]
<1>0. TypeOK /\ installer[i] \in Process /\ Sound(installer[i], up)
  BY DEF Inv, TypeOK
<1>1. installer' = [installer EXCEPT ![i] = q]
  OBVIOUS
<1>2. /\ q \in Process /\ q.pc = "cleanup" /\ q.answer = r
      /\ q.loaded = installer[i].loaded /\ q.file = installer[i].file
  BY <1>0 DEF Process
<1> HIDE DEF q
<1>3. /\ q.file = 1 /\ r # Nil
      /\ \A a \in Artifact : q.loaded[a] # Nil
  BY <1>0, <1>2, Values DEF Sound, Working
<1>4. Sound(q, up')
  BY <1>2, <1>3 DEF Sound, Working, FixedStep
<1>5. Removed(q, staged')
  <2>1. \A a \in Artifact : ~(a < 1)
    BY DEF Artifact
  <2> QED
    BY <1>2, <1>3, <2>1 DEF Removed
<1>6. /\ q.answer \in {Nil, receipt'} /\ q.pc \notin Beyond
      /\ \/ receipt' = receipt
         \/ receipt = Nil /\ installer[i].pc \in Beyond
  BY <1>2, OnItsWay DEF Beyond
<1>7. /\ Grow /\ staged' \in [Artifact -> File \cup {Nil}] /\ up' \in SUBSET Service
      /\ provisioned' \in BOOLEAN /\ started' \in BOOLEAN /\ receipt' \in Receipt \cup {Nil}
  BY <1>0, Unchanged DEF TypeOK
<1> QED
  BY <1>1, <1>2, <1>4, <1>5, <1>6, <1>7, InstallerStep

LEMMA Loaded ==
  ASSUME Inv, NEW i \in Id, installer[i].pc \in Working
  PROVE  LoadedRequest(i) \in Request
<1>1. installer[i].loaded[RequestFile] \in File
  BY Values DEF Inv, TypeOK, Process, Sound
<1> QED
  BY <1>1 DEF LoadedRequest, File

LEMMA CheckKeeps == ASSUME Inv, NEW i \in Id, Check(i) PROVE Inv'
<1>0. /\ TypeOK /\ installer \in [Id -> Process] /\ installer[i].pc = "check"
  BY DEF Inv, TypeOK, Check, At
<1>1. /\ UNCHANGED <<env, local, staged, receipt, provisioned, started, up, faults>>
      /\ Grow /\ provisioned' \in BOOLEAN /\ started' \in BOOLEAN /\ up' \in SUBSET Service
  BY <1>0, Unchanged DEF Check, NothingElse, host, TypeOK
<1>2. CASE Exit(i, "failure")
  BY <1>1, <1>2, GivesUp
<1>3. CASE Goto(i, "LockPackages")
  BY <1>0, <1>1, <1>3, GoesOn DEF FixedStep, Beyond
<1>4. CASE /\ receipt # Nil
           /\ installer' = [installer EXCEPT ![i].pc = "cleanup", ![i].answer = receipt]
  <2>1. receipt \in Receipt
    BY <1>0, <1>4 DEF TypeOK
  <2>2. installer[i] \in Process /\ installer[i].dropped \in SUBSET Service
    BY <1>0 DEF Process
  <2>3. [installer[i] EXCEPT !.pc = "cleanup", !.answer = receipt]
          = [installer[i] EXCEPT !.pc = "cleanup", !.answer = receipt,
                                 !.dropped = installer[i].dropped]
    BY <2>2 DEF Process
  <2>4. installer' = [installer EXCEPT ![i] =
          [installer[i] EXCEPT !.pc = "cleanup", !.answer = receipt]]
    BY <1>0, <1>4
  <2> QED
    BY <1>0, <1>1, <2>1, <2>2, <2>3, <2>4, Answers
<1> QED
  BY <1>2, <1>3, <1>4 DEF Check

LEMMA WriteReceiptKeeps == ASSUME Inv, NEW i \in Id, WriteReceipt(i) PROVE Inv'
<1>1. installer[i].pc = "receipt" /\ installer[i].pc \in Working
  BY DEF WriteReceipt, At, Working
<1>2. PICK time \in Time : receipt' = [request |-> LoadedRequest(i), completed |-> time]
  BY DEF WriteReceipt
<1>3. receipt' \in Receipt
  BY <1>1, <1>2, Loaded DEF Receipt
<1>4. installer \in [Id -> Process]
  BY DEF Inv, TypeOK
<1>5. installer' = [installer EXCEPT ![i] =
        [installer[i] EXCEPT !.pc = "cleanup", !.answer = receipt', !.dropped = {}]]
  BY <1>4 DEF WriteReceipt
<1>6. /\ UNCHANGED <<env, local, staged, provisioned, started, up, faults>>
      /\ {} \in SUBSET Service
  BY DEF WriteReceipt
<1> QED
  BY <1>1, <1>3, <1>5, <1>6, Answers

LEMMA CleanupKeeps == ASSUME Inv, NEW i \in Id, Cleanup(i) PROVE Inv'
<1> DEFINE p == installer[i]
<1> DEFINE a == installer[i].file
<1>0. /\ TypeOK /\ p \in Process /\ Sound(p, up) /\ p.pc = "cleanup"
      /\ a \in Artifact /\ p.answer # Nil
      /\ staged \in [Artifact -> File \cup {Nil}] /\ installer \in [Id -> Process]
  BY DEF Inv, TypeOK, Cleanup, At, Process, Sound
<1>1. /\ UNCHANGED <<env, local, receipt, provisioned, started, up, faults>> /\ Grow
      /\ receipt' \in Receipt \cup {Nil} /\ up' \in SUBSET Service /\ provisioned' \in BOOLEAN
      /\ started' \in BOOLEAN
  BY <1>0, Unchanged DEF Cleanup, host, TypeOK
<1>2. CASE staged[a] # p.loaded[a]
  BY <1>1, <1>2, GivesUp DEF Cleanup
<1>3. CASE staged[a] = p.loaded[a]
  <2>1. /\ staged' = [staged EXCEPT ![a] = Nil]
        /\ IF a = 4 THEN Exit(i, "success")
           ELSE installer' = [installer EXCEPT ![i].file = @ + 1]
    BY <1>3 DEF Cleanup
  <2> DEFINE q == IF a # 4 THEN [p EXCEPT !.file = a + 1]
                  ELSE IF RunAt("wait") /\ run.id = i THEN [p EXCEPT !.pc = "success"] ELSE None
  <2>2. installer' = [installer EXCEPT ![i] = q]
    BY <2>1 DEF Exit
  <2>3. /\ \A b \in Artifact : staged'[b] = IF b = a THEN Nil ELSE staged[b]
        /\ staged' \in [Artifact -> File \cup {Nil}]
    BY <1>0, <2>1
  <2>4. \/ /\ a # 4 /\ q.pc = "cleanup" /\ q.file = a + 1 /\ q \in Process
           /\ q.loaded = p.loaded /\ q.answer = p.answer
        \/ /\ a = 4 /\ q.pc = "success" /\ q \in Process
           /\ q.loaded = p.loaded /\ q.answer = p.answer
        \/ q = None /\ ~(RunAt("wait") /\ run.id = i)
    <3>1. CASE a # 4
      <4>1. a + 1 \in Artifact
        BY <1>0, <3>1 DEF Artifact
      <4> QED
        BY <1>0, <3>1, <4>1 DEF Process
    <3>2. CASE a = 4
      BY <1>0, <3>2 DEF Process, Outcome
    <3> QED
      BY <3>1, <3>2
  <2> HIDE DEF q
  <2>5. q \in Process
    BY <2>4, Values
  <2>6. Sound(q, up')
    BY <1>0, <1>1, <2>4 DEF Sound, None, Working, FixedStep
  <2>7. q.answer \in {Nil, receipt'} /\ q.pc \notin Beyond
    BY <1>1, <2>4 DEF Inv, OneReceipt, None, Beyond
  <2>8. RunAt("wait") /\ run.id = i => Removed(q, staged')
    <3> SUFFICES ASSUME RunAt("wait"), run.id = i
                 PROVE  Removed(q, staged')
      OBVIOUS
    <3>1. \A b \in Artifact : b < a => staged[b] = Nil
      BY <1>0 DEF Inv, RunSound, Removed, RunAt
    <3>2. CASE a # 4 /\ q.pc = "cleanup" /\ q.file = a + 1
      <4>1. \A b \in Artifact : b < a + 1 => b = a \/ b < a
        BY <1>0 DEF Artifact
      <4> QED
        BY <2>3, <3>1, <3>2, <4>1 DEF Removed
    <3>3. CASE a = 4 /\ q.pc = "success"
      <4>1. \A b \in Artifact : b = a \/ b < a
        BY <3>3 DEF Artifact
      <4>2. \A b \in Artifact : staged'[b] = Nil
        BY <2>3, <3>1, <4>1
      <4>3. staged' = NoFiles
        BY <2>3, <4>2 DEF NoFiles
      <4> QED
        BY <3>3, <4>3 DEF Removed
    <3> QED
      BY <2>4, <3>2, <3>3
  <2> QED
    BY <1>0, <1>1, <2>2, <2>3, <2>5, <2>6, <2>7, <2>8, InstallerStep
<1> QED
  BY <1>2, <1>3

LEMMA StepFailsKeeps == ASSUME Inv, NEW i \in Id, StepFails(i) PROVE Inv'
<1>1. TypeOK /\ "step" \in Fault /\ Fail("step")
  BY DEF Inv, StepFails, Fault
<1>2. Grow
  BY <1>1, FaultsGrow DEF Grow
<1>3. provisioned' \in BOOLEAN /\ started' \in BOOLEAN /\ (started = TRUE => started' = TRUE)
  BY <1>1 DEF StepFails, TypeOK
<1> QED
  BY <1>2, <1>3, GivesUp DEF StepFails

LEMMA InstallKeeps == ASSUME Inv, NEW i \in Id, Install(i) PROVE Inv'
BY LoadKeeps, CheckKeeps, RunStepsKeep, WriteReceiptKeeps, CleanupKeeps DEF Install

-----------------------------------------------------------------------------
(* A step of the local run.                                                 *)

\* A step that takes the run on and leaves what it has stored, the files and
\* the installers alone.
LEMMA RunGoesOn ==
  ASSUME Inv, run.pc # "idle", run' \in Local, run'.pc # "wait",
         UNCHANGED <<env, keys, recorded, contacted, staged, installer, host, faults>>,
         node' \in [key : Key \cup {Nil}, pin : SshKey \cup {Nil}],
         node'.key = node.key, node.pin # Nil => node'.pin = node.pin,
         run'.pc \notin {"idle", "key"} => run'.key # Nil,
         run'.pc \in Asking => run'.request # Nil,
         run'.pc = "connect" => run'.pin = node'.pin
  PROVE  Inv'
<1>1. /\ UNCHANGED <<nameserver, published, sshKey, receipt, provisioned, started, up>>
  BY DEF env, host
<1>2. TypeOK'
  BY <1>1 DEF Inv, TypeOK
<1>3. \A i \in Id : Sound(installer[i], up)'
  BY <1>1 DEF Inv
<1>4. RunSound'
  BY <1>1 DEF Inv, RunSound
<1>5. OneReceipt'
  BY <1>1 DEF Inv, OneReceipt
<1>6. Pinned'
  BY Values DEF Inv, Pinned, TypeOK
<1> QED
  BY <1>2, <1>3, <1>4, <1>5, <1>6 DEF Inv

LEMMA Beyonds == None.pc \notin Beyond /\ None.answer = Nil
BY DEF None, Beyond

LEMMA IdleIs == Idle.pc = "idle" /\ Idle.request = Nil /\ Idle.key = Nil
BY DEF Idle

LEMMA StartKeeps == ASSUME Inv, Start PROVE Inv'
<1>1. PICK i \in Id : run' = [Idle EXCEPT !.pc = "key", !.id = i]
  BY DEF Start
<1>2. run' \in Local /\ run'.pc = "key" /\ run'.request = Nil
  <2>1. Idle \in Local /\ Idle.request = Nil
    BY Values, IdleIs
  <2> QED
    BY <1>1, <2>1 DEF Local
<1>3. /\ UNCHANGED <<nameserver, published, sshKey, receipt, provisioned, started, up>>
      /\ UNCHANGED <<node, keys, recorded, contacted, staged, installer, faults>>
      /\ recorded = Nil
  BY DEF Start, env, host
<1>4. TypeOK'
  BY <1>2, <1>3 DEF Inv, TypeOK
<1>5. \A i_1 \in Id : Sound(installer[i_1], up)'
  BY <1>3 DEF Inv
<1>6. RunSound'
  BY <1>2, <1>3 DEF RunSound, Asking
<1>7. OneReceipt'
  BY <1>2, <1>3 DEF Inv, OneReceipt
<1>8. Pinned'
  BY <1>2, <1>3 DEF Inv, Pinned
<1> QED
  BY <1>4, <1>5, <1>6, <1>7, <1>8 DEF Inv

LEMMA GetKeyKeeps == ASSUME Inv, GetKey PROVE Inv'
<1>0. /\ TypeOK /\ run \in Local /\ run.pc = "key" /\ recorded = Nil
      /\ node \in [key : Key \cup {Nil}, pin : SshKey \cup {Nil}]
  BY DEF Inv, TypeOK, GetKey, RunAt, RunSound
<1>1. /\ UNCHANGED <<nameserver, published, sshKey, receipt, provisioned, started, up>>
      /\ UNCHANGED <<recorded, contacted, staged, installer, faults>>
      /\ run' = [run EXCEPT !.pc = "request", !.key = node'.key]
  BY DEF GetKey, env, host
<1>2. /\ node' \in [key : Key \cup {Nil}, pin : SshKey \cup {Nil}]
      /\ node'.key # Nil /\ node'.pin = node.pin /\ keys' \in 0 .. MaxKeys
      /\ node.key # Nil => node' = node
  <2>1. CASE node.key # Nil
    BY <1>0, <2>1 DEF GetKey, TypeOK
  <2>2. CASE node.key = Nil
    <3>1. keys + 1 \in Key /\ keys + 1 \in 0 .. MaxKeys
      BY <1>0, <2>2, HostAssumption DEF GetKey, TypeOK, Key
    <3> QED
      BY <1>0, <2>2, <3>1, Values DEF GetKey
  <2> QED
    BY <2>1, <2>2
<1>3. /\ run' \in Local /\ run'.pc = "request" /\ run'.key = node'.key
      /\ run'.request = run.request
  BY <1>0, <1>1, <1>2 DEF Local
<1>4. TypeOK'
  BY <1>0, <1>1, <1>2, <1>3 DEF TypeOK
<1>5. \A i \in Id : Sound(installer[i], up)'
  BY <1>1 DEF Inv
<1>6. RunSound'
  BY <1>0, <1>1, <1>2, <1>3 DEF RunSound, Asking
<1>7. OneReceipt'
  BY <1>1 DEF Inv, OneReceipt
<1>8. Pinned'
  BY <1>1, <1>2, <1>3 DEF Inv, Pinned
<1> QED
  BY <1>4, <1>5, <1>6, <1>7, <1>8 DEF Inv

LEMMA BuildRequestKeeps == ASSUME Inv, BuildRequest PROVE Inv'
<1> DEFINE q == [server |-> nameserver, key |-> run.key]
<1>0. /\ run \in Local /\ run.pc = "request" /\ run.key # Nil /\ nameserver \in Server
      /\ node \in [key : Key \cup {Nil}, pin : SshKey \cup {Nil}]
  BY DEF Inv, TypeOK, BuildRequest, RunAt, RunSound
<1>1. q \in Request /\ q # Nil
  <2>1. run.key \in Key
    BY <1>0 DEF Local
  <2>2. q \in Request
    BY <1>0, <2>1 DEF Request
  <2> QED
    BY <2>2, Values
<1> HIDE DEF q
<1>3. run' = [run EXCEPT !.pc = "pin", !.request = q] /\ node' = node
  BY DEF BuildRequest, q
<1>4. run' \in Local /\ run'.pc = "pin" /\ run'.key = run.key /\ run'.request = q
  BY <1>0, <1>1, <1>3 DEF Local
<1> QED
  BY <1>0, <1>1, <1>3, <1>4, RunGoesOn DEF BuildRequest

LEMMA GetPinKeeps == ASSUME Inv, GetPin PROVE Inv'
<1>0. /\ run \in Local /\ run.pc = "pin" /\ run.key # Nil /\ run.request # Nil
      /\ sshKey \in SshKey
      /\ node \in [key : Key \cup {Nil}, pin : SshKey \cup {Nil}]
  BY DEF Inv, TypeOK, GetPin, RunAt, RunSound, Asking
<1>1. /\ node' \in [key : Key \cup {Nil}, pin : SshKey \cup {Nil}]
      /\ node'.key = node.key /\ (node.pin # Nil => node'.pin = node.pin)
  BY <1>0 DEF GetPin
<1>2. /\ run' \in Local /\ run'.pc = "connect" /\ run'.key = run.key
      /\ run'.request = run.request /\ run'.pin = node'.pin
  BY <1>0, <1>1 DEF GetPin, Local
<1> QED
  BY <1>0, <1>1, <1>2, RunGoesOn DEF GetPin

\* The run ends, and with it may end installers.
LEMMA RunOver ==
  ASSUME Inv, RunEnds,
         UNCHANGED <<env, keys, contacted, staged, host>>, Grow,
         installer' \in [Id -> Process],
         \A i \in Id : installer'[i] = installer[i] \/ installer'[i] = None,
         node' \in [key : Key \cup {Nil}, pin : SshKey \cup {Nil}],
         faults'["power"] = 0 => node' = node,
         recorded' \in Receipt \cup {Nil},
         recorded' # Nil => staged = NoFiles /\ recorded' = receipt
  PROVE  Inv'
<1>0. TypeOK /\ run' = Idle
  BY DEF Inv, RunEnds
<1>1. UNCHANGED <<nameserver, published, sshKey, receipt, provisioned, started, up>>
  BY DEF env, host
<1>2. TypeOK'
  BY <1>0, <1>1, Values DEF TypeOK, Grow
<1>3. \A i \in Id : Sound(installer[i], up)'
  BY <1>1, Values DEF Inv, Sound, None, Working, FixedStep
<1>4. RunSound'
  BY <1>0, <1>1, IdleIs DEF RunSound, Asking
<1>5. OneReceipt'
  BY <1>1, Beyonds DEF Inv, OneReceipt
<1>6. Pinned'
  BY <1>0, PowerLosses, IdleIs DEF Inv, Pinned
<1> QED
  BY <1>2, <1>3, <1>4, <1>5, <1>6 DEF Inv

\* What it has stored stays.
LEMMA RunOnlyOver ==
  ASSUME Inv, RunEnds, UNCHANGED <<env, node, keys, recorded, contacted, staged, installer, host, faults>>
  PROVE  Inv'
<1>1. /\ Grow /\ installer' \in [Id -> Process] /\ recorded' \in Receipt \cup {Nil}
      /\ node' \in [key : Key \cup {Nil}, pin : SshKey \cup {Nil}]
  BY Unchanged DEF Inv, TypeOK
<1>2. recorded' # Nil => staged = NoFiles /\ recorded' = receipt
  BY DEF Inv, RunSound, OneReceipt
<1> QED
  BY <1>1, <1>2, RunOver

LEMMA ConnectKeeps == ASSUME Inv, Connect PROVE Inv'
<1>1. CASE RunEnds /\ UNCHANGED contacted
  BY <1>1, RunOnlyOver DEF Connect
<1>2. CASE run.pin = sshKey /\ RunTo("upload") /\ contacted' = contacted \cup {sshKey}
  <2>0. /\ TypeOK /\ run \in Local /\ run.pc = "connect" /\ run.key # Nil
        /\ run.request # Nil /\ recorded = Nil
    BY DEF Inv, TypeOK, Connect, RunAt, RunSound, Asking
  <2>1. /\ run' \in Local /\ run'.pc = "upload" /\ run'.key = run.key
        /\ run'.request = run.request
    BY <1>2, <2>0 DEF RunTo, Local
  <2>2. /\ UNCHANGED <<nameserver, published, sshKey, receipt, provisioned, started, up>>
        /\ UNCHANGED <<node, keys, recorded, staged, installer, faults>>
    BY DEF Connect, env, host
  <2>3. TypeOK'
    BY <1>2, <2>0, <2>1, <2>2 DEF TypeOK
  <2>4. \A i \in Id : Sound(installer[i], up)'
    BY <2>2 DEF Inv
  <2>5. RunSound'
    BY <2>0, <2>1, <2>2 DEF RunSound
  <2>6. OneReceipt'
    BY <2>0, <2>1, <2>2 DEF Inv, OneReceipt
  <2>7. Pinned'
    BY <1>2, <2>0, <2>1, <2>2 DEF Inv, Pinned
  <2> QED
    BY <2>3, <2>4, <2>5, <2>6, <2>7 DEF Inv
<1> QED
  BY <1>1, <1>2 DEF Connect

LEMMA UploadKeeps == ASSUME Inv, Upload PROVE Inv'
<1> DEFINE f == [by |-> run.id, request |-> run.request]
<1>0. /\ TypeOK /\ run \in Local /\ run.pc = "upload" /\ run.key # Nil
      /\ run.request # Nil /\ recorded = Nil
      /\ staged \in [Artifact -> File \cup {Nil}]
  BY DEF Inv, TypeOK, Upload, RunAt, RunSound, Asking
<1>1. f \in File /\ f.request = run.request /\ run.file \in Artifact
  BY <1>0 DEF File, Local
<1> HIDE DEF f
<1>2. /\ staged' = [staged EXCEPT ![run.file] = f]
      /\ UNCHANGED <<nameserver, published, sshKey, receipt, provisioned, started, up>>
      /\ UNCHANGED <<node, keys, recorded, contacted, installer, faults>>
  BY DEF Upload, env, host, f
<1>3. /\ run' \in Local /\ run'.pc = "read back" /\ run'.key = run.key
      /\ run'.request = run.request
  BY <1>0 DEF Upload, RunTo, Local
<1>4. /\ \A a \in Artifact : staged'[a] = IF a = run.file THEN f ELSE staged[a]
      /\ staged' \in [Artifact -> File \cup {Nil}]
  BY <1>0, <1>1, <1>2
<1>5. TypeOK'
  BY <1>0, <1>2, <1>3, <1>4 DEF TypeOK
<1>6. \A i \in Id : Sound(installer[i], up)'
  BY <1>2 DEF Inv
<1>7. RunSound'
  BY <1>0, <1>2, <1>3 DEF RunSound
<1>8. OneReceipt'
  BY <1>2 DEF Inv, OneReceipt
<1>9. Pinned'
  BY <1>2, <1>3 DEF Inv, Pinned
<1> QED
  BY <1>5, <1>6, <1>7, <1>8, <1>9 DEF Inv

LEMMA ReadBackKeeps == ASSUME Inv, ReadBack PROVE Inv'
<1>0. /\ run \in Local /\ run.pc = "read back" /\ run.key # Nil /\ run.request # Nil
      /\ node \in [key : Key \cup {Nil}, pin : SshKey \cup {Nil}]
  BY DEF Inv, TypeOK, ReadBack, RunAt, RunSound, Asking
<1>2. CASE run' = Idle
  BY <1>2, RunOnlyOver DEF ReadBack, RunEnds
<1>3. CASE run' = [run EXCEPT !.pc = "execute"] /\ run' # Idle
  <2>1. /\ run' \in Local /\ run'.pc = "execute" /\ run'.key = run.key
        /\ run'.request = run.request
    BY <1>0, <1>3 DEF Local
  <2> QED
    BY <1>0, <2>1, RunGoesOn DEF ReadBack
<1>4. CASE run.file # 4 /\ run' = [run EXCEPT !.pc = "upload", !.file = @ + 1]
  <2>1. run.file + 1 \in Artifact
    <3>1. run.file \in Artifact
      BY <1>0 DEF Local
    <3> QED
      BY <1>4, <3>1 DEF Artifact
  <2>2. /\ run' \in Local /\ run'.pc = "upload" /\ run'.key = run.key
        /\ run'.request = run.request
    BY <1>0, <1>4, <2>1 DEF Local
  <2> QED
    BY <1>0, <2>2, RunGoesOn DEF ReadBack
<1> QED
  BY <1>2, <1>3, <1>4 DEF ReadBack

LEMMA ExecuteKeeps == ASSUME Inv, Execute PROVE Inv'
<1>1. CASE staged[1] = Nil
  BY <1>1, RunOnlyOver DEF Execute
<1>2. CASE staged[1] # Nil
  <2> DEFINE q == [None EXCEPT !.pc = "load", !.expected = run.request, !.launched = staged[1].by]
  <2>0. /\ TypeOK /\ run \in Local /\ run.pc = "execute" /\ run.key # Nil
        /\ run.request # Nil /\ recorded = Nil
        /\ staged[1] \in File /\ installer \in [Id -> Process] /\ run.id \in Id
    BY <1>2, Values DEF Inv, TypeOK, Execute, RunAt, RunSound, Asking, Local
  <2>1. /\ q \in Process /\ q.pc = "load" /\ q.loaded = NoFiles /\ q.answer = Nil /\ q.file = 1
    <3>1. staged[1].by \in Id /\ run.request \in Request \cup {Nil}
      BY <2>0 DEF File, Local
    <3>2. /\ None \in Process /\ None.loaded = NoFiles /\ None.answer = Nil /\ None.file = 1
      BY Values DEF None
    <3> QED
      BY <3>1, <3>2 DEF Process
  <2> HIDE DEF q
  <2>2. /\ installer' = [installer EXCEPT ![run.id] = q]
        /\ UNCHANGED <<nameserver, published, sshKey, receipt, provisioned, started, up>>
        /\ UNCHANGED <<node, keys, recorded, contacted, staged, faults>>
    BY <1>2 DEF Execute, env, host, q
  <2>3. /\ run' \in Local /\ run'.pc = "wait" /\ run'.key = run.key
        /\ run'.request = run.request /\ run'.id = run.id
    BY <1>2, <2>0 DEF Execute, RunTo, Local
  <2>4. /\ \A i \in Id : installer'[i] = IF i = run.id THEN q ELSE installer[i]
        /\ installer' \in [Id -> Process]
    BY <2>0, <2>1, <2>2
  <2>5. TypeOK'
    BY <2>0, <2>2, <2>3, <2>4 DEF TypeOK
  <2>6. \A i \in Id : Sound(installer[i], up)'
    <3>1. Sound(q, up)
      <4>1. \A a \in Artifact : ~(a < 1)
        BY DEF Artifact
      <4> QED
        BY <2>1, <4>1 DEF Sound, Working, FixedStep
    <3> QED
      BY <2>2, <2>4, <3>1 DEF Inv
  <2>7. RunSound'
    BY <2>0, <2>1, <2>2, <2>3, <2>4 DEF RunSound, Removed
  <2>8. OneReceipt'
    <3>1. q.pc \notin Beyond /\ q.answer = Nil
      BY <2>1 DEF Beyond
    <3> QED
      BY <2>2, <2>4, <3>1 DEF Inv, OneReceipt
  <2>9. Pinned'
    BY <2>2, <2>3 DEF Inv, Pinned
  <2> QED
    BY <2>5, <2>6, <2>7, <2>8, <2>9 DEF Inv
<1> QED
  BY <1>1, <1>2

LEMMA ReceiveKeeps == ASSUME Inv, Receive PROVE Inv'
<1>0. /\ TypeOK /\ run \in Local /\ run.pc = "wait" /\ run.id \in Id /\ recorded = Nil
      /\ run.request \in Request /\ installer \in [Id -> Process]
  BY DEF Inv, TypeOK, Receive, RunAt, RunSound, Asking, Local
<1>1. /\ RunEnds /\ UNCHANGED <<env, node, keys, contacted, staged, host, faults>>
      /\ installer' = [installer EXCEPT ![run.id] = None]
      /\ \/ recorded' = Nil
         \/ recorded' = installer[run.id].answer /\ installer[run.id].pc = "success"
  BY <1>0 DEF Receive
<1>2. /\ Grow /\ installer' \in [Id -> Process]
      /\ \A i \in Id : installer'[i] = installer[i] \/ installer'[i] = None
      /\ node' \in [key : Key \cup {Nil}, pin : SshKey \cup {Nil}]
  BY <1>0, <1>1, Unchanged, Values DEF TypeOK
<1>3. /\ recorded' \in Receipt \cup {Nil}
      /\ recorded' # Nil => staged = NoFiles /\ recorded' = receipt
  <2>1. installer[run.id].pc = "success" => staged = NoFiles
    BY <1>0 DEF Inv, RunSound, Removed
  <2>2. installer[run.id].answer \in {Nil, receipt}
    BY <1>0 DEF Inv, OneReceipt
  <2>3. receipt \in Receipt \cup {Nil}
    BY <1>0 DEF TypeOK
  <2> QED
    BY <1>1, <2>1, <2>2, <2>3
<1> QED
  BY <1>1, <1>2, <1>3, RunOver

LEMMA LocalRunKeeps == ASSUME Inv, LocalRun PROVE Inv'
BY StartKeeps, GetKeyKeeps, BuildRequestKeeps, GetPinKeeps, ConnectKeeps, UploadKeeps,
   ReadBackKeeps, ExecuteKeeps, ReceiveKeeps DEF LocalRun

-----------------------------------------------------------------------------
(* Faults.                                                                  *)

LEMMA WithoutRun ==
  ASSUME TypeOK
  PROVE  /\ Abandoned \in [Id -> Process]
         /\ \A i \in Id : Abandoned[i] = installer[i] \/ Abandoned[i] = None
BY Values DEF TypeOK, Abandoned

LEMMA KillKeeps == ASSUME Inv, Kill \/ LocalPowerLoss PROVE Inv'
<1>0. /\ TypeOK /\ RunEnds /\ installer' = Abandoned
      /\ UNCHANGED <<env, keys, recorded, contacted, staged, host>>
  BY DEF Inv, Kill, LocalPowerLoss
<1>1. /\ Grow
      /\ faults'["power"] = 0 => node' = node
      /\ node' \in [key : Key \cup {Nil}, pin : SshKey \cup {Nil}]
  <2>1. CASE Kill
    <3>1. "kill" \in Fault /\ Fail("kill") /\ node' = node
      BY <2>1 DEF Kill, Fault
    <3> QED
      BY <1>0, <3>1, FaultsGrow DEF Grow, TypeOK
  <2>2. CASE LocalPowerLoss
    <3>1. "power" \in Fault /\ Fail("power")
      BY <2>2 DEF LocalPowerLoss, Fault
    <3>2. faults'["power"] # 0 /\ Grow
      BY <1>0, <3>1, FaultsGrow DEF Grow, TypeOK
    <3>3. node' \in [key : Key \cup {Nil}, pin : SshKey \cup {Nil}]
      BY <1>0, <2>2 DEF LocalPowerLoss, TypeOK
    <3> QED
      BY <3>2, <3>3
  <2> QED
    BY <2>1, <2>2
<1>2. recorded' \in Receipt \cup {Nil}
      /\ (recorded' # Nil => staged = NoFiles /\ recorded' = receipt)
  BY <1>0 DEF Inv, TypeOK, OneReceipt, RunSound
<1> QED
  BY <1>0, <1>1, <1>2, WithoutRun, RunOver

LEMMA StopKeeps == ASSUME Inv, NEW s \in Service, Stop(s) PROVE Inv'
<1>0. /\ TypeOK /\ installer \in [Id -> Process] /\ "stop" \in Fault /\ Fail("stop")
  BY DEF Inv, TypeOK, Stop, Fault
<1>1. /\ UNCHANGED <<nameserver, published, sshKey, node, keys, recorded, run, contacted>>
      /\ UNCHANGED <<staged, receipt, provisioned, started>> /\ up' = up \ {s}
  BY DEF Stop, env, local
<1>2. Grow
  BY <1>0, FaultsGrow DEF Grow
<1>3. \A i \in Id :
        \/ /\ installer'[i] = [installer[i] EXCEPT !.dropped = @ \cup {s}]
           /\ installer[i].pc \in LastGate(s)
        \/ installer'[i] = installer[i] /\ installer[i].pc \notin LastGate(s)
  BY DEF Stop
<1>4. \A i \in Id :
        /\ installer'[i] \in Process
        /\ installer'[i].pc = installer[i].pc /\ installer'[i].file = installer[i].file
        /\ installer'[i].loaded = installer[i].loaded
        /\ installer'[i].answer = installer[i].answer
        /\ installer[i].dropped \subseteq installer'[i].dropped
        /\ installer[i].pc \in LastGate(s) => s \in installer'[i].dropped
  <2> SUFFICES ASSUME NEW i \in Id
               PROVE  /\ installer'[i] \in Process
                      /\ installer'[i].pc = installer[i].pc /\ installer'[i].file = installer[i].file
                      /\ installer'[i].loaded = installer[i].loaded
                      /\ installer'[i].answer = installer[i].answer
                      /\ installer[i].dropped \subseteq installer'[i].dropped
                      /\ installer[i].pc \in LastGate(s) => s \in installer'[i].dropped
    OBVIOUS
  <2>1. installer[i] \in Process /\ installer[i].dropped \cup {s} \in SUBSET Service
    BY <1>0 DEF Process
  <2>2. CASE /\ installer'[i] = [installer[i] EXCEPT !.dropped = @ \cup {s}]
             /\ installer[i].pc \in LastGate(s)
    BY <2>1, <2>2 DEF Process
  <2> QED
    BY <1>3, <2>1, <2>2
<1>5. TypeOK'
  <2>1. installer' = [i \in Id |-> installer'[i]]
    BY DEF Stop
  <2>2. installer' \in [Id -> Process]
    BY <1>4, <2>1
  <2> QED
    BY <1>0, <1>1, <1>2, <2>2 DEF TypeOK, Grow
<1>6. \A i \in Id : Sound(installer[i], up)'
  <2> SUFFICES ASSUME NEW i \in Id
               PROVE  Sound(installer'[i], up')
    OBVIOUS
  <2>1. Sound(installer[i], up)
    BY DEF Inv
  <2>2. installer[i].pc = "receipt" => Service \ up' \subseteq installer'[i].dropped
    BY <1>1, <1>4, <2>1 DEF Sound, LastGate
  <2>3. installer[i].pc = "VerifyUpdater" => {"split", "caddy"} \ up' \subseteq installer'[i].dropped
    BY <1>1, <1>4, <2>1 DEF Sound, LastGate
  <2> QED
    BY <1>1, <1>4, <2>1, <2>2, <2>3 DEF Sound
<1>7. RunSound'
  <2>1. run.pc = "wait" => Removed(installer'[run.id], staged')
    <3>1. run.id \in Id
      BY <1>0 DEF TypeOK, Local
    <3> QED
      BY <1>1, <1>4, <3>1 DEF Inv, RunSound, Removed
  <2> QED
    BY <1>1, <2>1 DEF Inv, RunSound
<1>8. OneReceipt'
  BY <1>1, <1>4 DEF Inv, OneReceipt
<1>9. Pinned'
  BY <1>0, <1>1, <1>2, PowerLosses DEF Inv, Pinned
<1> QED
  BY <1>5, <1>6, <1>7, <1>8, <1>9 DEF Inv

LEMMA RebootKeeps == ASSUME Inv, Reboot PROVE Inv'
<1>0. /\ TypeOK /\ "reboot" \in Fault /\ Fail("reboot")
      /\ \A i \in Id : installer'[i] = None
  BY DEF Inv, Reboot, Fault
<1>1. /\ UNCHANGED <<nameserver, published, sshKey, node, keys, recorded, run, contacted>>
      /\ UNCHANGED <<staged, receipt, provisioned, started, up>>
  BY DEF Reboot, env, local, host
<1>2. Grow
  BY <1>0, FaultsGrow DEF Grow
<1>3. /\ None.pc = "none" /\ None.answer = Nil /\ None \in Process
      /\ \A a \in Artifact : None.loaded[a] = Nil
  BY Values DEF None
<1>4. TypeOK'
  BY <1>0, <1>1, <1>2, <1>3 DEF Reboot, TypeOK, Grow
<1>5. \A i \in Id : Sound(installer[i], up)'
  BY <1>0, <1>3 DEF Sound, Working, FixedStep
<1>6. RunSound'
  <2>1. run.id \in Id
    BY <1>0 DEF TypeOK, Local
  <2> QED
    BY <1>0, <1>1, <1>3, <2>1 DEF Inv, RunSound, Removed
<1>7. OneReceipt'
  BY <1>0, <1>1, Beyonds DEF Inv, OneReceipt
<1>8. Pinned'
  BY <1>0, <1>1, <1>2, PowerLosses DEF Inv, Pinned
<1> QED
  BY <1>4, <1>5, <1>6, <1>7, <1>8 DEF Inv

LEMMA OutsideKeeps == ASSUME Inv, Publish \/ MoveNameserver \/ ChangeSshKey PROVE Inv'
<1>0. TypeOK
  BY DEF Inv
<1>1. /\ UNCHANGED <<node, keys, recorded, run, contacted>>
      /\ UNCHANGED <<staged, installer, receipt, provisioned, started, up>>
  BY DEF Publish, MoveNameserver, ChangeSshKey, local, host
<1>2. Grow
  <2>1. CASE Publish
    BY <1>0, <2>1, Unchanged DEF Publish
  <2>2. CASE MoveNameserver
    <3>1. "rename" \in Fault /\ Fail("rename")
      BY <2>2 DEF MoveNameserver, Fault
    <3> QED
      BY <1>0, <3>1, FaultsGrow DEF Grow
  <2>3. CASE ChangeSshKey
    <3>1. "rekey" \in Fault /\ Fail("rekey")
      BY <2>3 DEF ChangeSshKey, Fault
    <3> QED
      BY <1>0, <3>1, FaultsGrow DEF Grow
  <2> QED
    BY <2>1, <2>2, <2>3
<1>3. nameserver' \in Server /\ published' \in BOOLEAN /\ sshKey' \in SshKey
  BY <1>0 DEF Publish, MoveNameserver, ChangeSshKey, TypeOK
<1>4. TypeOK'
  BY <1>0, <1>1, <1>2, <1>3 DEF TypeOK, Grow
<1>5. \A i \in Id : Sound(installer[i], up)'
  BY <1>1 DEF Inv
<1>6. RunSound'
  BY <1>1 DEF Inv, RunSound
<1>7. OneReceipt'
  BY <1>1 DEF Inv, OneReceipt
<1>8. Pinned'
  BY <1>0, <1>1, <1>2, PowerLosses DEF Inv, Pinned
<1> QED
  BY <1>4, <1>5, <1>6, <1>7, <1>8 DEF Inv

-----------------------------------------------------------------------------
(* The specification.                                                       *)

LEMMA InitInv == Init => Inv
<1> SUFFICES ASSUME Init PROVE Inv
  OBVIOUS
<1>1. /\ Idle.pc = "idle" /\ Idle.request = Nil /\ Idle \in Local
      /\ None.pc = "none" /\ None.answer = Nil /\ None \in Process
      /\ \A a \in Artifact : None.loaded[a] = Nil
      /\ \A a \in Artifact : NoFiles[a] = Nil
      /\ NoFiles \in [Artifact -> File \cup {Nil}]
  BY Values, IdleIs DEF None
<1>2. /\ staged = NoFiles /\ run = Idle /\ recorded = Nil /\ receipt = Nil /\ contacted = {}
      /\ \A i \in Id : installer[i] = None
  BY DEF Init
<1>3. TypeOK
  <2>1. 0 \in 0 .. MaxKeys
    BY HostAssumption
  <2>2. installer \in [Id -> Process]
    BY <1>1 DEF Init
  <2>3. node \in [key : Key \cup {Nil}, pin : SshKey \cup {Nil}] /\ faults \in [Fault -> Nat]
    BY DEF Init
  <2> QED
    BY <1>1, <1>2, <2>1, <2>2, <2>3 DEF Init, TypeOK
<1>4. \A i \in Id : Sound(installer[i], up)
  BY <1>1, <1>2 DEF Sound, Working, FixedStep
<1>5. RunSound
  BY <1>1, <1>2 DEF RunSound, Asking
<1>6. OneReceipt
  BY <1>2, Beyonds DEF OneReceipt
<1>7. Pinned
  BY <1>1, <1>2 DEF Pinned
<1> QED
  BY <1>3, <1>4, <1>5, <1>6, <1>7 DEF Inv

LEMMA InvNext == Inv /\ [Next]_vars => Inv'
<1> SUFFICES ASSUME Inv, [Next]_vars PROVE Inv'
  OBVIOUS
<1>1. CASE LocalRun
  BY <1>1, LocalRunKeeps
<1>2. CASE \E i \in Id : Install(i)
  BY <1>2, InstallKeeps
<1>3. CASE Publish \/ MoveNameserver \/ ChangeSshKey
  BY <1>3, OutsideKeeps
<1>4. CASE Kill \/ LocalPowerLoss \/ Reboot
  BY <1>4, KillKeeps, RebootKeeps
<1>5. CASE (\E i \in Id : StepFails(i)) \/ (\E s \in Service : Stop(s))
  BY <1>5, StepFailsKeeps, StopKeeps
<1>6. CASE UNCHANGED vars
  <2>1. UNCHANGED <<nameserver, published, sshKey, node, keys, recorded, run, contacted>>
        /\ UNCHANGED <<staged, installer, receipt, provisioned, started, up, faults>>
    BY <1>6 DEF vars, env, local, host
  <2> QED
    BY <2>1 DEF Inv, TypeOK, RunSound, OneReceipt, Pinned
<1> QED
  BY <1>1, <1>2, <1>3, <1>4, <1>5, <1>6 DEF Next, World

LEMMA InvHolds == Spec => []Inv
BY InitInv, InvNext, PTL DEF Spec

\* Only one action writes a receipt.
LEMMA OneWriter ==
  ASSUME Next, receipt' # receipt
  PROVE  \E i \in Id : WriteReceipt(i)
<1>1. ~(LocalRun \/ Publish \/ World)
  BY DEF LocalRun, Start, GetKey, BuildRequest, GetPin, Connect, Upload, ReadBack, Execute,
         Receive, Publish, World, Kill, LocalPowerLoss, Reboot, MoveNameserver, ChangeSshKey,
         StepFails, Stop, host
<1>2. PICK i \in Id : Install(i)
  BY <1>1 DEF Next
<1>3. ~(Load(i) \/ Check(i) \/ Cleanup(i))
  BY DEF Load, Check, Cleanup, NothingElse, host
<1>4. ~RunSteps(i)
  BY DEF RunSteps, LockPackages, InstallDocker, PullImages, InstallFiles, InstallUpdaterUnit,
         MaterializeRuntime, Provision, StartMessageServer, VerifyDns, StartCaddy,
         VerifyRuntime, VerifyHttps, VerifyTurn, VerifyUpdater, Step, Gate, NothingElse, host
<1> QED
  BY <1>2, <1>3, <1>4 DEF Install

-----------------------------------------------------------------------------
(* Theorems.                                                                *)

\* Every variable keeps its type: the files, the installers of all runs and
\* the host, whatever run is killed and whatever service stops.
THEOREM TypeCorrect == Spec => []TypeOK
<1>1. Inv => TypeOK
  BY DEF Inv
<1> QED
  BY <1>1, InvHolds, PTL

\* install_transport: a host that the engine has recorded has the receipt that
\* was recorded, the same time and signature, whichever installers of earlier
\* runs got as far as writing one and whatever a power loss or a renamed name
\* server did to their requests.
THEOREM RecordedHostHasReceipt == Spec => []RecordedIsOnHost
<1>1. Inv => RecordedIsOnHost
  BY DEF Inv, OneReceipt, RecordedIsOnHost
<1> QED
  BY <1>1, InvHolds, PTL

\* cleanup_exact_artifacts: no file is left staged, above all not the receipt
\* key, when a host has been recorded.
THEOREM RecordedHostIsClean == Spec => []CleanWhenRecorded
<1>1. Inv => CleanWhenRecorded
  BY DEF Inv, RunSound, CleanWhenRecorded
<1> QED
  BY <1>1, InvHolds, PTL

\* The first host key that a deployment has written down is the only one it
\* ever authenticates to, over any number of runs.
THEOREM OneHostKey == Spec => []PinnedOnce
<1>1. Inv => PinnedOnce
  <2> SUFFICES ASSUME Inv, faults["power"] = 0
               PROVE  Cardinality(contacted) <= 1
    BY DEF PinnedOnce
  <2>1. contacted \subseteq {node.pin}
    BY DEF Inv, Pinned
  <2>2. IsFiniteSet({node.pin}) /\ Cardinality({node.pin}) = 1
    BY FS_Singleton
  <2> QED
    BY <2>1, <2>2, FS_Subset
<1> QED
  BY <1>1, InvHolds, PTL

\* VerifyRuntime to VerifyUpdater: an installer writes a receipt only when
\* every service runs, those apart that stopped after the last gate of it
\* that needs them.
THEOREM ReceiptAfterHealth == Spec => ReceiptMeansHealthy
<1>1. Inv /\ [Next]_vars =>
        [receipt' # receipt =>
          \E i \in Id : At(i, "receipt") /\ Service \ up \subseteq installer[i].dropped]_vars
  <2> SUFFICES ASSUME Inv, Next, receipt' # receipt
               PROVE  \E i \in Id : At(i, "receipt")
                                    /\ Service \ up \subseteq installer[i].dropped
    BY DEF vars, host
  <2>1. PICK i \in Id : WriteReceipt(i)
    BY OneWriter
  <2> QED
    BY <2>1 DEF WriteReceipt, At, Inv, Sound
<1> QED
  BY <1>1, InvHolds, PTL DEF Spec, ReceiptMeansHealthy

\* The check for a receipt, start-local.sh and WriteHostReceipt: the first
\* receipt of a host is its last.  Nothing looks for a receipt just before one
\* is written; it is start-local.sh's journal that keeps a second installer
\* from getting there.
THEOREM FirstReceiptIsFinal == Spec => ReceiptIsFinal
<1>1. Inv /\ [Next]_vars => [receipt # Nil => receipt' = receipt]_vars
  <2> SUFFICES ASSUME Inv, Next, receipt # Nil, receipt' # receipt
               PROVE  FALSE
    BY DEF vars, host
  <2>1. PICK i \in Id : WriteReceipt(i)
    BY OneWriter
  <2>2. installer[i].pc \in Beyond
    BY <2>1 DEF WriteReceipt, At, Beyond
  <2> QED
    BY <2>2, OnItsWay
<1> QED
  BY <1>1, InvHolds, PTL DEF Spec, ReceiptIsFinal
=============================================================================

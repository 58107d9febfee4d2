------------------------------ MODULE HostInstall ------------------------------
(***************************************************************************)
(* The installation of the host.  A local run uploads four files over SSH, *)
(* starts the installer there and waits for its signed receipt, which the  *)
(* engine records.  A run that ends early leaves its installer running,    *)
(* and nothing keeps the next one from uploading over its files and from   *)
(* starting a second installer beside it.                                  *)
(***************************************************************************)
EXTENDS Naturals, FiniteSetsExt

CONSTANTS
  Server,     \* addresses of the authoritative name server
  SshKey,     \* host keys the instance may present
  Time,       \* moments at which an installation may be completed
  MaxKeys,    \* bound on receipt keys made
  MaxRuns,    \* runs that may be referred to at the same time
  MaxFaults,  \* bounds, by kind: see Fault
  MaxInAll,   \* bound on faults of all kinds together
  Nil         \* absent, or not yet known

Fault == {"kill", "power", "rename", "rekey", "step", "stop", "reboot"}

ASSUME HostAssumption ==
  /\ MaxKeys \in Nat \ {0}
  /\ MaxRuns \in Nat \ {0}
  /\ MaxFaults \in [Fault -> Nat]
  /\ MaxInAll \in Nat

Id == 1 .. MaxRuns
Key == 1 .. MaxKeys
Request == [server : Server, key : Key]  \* the fields of it that may differ between runs

(* completed: completed_unix_seconds, and with it the signature over it.    *)
Receipt == [request : Request, completed : Time]

(* RemoteArtifact: installer, request, bundle and key, in the order in      *)
(* which they are uploaded, loaded and removed.                             *)
Artifact == 1 .. 4
RequestFile == 2
KeyFile == 4
File == [by : Id, request : Request]     \* by: its identity, not part of its bytes

Service == {"split", "caddy", "updater"}

ASSUME NilAssumption == Nil \notin Key \cup Request \cup Receipt \cup File \cup SshKey

VARIABLES
  nameserver, \* authoritative_server: what the lookup of it gives now
  published,  \* the A record is answered by both resolvers
  sshKey,     \* the host key the instance presents
  node,       \* the node directory's host-receipt.key and ssh-host-identity.json
  keys,       \* receipt keys made so far
  recorded,   \* the receipt in the deployment state
  run,        \* the local run: the store's lock allows one
  contacted,  \* host keys a run has authenticated to
  staged,     \* the four files under /var/tmp
  installer,  \* installer processes, by the run that started them
  receipt,    \* the receipt on the host
  provisioned,\* the output directory of provision-local.sh has something in it
  started,    \* start-local.sh's journal is there
  up,         \* services that run there
  faults

env == <<nameserver, published, sshKey>>
local == <<node, keys, recorded, run, contacted>>
host == <<receipt, provisioned, started, up>>
vars == <<env, local, staged, installer, host, faults>>

Local == [pc : {"idle", "key", "request", "pin", "connect", "upload", "read back", "execute",
                "wait"},
          id : Id, request : Request \cup {Nil}, key : Key \cup {Nil}, pin : SshKey \cup {Nil},
          file : Artifact]
Idle == [pc |-> "idle", id |-> 1, request |-> Nil, key |-> Nil, pin |-> Nil, file |-> 1]

(* FixedStep::ALL, steps without an outcome of their own taken together.    *)
FixedStep == {"LockPackages", "InstallDocker", "PullImages", "InstallFiles", "InstallUpdaterUnit",
              "MaterializeRuntime", "Provision", "StartMessageServer", "VerifyDns", "StartCaddy",
              "VerifyRuntime", "VerifyHttps", "VerifyTurn", "VerifyUpdater"}
Outcome == {"success", "waiting", "failure"}
Process == [pc : FixedStep \cup Outcome \cup {"none", "load", "check", "receipt", "cleanup"},
            expected : Request \cup {Nil}, launched : Id, loaded : [Artifact -> File \cup {Nil}],
            file : Artifact, answer : Receipt \cup {Nil}, dropped : SUBSET Service]
NoFiles == [a \in Artifact |-> Nil]
None == [pc |-> "none", expected |-> Nil, launched |-> 1, loaded |-> NoFiles, file |-> 1,
         answer |-> Nil, dropped |-> {}]

TypeOK ==
  /\ nameserver \in Server /\ published \in BOOLEAN /\ sshKey \in SshKey
  /\ node \in [key : Key \cup {Nil}, pin : SshKey \cup {Nil}]
  /\ keys \in 0 .. MaxKeys
  /\ recorded \in Receipt \cup {Nil}
  /\ run \in Local
  /\ contacted \in SUBSET SshKey
  /\ staged \in [Artifact -> File \cup {Nil}]
  /\ installer \in [Id -> Process]
  /\ receipt \in Receipt \cup {Nil}
  /\ provisioned \in BOOLEAN /\ started \in BOOLEAN /\ up \in SUBSET Service
  /\ faults \in [Fault -> Nat]

Init ==
  /\ nameserver \in Server /\ published = FALSE /\ sshKey \in SshKey
  /\ node = [key |-> Nil, pin |-> Nil]
  /\ keys = 0 /\ recorded = Nil /\ run = Idle /\ contacted = {}
  /\ staged = NoFiles
  /\ installer = [i \in Id |-> None]
  /\ receipt = Nil /\ provisioned = FALSE /\ started = FALSE /\ up = {}
  /\ faults = [k \in Fault |-> 0]

-----------------------------------------------------------------------------
(* The local run: install_host and install_transport. *)

RunAt(pc) == run.pc = pc
RunTo(pc) == run' = [run EXCEPT !.pc = pc]
RunEnds == run' = Idle

(* An identity that no process and no file carries. *)
Free(i) ==
  /\ installer[i].pc = "none"
  /\ \A a \in Artifact : staged[a] # Nil => staged[a].by # i
  /\ \A j \in Id : \A a \in Artifact : installer[j].loaded[a] # Nil => installer[j].loaded[a].by # i
  /\ \A j \in Id : installer[j].pc # "none" => installer[j].launched # i

Start ==
  /\ RunAt("idle")
  /\ recorded = Nil
  /\ \E i \in Id : /\ Free(i)
                   /\ \A j \in Id : Free(j) => i <= j
                   /\ run' = [Idle EXCEPT !.pc = "key", !.id = i]
  /\ UNCHANGED <<env, node, keys, recorded, contacted, staged, installer, host, faults>>

(* The receipt key is made once; its directory entry is not synchronized.   *)
GetKey ==
  /\ RunAt("key")
  /\ IF node.key # Nil
       THEN UNCHANGED <<node, keys>>
       ELSE /\ keys < MaxKeys
            /\ keys' = keys + 1
            /\ node' = [node EXCEPT !.key = keys']
  /\ run' = [run EXCEPT !.pc = "request", !.key = node'.key]
  /\ UNCHANGED <<env, recorded, contacted, staged, installer, host, faults>>

BuildRequest ==
  /\ RunAt("request")
  /\ run' = [run EXCEPT !.pc = "pin", !.request = [server |-> nameserver, key |-> run.key]]
  /\ UNCHANGED <<env, node, keys, recorded, contacted, staged, installer, host, faults>>

(* As if the observed host key were written down with the receipt only. *)
GetPinInMemory ==
  /\ RunAt("pin")
  /\ run' = [run EXCEPT !.pc = "connect", !.pin = IF node.pin # Nil THEN node.pin ELSE sshKey]
  /\ UNCHANGED <<env, node, keys, recorded, contacted, staged, installer, host, faults>>

(* The first host key observed is written down before it is relied on. *)
GetPin ==
  /\ RunAt("pin")
  /\ node' = [node EXCEPT !.pin = IF @ # Nil THEN @ ELSE sshKey]
  /\ run' = [run EXCEPT !.pc = "connect", !.pin = node'.pin]
  /\ UNCHANGED <<env, keys, recorded, contacted, staged, installer, host, faults>>

(* Sixty attempts with the pinned key only. *)
Connect ==
  /\ RunAt("connect")
  /\ IF run.pin = sshKey
       THEN RunTo("upload") /\ contacted' = contacted \cup {sshKey}
       ELSE RunEnds /\ UNCHANGED contacted
  /\ UNCHANGED <<env, node, keys, recorded, staged, installer, host, faults>>

(* upload: a temporary file, then mv --force, then the bytes are read back. *)
Upload ==
  /\ RunAt("upload")
  /\ staged' = [staged EXCEPT ![run.file] = [by |-> run.id, request |-> run.request]]
  /\ RunTo("read back")
  /\ UNCHANGED <<env, node, keys, recorded, contacted, installer, host, faults>>

ReadBack ==
  /\ RunAt("read back")
  /\ run' = IF staged[run.file] = Nil \/ staged[run.file].request # run.request THEN Idle
            ELSE IF run.file = 4 THEN [run EXCEPT !.pc = "execute"]
            ELSE [run EXCEPT !.pc = "upload", !.file = @ + 1]
  /\ UNCHANGED <<env, node, keys, recorded, contacted, staged, installer, host, faults>>

Execute ==
  /\ RunAt("execute")
  /\ IF staged[1] = Nil
       THEN RunEnds /\ UNCHANGED installer
       ELSE /\ installer' = [installer EXCEPT
                 ![run.id] = [None EXCEPT !.pc = "load", !.expected = run.request,
                                          !.launched = staged[1].by]]
            /\ RunTo("wait")
  /\ UNCHANGED <<env, node, keys, recorded, contacted, staged, host, faults>>

(* The exit status and the receipt; it must be of this request, signed with *)
(* this key, and is recorded with its time and its signature.  Another      *)
(* status ends the run, and so does a lost connection.                      *)
Receive ==
  /\ RunAt("wait")
  /\ installer[run.id].pc \in Outcome \cup {"none"}
  /\ recorded' = IF /\ installer[run.id].pc = "success"
                     /\ installer[run.id].answer.request = run.request
                  THEN installer[run.id].answer ELSE recorded
  /\ RunEnds
  /\ installer' = [installer EXCEPT ![run.id] = None]
  /\ UNCHANGED <<env, node, keys, contacted, staged, host, faults>>

-----------------------------------------------------------------------------
(* The installer on the host. *)

At(i, pc) == installer[i].pc = pc
Goto(i, pc) == installer' = [installer EXCEPT ![i].pc = pc]

(* Its end: nobody reads the outcome if its run is gone. *)
Exit(i, outcome) ==
  installer' = [installer EXCEPT
    ![i] = IF RunAt("wait") /\ run.id = i THEN [@ EXCEPT !.pc = outcome] ELSE None]

NothingElse == UNCHANGED <<env, local, staged, host, faults>>

(* load_inputs: the staged installer must be the running executable. *)
Load(i) ==
  /\ At(i, "load")
  /\ LET file == staged[installer[i].file]
     IN IF file = Nil \/ (installer[i].file = 1 /\ file.by # installer[i].launched)
          THEN Exit(i, "failure")
          ELSE installer' = [installer EXCEPT
                 ![i].loaded[installer[i].file] = file,
                 ![i].file = IF @ = 4 THEN 1 ELSE @ + 1,
                 ![i].pc = IF installer[i].file = 4 THEN "check" ELSE @]
  /\ NothingElse

LoadedRequest(i) == installer[i].loaded[RequestFile].request
LoadedKey(i) == installer[i].loaded[KeyFile].request.key

(* The digests of install_inner: the request is the one of the command      *)
(* line, the key is the one of the request.                                 *)
InputsAgree(i) ==
  /\ LoadedRequest(i) = installer[i].expected
  /\ LoadedRequest(i).key = LoadedKey(i)

(* verify_receipt and matches: signed with this key, and of this request.   *)
Matches(r, i) == r.request.key = LoadedKey(i) /\ r.request = LoadedRequest(i)

(* As if a resumed run could not take an existing receipt for an answer. *)
CheckRefuses(i) ==
  /\ At(i, "check")
  /\ IF InputsAgree(i) /\ receipt = Nil THEN Goto(i, "LockPackages") ELSE Exit(i, "failure")
  /\ NothingElse

(* A receipt that is there is answered if it matches, and refused if not;   *)
(* no step is taken then.                                                   *)
Check(i) ==
  /\ At(i, "check")
  /\ IF ~InputsAgree(i) THEN Exit(i, "failure")
     ELSE IF receipt = Nil THEN Goto(i, "LockPackages")
     ELSE IF Matches(receipt, i)
       THEN installer' = [installer EXCEPT ![i].pc = "cleanup", ![i].answer = receipt]
     ELSE Exit(i, "failure")
  /\ NothingElse

(* As if the answer did not wait for the file. *)
WriteReceiptNowhere(i) ==
  /\ At(i, "receipt")
  /\ \E time \in Time :
       installer' = [installer EXCEPT
         ![i].pc = "cleanup", ![i].dropped = {},
         ![i].answer = [request |-> LoadedRequest(i), completed |-> time]]
  /\ NothingElse

(* sign_receipt takes the time; atomic_write replaces what is there and     *)
(* synchronizes the directory.  Nothing looks again for a receipt.          *)
WriteReceipt(i) ==
  /\ At(i, "receipt")
  /\ \E time \in Time : receipt' = [request |-> LoadedRequest(i), completed |-> time]
  /\ installer' = [installer EXCEPT ![i].pc = "cleanup", ![i].answer = receipt',
                                    ![i].dropped = {}]
  /\ UNCHANGED <<env, local, staged, provisioned, started, up, faults>>

(* As if the last file were not among those that are removed. *)
CleanupKeepsKey(i) ==
  /\ At(i, "cleanup")
  /\ LET a == installer[i].file
     IN IF staged[a] # installer[i].loaded[a]
          THEN Exit(i, "failure") /\ UNCHANGED staged
          ELSE /\ staged' = [staged EXCEPT ![a] = Nil]
               /\ IF a = 3 THEN Exit(i, "success")
                  ELSE installer' = [installer EXCEPT ![i].file = @ + 1]
  /\ UNCHANGED <<env, local, host, faults>>

(* cleanup_exact_artifacts: each file only if it is the one that was        *)
(* loaded; the answer is lost otherwise.                                    *)
Cleanup(i) ==
  /\ At(i, "cleanup")
  /\ LET a == installer[i].file
     IN IF staged[a] # installer[i].loaded[a]
          THEN Exit(i, "failure") /\ UNCHANGED staged
          ELSE /\ staged' = [staged EXCEPT ![a] = Nil]
               /\ IF a = 4 THEN Exit(i, "success")
                  ELSE installer' = [installer EXCEPT ![i].file = @ + 1]
  /\ UNCHANGED <<env, local, host, faults>>

-----------------------------------------------------------------------------
(* The steps: every installer begins with the first.  A step that only puts *)
(* the same bytes where they are already leaves no trace here.              *)

Step(i, pc, next) == At(i, pc) /\ Goto(i, next) /\ UNCHANGED <<env, local, staged, receipt, faults>>
Gate(i, pc, next, condition) ==
  /\ At(i, pc)
  /\ IF condition THEN Goto(i, next) ELSE Exit(i, "failure")
  /\ NothingElse

(* apt-get holds a lock: a second installer is told to wait for its user.   *)
LockPackages(i) ==
  /\ At(i, "LockPackages")
  /\ IF \E j \in Id : At(j, "InstallDocker") THEN Exit(i, "waiting") ELSE Goto(i, "InstallDocker")
  /\ NothingElse

InstallDocker(i) == Step(i, "InstallDocker", "PullImages") /\ UNCHANGED <<provisioned, started, up>>

PullImages(i) == Step(i, "PullImages", "InstallFiles") /\ UNCHANGED <<provisioned, started, up>>

InstallFiles(i) == Step(i, "InstallFiles", "InstallUpdaterUnit") /\ UNCHANGED <<provisioned, started, up>>

InstallUpdaterUnit(i) ==
  /\ Step(i, "InstallUpdaterUnit", "MaterializeRuntime")
  /\ up' = up \cup {"updater"}
  /\ UNCHANGED <<provisioned, started>>

(* provision-local.sh takes an empty output directory only; what it looks   *)
(* for and what it then writes are two steps.                               *)
MaterializeRuntime(i) == Gate(i, "MaterializeRuntime", "Provision", ~provisioned)

(* Its check that the stack's Docker objects do not exist yet: they do      *)
(* some time after another installer's start-local.sh has begun.            *)
Provision(i) ==
  /\ At(i, "Provision")
  /\ provisioned' = TRUE
  /\ \/ Goto(i, "StartMessageServer")
     \/ started /\ Exit(i, "failure")
  /\ UNCHANGED <<env, local, staged, receipt, started, up, faults>>

(* As if start-local.sh took over what another one has started. *)
StartMessageServerAgain(i) ==
  /\ At(i, "StartMessageServer")
  /\ Goto(i, "VerifyDns")
  /\ started' = TRUE /\ up' = up \cup {"split"}
  /\ UNCHANGED <<env, local, staged, receipt, provisioned, faults>>

(* start-local.sh links its journal into the output directory before it     *)
(* creates anything, and gives up if one is there: one installer of a host  *)
(* gets past it.  RefreshAgentToken and StartAgent read what it started.    *)
StartMessageServer(i) ==
  /\ At(i, "StartMessageServer")
  /\ IF started
       THEN Exit(i, "failure") /\ UNCHANGED <<started, up>>
       ELSE Goto(i, "VerifyDns") /\ started' = TRUE /\ up' = up \cup {"split"}
  /\ UNCHANGED <<env, local, staged, receipt, provisioned, faults>>

(* The name server of the request and the recursive resolver must answer    *)
(* the address; if not, the user is to publish it.  What a name server that *)
(* is no longer the domain's answers is anybody's guess.                    *)
VerifyDns(i) ==
  /\ At(i, "VerifyDns")
  /\ \/ published /\ Goto(i, "StartCaddy")
     \/ /\ ~published \/ LoadedRequest(i).server # nameserver
        /\ Exit(i, "waiting")
  /\ NothingElse

StartCaddy(i) ==
  /\ Step(i, "StartCaddy", "VerifyRuntime")
  /\ up' = up \cup {"caddy"}
  /\ UNCHANGED <<provisioned, started>>

(* The containers of the stack and of the edge run and are healthy. *)
VerifyRuntime(i) == Gate(i, "VerifyRuntime", "VerifyHttps", {"split", "caddy"} \subseteq up)

(* The server and the Agent answer under the public name. *)
VerifyHttps(i) == Gate(i, "VerifyHttps", "VerifyTurn", {"split", "caddy"} \subseteq up)

(* As if the last public answer were not waited for. *)
VerifyTurnSkipped(i) == Gate(i, "VerifyTurn", "VerifyUpdater", TRUE)

(* TURN credentials are given out; the portal is bootstrapped if its token  *)
(* is refused.                                                              *)
VerifyTurn(i) == Gate(i, "VerifyTurn", "VerifyUpdater", {"split", "caddy"} \subseteq up)

VerifyUpdater(i) == Gate(i, "VerifyUpdater", "receipt", "updater" \in up)

-----------------------------------------------------------------------------
(* Faults, and the rest of the world. *)

Fail(k) ==
  /\ faults[k] < MaxFaults[k]
  /\ MapThenSumSet(LAMBDA j : faults[j], Fault) < MaxInAll
  /\ faults' = [faults EXCEPT ![k] = @ + 1]

(* What is left of the processes when the local run is gone. *)
Abandoned == [i \in Id |-> IF i = run.id /\ installer[i].pc \in Outcome THEN None ELSE installer[i]]

(* The run ends: killed, timed out, or one of its calls failed.  The        *)
(* installer knows nothing of it.                                           *)
Kill ==
  /\ ~RunAt("idle")
  /\ Fail("kill")
  /\ RunEnds
  /\ installer' = Abandoned
  /\ UNCHANGED <<env, node, keys, recorded, contacted, staged, host>>

(* restrictive_replace does not synchronize the directory: either file may  *)
(* be gone after a power loss.                                              *)
LocalPowerLoss ==
  /\ Fail("power")
  /\ node' \in [key : {node.key, Nil}, pin : {node.pin, Nil}]
  /\ RunEnds
  /\ installer' = Abandoned
  /\ UNCHANGED <<env, keys, recorded, contacted, staged, host>>

(* A program of a step fails; provisioning may leave part of its output,    *)
(* and start-local.sh its journal.                                          *)
StepFails(i) ==
  /\ installer[i].pc \in FixedStep
  /\ Fail("step")
  /\ Exit(i, "failure")
  /\ provisioned' \in IF At(i, "Provision") THEN {provisioned, TRUE} ELSE {provisioned}
  /\ started' \in IF At(i, "StartMessageServer") THEN {started, TRUE} ELSE {started}
  /\ UNCHANGED <<env, local, staged, receipt, up>>

(* A service stops; an installer that has verified it does not notice.      *)
LastGate(s) == IF s = "updater" THEN {"receipt"} ELSE {"receipt", "VerifyUpdater"}

Stop(s) ==
  /\ s \in up
  /\ Fail("stop")
  /\ up' = up \ {s}
  /\ installer' = [i \in Id |-> IF installer[i].pc \in LastGate(s)
                                THEN [installer[i] EXCEPT !.dropped = @ \cup {s}]
                                ELSE installer[i]]
  /\ UNCHANGED <<env, local, staged, receipt, provisioned, started>>

(* The instance restarts: no installer survives, services come up again.    *)
Reboot ==
  /\ Fail("reboot")
  /\ installer' = [i \in Id |-> None]
  /\ UNCHANGED <<env, local, staged, host>>

Publish ==
  /\ ~published
  /\ published' = TRUE
  /\ UNCHANGED <<nameserver, sshKey, local, staged, installer, host, faults>>

(* The domain's name servers are looked up anew for every request.          *)
MoveNameserver ==
  /\ Fail("rename")
  /\ nameserver' \in Server \ {nameserver}
  /\ UNCHANGED <<published, sshKey, local, staged, installer, host>>

ChangeSshKey ==
  /\ Fail("rekey")
  /\ sshKey' \in SshKey \ {sshKey}
  /\ UNCHANGED <<nameserver, published, local, staged, installer, host>>

-----------------------------------------------------------------------------
LocalRun == Start \/ GetKey \/ BuildRequest \/ GetPin \/ Connect \/ Upload \/ ReadBack \/ Execute
            \/ Receive

RunSteps(i) ==
  \/ LockPackages(i) \/ InstallDocker(i) \/ PullImages(i) \/ InstallFiles(i)
  \/ InstallUpdaterUnit(i) \/ MaterializeRuntime(i) \/ Provision(i) \/ StartMessageServer(i)
  \/ VerifyDns(i) \/ StartCaddy(i) \/ VerifyRuntime(i) \/ VerifyHttps(i) \/ VerifyTurn(i) \/ VerifyUpdater(i)

Install(i) == Load(i) \/ Check(i) \/ RunSteps(i) \/ WriteReceipt(i) \/ Cleanup(i)

World == Kill \/ LocalPowerLoss \/ Reboot \/ MoveNameserver \/ ChangeSshKey
         \/ (\E i \in Id : StepFails(i)) \/ (\E s \in Service : Stop(s))

Next == LocalRun \/ (\E i \in Id : Install(i)) \/ Publish \/ World

Spec == Init /\ [][Next]_vars

(* The user resumes until the host is installed and publishes the record;   *)
(* an installer goes on to its end.                                         *)
Fairness == WF_vars(LocalRun) /\ (\A i \in Id : WF_vars(Install(i))) /\ WF_vars(Publish)
FairSpec == Spec /\ Fairness

-----------------------------------------------------------------------------
(* Properties *)

Undisturbed == faults["rename"] = 0 /\ faults["power"] = 0

(* What the engine has recorded as an installed host is one: the receipt    *)
(* recorded, with its time and its signature, is the one that is there,     *)
(* whichever installers of earlier runs raced to write it.                  *)
RecordedIsOnHost == recorded # Nil => receipt = recorded

(* When a host is recorded no file of it, above all not the receipt key, is *)
(* left staged, whatever other runs left there.                             *)
CleanWhenRecorded == recorded # Nil => staged = NoFiles

(* A deployment talks to one host key in its life, whenever runs are killed *)
(* and whatever key the instance presents later.                            *)
PinnedOnce == faults["power"] = 0 => Cardinality(contacted) <= 1

(* A service that is down when a receipt is written has stopped after the   *)
(* last gate of that installer that needs it.                               *)
ReceiptMeansHealthy ==
  [][receipt' # receipt =>
       \E i \in Id : At(i, "receipt") /\ Service \ up \subseteq installer[i].dropped]_vars

(* A receipt is final: no later run and no installer of an earlier one that *)
(* is still running writes another over it, although WriteReceipt would.    *)
ReceiptIsFinal == [][receipt # Nil => receipt' = receipt]_vars

(* An installation that provisioned its host and failed before its receipt: *)
(* no installer is left that could write one.                               *)
HalfProvisioned ==
  /\ provisioned
  /\ receipt = Nil
  /\ \A i \in Id : installer[i].pc \notin {"Provision", "StartMessageServer", "VerifyDns", "StartCaddy",
       "VerifyRuntime", "VerifyHttps", "VerifyTurn", "VerifyUpdater", "receipt"}

(* Resuming ends: the host is recorded, after runs that were killed and     *)
(* installers that went on without them, unless its provisioning is         *)
(* stuck half-way or its key, name server or host key have changed.         *)
InstalledEventually ==
  <>(recorded # Nil \/ HalfProvisioned \/ ~Undisturbed \/ faults["rekey"] > 0)

=============================================================================

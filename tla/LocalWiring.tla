------------------------------ MODULE LocalWiring ------------------------------
(***************************************************************************)
(* The product's sessions and the local Connect daemon of one node.  A     *)
(* resume exchanges the bootstrap receipt for an owner and an agent        *)
(* session, stores both, wires the daemon to the agent session, verifies   *)
(* everything and records the deployment as complete; a destroy removes    *)
(* the daemon.  Runs end early, the machine loses power with part of its   *)
(* directories unwritten, and the Agent found on PATH changes.             *)
(*                                                                         *)
(* The store's lock lets one command run at a time (StateStore).           *)
(***************************************************************************)
EXTENDS Naturals, FiniteSetsExt

CONSTANTS
  MaxExchange, \* bound on exchanges of the bootstrap receipt
  MaxFaults,   \* bounds, by kind: see Fault
  MaxInAll     \* bound on faults of all kinds together

Fault == {"end", "power", "select"}

ASSUME WiringAssumption ==
  /\ MaxExchange \in Nat \ {0}
  /\ MaxFaults \in [Fault -> Nat]
  /\ MaxInAll \in Nat

NoSession == 0
Session == 0 .. MaxExchange       \* by the exchange that made it
Selection == {"session", "openclaw", "none"}
Files == [credentials : Session, matrix : Session, config : Session, binary : BOOLEAN]

VARIABLES
  server,    \* the sessions the product accepts; a new one of a device ends its last
  file,      \* credentials.json, matrix-session.json, config.toml, the executable
  disk,      \* what a power loss may leave of them
  daemon,    \* the service, and the session it read at its last start
  entry,     \* the MCP entry of the OpenClaw profile
  selection, \* agent_selection: what it gives now
  recorded,  \* local_wiring, and the phase as far as it matters
  run,       \* the command that runs
  faults

vars == <<server, file, disk, daemon, entry, selection, recorded, run, faults>>

Step == {"idle", "auth", "session", "credentials", "matrix", "config", "binary", "install",
         "doctor", "mcp", "set", "probe", "wired", "verify", "verified", "delete", "uninstall",
         "removed"}
Run == [pc : Step, command : {"resume", "connect", "destroy"}, kind : Selection,
        owner : Session, agent : Session]
Idle == [pc |-> "idle", command |-> "resume", kind |-> "none", owner |-> NoSession,
         agent |-> NoSession]

TypeOK ==
  /\ server \in [owner : Session, agent : Session, up : BOOLEAN]
  /\ file \in Files /\ disk \in Files
  /\ daemon \in [installed : BOOLEAN, session : Session]
  /\ entry \in BOOLEAN
  /\ selection \in Selection
  /\ recorded \in [requested : BOOLEAN, installed : BOOLEAN, complete : BOOLEAN,
                   destroying : BOOLEAN, destroyed : BOOLEAN]
  /\ recorded.installed => recorded.requested    \* DeploymentState::validate refuses it else
  /\ recorded.complete /\ recorded.requested => recorded.installed
  /\ run \in Run
  /\ faults \in [Fault -> Nat]

(* A host has just been installed; the plan may ask for the daemon.         *)
Init ==
  /\ server = [owner |-> NoSession, agent |-> NoSession, up |-> TRUE]
  /\ file = [credentials |-> NoSession, matrix |-> NoSession, config |-> NoSession, binary |-> FALSE]
  /\ disk = file
  /\ daemon = [installed |-> FALSE, session |-> NoSession]
  /\ entry = FALSE
  /\ selection \in {"session", "openclaw"}
  /\ recorded \in [requested : BOOLEAN, installed : {FALSE}, complete : {FALSE},
                   destroying : {FALSE}, destroyed : {FALSE}]
  /\ run = Idle
  /\ faults = [k \in Fault |-> 0]

-----------------------------------------------------------------------------
At(pc) == run.pc = pc
Goto(pc) == run' = [run EXCEPT !.pc = pc]
Ends == run' = Idle

(* agent_selection finds exactly one Agent, and the bridge supports it. *)
Supported == selection # "none"
NeedsEntry(kind) == kind = "openclaw"    \* host_mcp_registry: OpenClaw holds the MCP entry
Rendered == file.matrix                  \* render_matrix_config: the stored agent session

Stored == file.credentials # NoSession /\ file.matrix # NoSession
Running == daemon.installed /\ file.binary

(* A rename is on disk for certain when its directory is synchronized: the  *)
(* node's by a write of the state, the daemon's by a write of its config.   *)
NodeSynced(f) == [disk EXCEPT !.credentials = f.credentials]
ConnectSynced(f) == [f EXCEPT !.credentials = disk.credentials]

-----------------------------------------------------------------------------
(* complete_product: both files are read, or both sessions are made anew.   *)

AfterProduct == IF recorded.requested /\ ~recorded.installed THEN "config" ELSE "verify"

(* As if a run exchanged the receipt again whatever is stored. *)
ResumeAnew ==
  /\ At("idle") /\ server.up
  /\ run' = [Idle EXCEPT !.pc = "auth"]
  /\ UNCHANGED <<server, file, disk, daemon, entry, selection, recorded, faults>>

(* As if the first of the two files told that both are there. *)
ResumeOnCredentials ==
  /\ At("idle") /\ server.up
  /\ run' = [Idle EXCEPT !.pc = IF file.credentials # NoSession THEN AfterProduct ELSE "auth"]
  /\ UNCHANGED <<server, file, disk, daemon, entry, selection, recorded, faults>>

Resume ==
  /\ At("idle") /\ server.up
  /\ run' = [Idle EXCEPT !.pc = IF Stored THEN AfterProduct ELSE "auth"]
  /\ UNCHANGED <<server, file, disk, daemon, entry, selection, recorded, faults>>

PortalAuth ==
  /\ At("auth") /\ server.owner < MaxExchange
  /\ server' = [server EXCEPT !.owner = @ + 1]
  /\ run' = [run EXCEPT !.pc = "session", !.owner = server'.owner]
  /\ UNCHANGED <<file, disk, daemon, entry, selection, recorded, faults>>

CreateAgentSession ==
  /\ At("session")
  /\ server' = [server EXCEPT !.agent = run.owner]
  /\ run' = [run EXCEPT !.pc = "credentials", !.agent = server'.agent]
  /\ UNCHANGED <<file, disk, daemon, entry, selection, recorded, faults>>

(* StoredProductSecrets::write: two replacements, no directory synchronized. *)
WriteCredentials ==
  /\ At("credentials")
  /\ file' = [file EXCEPT !.credentials = run.owner]
  /\ Goto("matrix")
  /\ UNCHANGED <<server, disk, daemon, entry, selection, recorded, faults>>

WriteMatrix ==
  /\ At("matrix")
  /\ file' = [file EXCEPT !.matrix = run.agent]
  /\ Goto(AfterProduct)
  /\ UNCHANGED <<server, disk, daemon, entry, selection, recorded, faults>>

-----------------------------------------------------------------------------
(* install_connect, of a resume or of connect install.  The latter asks     *)
(* only for stored sessions and for what is recorded to be there: it runs   *)
(* on a deployment that was destroyed, too.                                 *)

ConnectInstall ==
  /\ At("idle")
  /\ Stored
  /\ run' = [Idle EXCEPT !.pc = "config", !.command = "connect"]
  /\ UNCHANGED <<server, file, disk, daemon, entry, selection, recorded, faults>>

(* The Agent is selected, then the stored session goes into config.toml.    *)
WriteConfig ==
  /\ At("config")
  /\ IF ~Supported
       THEN Ends /\ UNCHANGED <<file, disk>>
       ELSE /\ file' = [file EXCEPT !.config = Rendered]
            /\ disk' = ConnectSynced(file')
            /\ run' = [run EXCEPT !.pc = "binary", !.kind = selection]
  /\ UNCHANGED <<server, daemon, entry, selection, recorded, faults>>

(* install_binary: a rename, its directory not synchronized. *)
InstallBinary ==
  /\ At("binary")
  /\ file' = [file EXCEPT !.binary = TRUE]
  /\ Goto("install")
  /\ UNCHANGED <<server, disk, daemon, entry, selection, recorded, faults>>

(* daemon install --force: the service is put in and started again. *)
InstallDaemon ==
  /\ At("install")
  /\ daemon' = [installed |-> TRUE, session |-> file.config]
  /\ Goto("doctor")
  /\ UNCHANGED <<server, file, disk, entry, selection, recorded, faults>>

(* As if a running daemon were enough. *)
DoctorLooksAtStatus ==
  /\ At("doctor")
  /\ IF Running THEN Goto("mcp") ELSE Ends
  /\ UNCHANGED <<server, file, disk, daemon, entry, selection, recorded, faults>>

(* doctor: it runs, and its log shows no refused session.  What it logs of  *)
(* a server that is gone is not known.  The code searches the last 120      *)
(* lines; here they are taken to tell of the running process, and of        *)
(* nothing else.                                                            *)
Healthy == Running /\ daemon.session = server.agent

Doctor ==
  /\ At("doctor")
  /\ \/ Running /\ (server.up => Healthy) /\ Goto("mcp")
     \/ ~(server.up /\ Healthy) /\ Ends
  /\ UNCHANGED <<server, file, disk, daemon, entry, selection, recorded, faults>>

(* verify_mcp: the Agent's token, which is not of a session, is tried. *)
VerifyMcp ==
  /\ At("mcp")
  /\ IF ~server.up THEN Ends
     ELSE Goto(IF NeedsEntry(run.kind) THEN "set" ELSE "wired")
  /\ UNCHANGED <<server, file, disk, daemon, entry, selection, recorded, faults>>

(* OpenClawRegistry::install: mcp set, then doctor and probe, then unset if *)
(* they fail, which may fail itself (RollbackEntry).                        *)
SetEntry ==
  /\ At("set")
  /\ entry' = TRUE
  /\ Goto("probe")
  /\ UNCHANGED <<server, file, disk, daemon, selection, recorded, faults>>

ProbeEntry ==
  /\ At("probe")
  /\ Goto("wired")
  /\ UNCHANGED <<server, file, disk, daemon, entry, selection, recorded, faults>>

(* The engine's write; it synchronizes the node's directory. *)
RecordWiring ==
  /\ At("wired")
  /\ recorded' = [recorded EXCEPT !.requested = TRUE, !.installed = TRUE]
  /\ disk' = NodeSynced(file)
  /\ IF run.command = "connect" THEN Ends ELSE Goto("verify")
  /\ UNCHANGED <<server, file, daemon, entry, selection, faults>>

-----------------------------------------------------------------------------
(* verify_product: TURN credentials are read with the owner's session; the  *)
(* daemon and, if OpenClaw is selected now, the entry are looked at again.  *)
Verifies ==
  /\ server.up
  /\ Stored
  /\ file.credentials = server.owner
  /\ recorded.requested => /\ Healthy
                           /\ Supported
                           /\ NeedsEntry(selection) => entry

VerifyProduct ==
  /\ At("verify")
  /\ IF Verifies THEN run' = [run EXCEPT !.pc = "verified", !.kind = selection] ELSE Ends
  /\ UNCHANGED <<server, file, disk, daemon, entry, selection, recorded, faults>>

(* The state of a deployment that is being destroyed cannot become complete. *)
RecordComplete ==
  /\ At("verified")
  /\ IF recorded.destroying
       THEN UNCHANGED <<recorded, disk>>
       ELSE recorded' = [recorded EXCEPT !.complete = TRUE] /\ disk' = NodeSynced(file)
  /\ Ends
  /\ UNCHANGED <<server, file, daemon, entry, selection, faults>>

-----------------------------------------------------------------------------
(* deploy destroy, its cloud effects taken together. *)

Destroy ==
  /\ At("idle") /\ ~recorded.destroyed
  /\ recorded' = [recorded EXCEPT !.destroying = TRUE, !.complete = FALSE]
  /\ disk' = NodeSynced(file)
  /\ run' = [Idle EXCEPT !.pc = "delete", !.command = "destroy"]
  /\ UNCHANGED <<server, file, daemon, entry, selection, faults>>

DeleteServer ==
  /\ At("delete")
  /\ server' = [server EXCEPT !.up = FALSE]
  /\ Goto(IF recorded.installed THEN "uninstall" ELSE "removed")
  /\ UNCHANGED <<file, disk, daemon, entry, selection, recorded, faults>>

(* As if a daemon that cannot be asked were not installed. *)
UninstallConnectLenient ==
  /\ At("uninstall")
  /\ daemon' = IF file.binary THEN [installed |-> FALSE, session |-> NoSession] ELSE daemon
  /\ Goto("removed")
  /\ UNCHANGED <<server, file, disk, entry, selection, recorded, faults>>

(* status, uninstall, status: the executable itself is asked. *)
UninstallConnect ==
  /\ At("uninstall")
  /\ IF file.binary
       THEN daemon' = [installed |-> FALSE, session |-> NoSession] /\ Goto("removed")
       ELSE Ends /\ UNCHANGED daemon
  /\ UNCHANGED <<server, file, disk, entry, selection, recorded, faults>>

RecordDestroyed ==
  /\ At("removed")
  /\ recorded' = [recorded EXCEPT !.destroying = FALSE, !.destroyed = TRUE, !.installed = FALSE,
                                  !.requested = @ /\ ~recorded.installed]
  /\ disk' = NodeSynced(file)
  /\ Ends
  /\ UNCHANGED <<server, file, daemon, entry, selection, faults>>

-----------------------------------------------------------------------------
(* Faults, and the rest of the world. *)

Happens(k) ==
  /\ faults[k] < MaxFaults[k]
  /\ MapThenSumSet(LAMBDA j : faults[j], Fault) < MaxInAll
  /\ faults' = [faults EXCEPT ![k] = @ + 1]

(* A run is killed, or its next step fails. *)
EndEarly ==
  /\ ~At("idle")
  /\ Happens("end")
  /\ Ends
  /\ UNCHANGED <<server, file, disk, daemon, entry, selection, recorded>>

(* The entry's doctor or probe fails: unset, if that succeeds. *)
RollbackEntry ==
  /\ At("probe")
  /\ Happens("end")
  /\ entry' \in BOOLEAN
  /\ Ends
  /\ UNCHANGED <<server, file, disk, daemon, selection, recorded>>

(* Every file is left as it was or as it was last synchronized; the daemon  *)
(* starts again with the machine.                                           *)
PowerLoss ==
  /\ Happens("power")
  /\ file' \in [credentials : {file.credentials, disk.credentials},
                matrix : {file.matrix, disk.matrix},
                config : {file.config, disk.config},
                binary : {file.binary, disk.binary}]
  /\ disk' = file'
  /\ daemon' = IF daemon.installed THEN [daemon EXCEPT !.session = file'.config] ELSE daemon
  /\ Ends
  /\ UNCHANGED <<server, entry, selection, recorded>>

(* Programs are put on PATH and removed; two of them are as good as none. *)
SelectAnother ==
  /\ Happens("select")
  /\ selection' \in Selection \ {selection}
  /\ UNCHANGED <<server, file, disk, daemon, entry, recorded, run>>

-----------------------------------------------------------------------------
Product == PortalAuth \/ CreateAgentSession \/ WriteCredentials \/ WriteMatrix
Wiring == WriteConfig \/ InstallBinary \/ InstallDaemon \/ Doctor \/ VerifyMcp \/ SetEntry
          \/ ProbeEntry \/ RecordWiring
Verification == VerifyProduct \/ RecordComplete
Removal == DeleteServer \/ UninstallConnect \/ RecordDestroyed

RunStep == Product \/ Wiring \/ Verification \/ Removal
World == EndEarly \/ RollbackEntry \/ PowerLoss \/ SelectAnother

Next == Resume \/ ConnectInstall \/ Destroy \/ RunStep \/ World

Spec == Init /\ [][Next]_vars

(* A command goes on to its end; the user resumes again and again, and may  *)
(* run other commands in between.                                           *)
Fairness == WF_vars(RunStep) /\ SF_vars(Resume)
FairSpec == Spec /\ Fairness

-----------------------------------------------------------------------------
(* Properties *)

(* The two files hold the sessions of one exchange, the last one, however   *)
(* runs ended: else one of the tokens is dead and nothing replaces it.  (A  *)
(* power loss between the two replacements can mix exchanges.)              *)
PairIsOfOneExchange ==
  Stored /\ faults["power"] = 0 =>
    file.credentials = server.owner /\ file.matrix = server.agent

(* A daemon recorded as installed has the session the server accepts, in    *)
(* its process and in its synchronized config, whatever was exchanged,      *)
(* killed or lost before or since, and whoever wired it last.               *)
RecordedWiringServes ==
  recorded.installed /\ server.up =>
    daemon = [installed |-> TRUE, session |-> server.agent] /\ disk.config = server.agent

(* A deployment is recorded as complete only if its sessions are alive and, *)
(* where the daemon was asked for, if that works with the Agent found while *)
(* verifying; one whose wiring is recorded is recorded as destroyed only    *)
(* without its daemon.                                                      *)
WiringRecordsAreTrue ==
  [][/\ ~recorded.complete /\ recorded'.complete =>
          /\ file.credentials = server.owner
          /\ recorded.requested => Healthy /\ (NeedsEntry(run.kind) => entry)
     /\ recorded.installed /\ recorded'.destroyed => ~daemon'.installed]_vars

(* Where no resume can go on: sessions of two exchanges, no Agent to be     *)
(* selected, a recorded wiring that lost its executable or that was made    *)
(* for another Agent (or lost its entry).                                   *)
DeadEnd ==
  \/ Stored /\ (file.credentials # server.owner \/ file.matrix # server.agent)
  \/ recorded.requested /\ ~Supported
  \/ recorded.installed /\ ~file.binary
  \/ recorded.installed /\ NeedsEntry(selection) /\ ~entry

(* Resuming completes the deployment, through runs that end early, power    *)
(* losses and other commands, unless it is destroyed or comes to one of the *)
(* dead ends above.                                                         *)
WiredEventually == <>(recorded.complete \/ recorded.destroying) \/ <>[]DeadEnd
=============================================================================

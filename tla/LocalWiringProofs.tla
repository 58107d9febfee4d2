-------------------------- MODULE LocalWiringProofs --------------------------
(***************************************************************************)
(* Proofs about the local wiring, for any number of exchanges and faults:  *)
(* the types, that the two session files are of one exchange, that a       *)
(* recorded wiring serves, and that what is recorded is true.              *)
(***************************************************************************)
EXTENDS LocalWiring, TLAPS

-----------------------------------------------------------------------------
(* The inductive invariant.                                                 *)

Exchanging == {"auth", "session", "credentials", "matrix"}
Installed  == {"doctor", "mcp", "set", "probe", "wired"}   \* the daemon is
Configured == {"binary", "install"} \cup Installed         \* config.toml is written
Verifying  == {"verify", "verified"}
Destroying == {"delete", "uninstall", "removed"}

Commands ==
  /\ At("idle") => run = Idle
  /\ run.pc \in Exchanging \cup Verifying => run.command = "resume"
  /\ run.pc \in Configured \cup {"config"} => run.command \in {"resume", "connect"}
  /\ run.pc \in Destroying <=> run.command = "destroy"

(* The product is there until it is destroyed, and is not wired after.      *)
ServerSound ==
  /\ run.pc \in Exchanging \cup Verifying => server.up
  /\ run.pc \in {"set", "probe", "wired"} => server.up
  /\ run.pc \in {"uninstall", "removed"} \/ recorded.destroyed => ~server.up

RecordSound ==
  /\ recorded.destroyed => ~recorded.installed
  /\ run.pc \in Destroying => recorded.destroying /\ ~recorded.complete
  /\ run.pc \in Verifying => (recorded.requested => recorded.installed)
  /\ run.pc = "removed" => (recorded.installed => ~daemon.installed)

(* The sessions that a run has made, and what it has stored of them.        *)
ExchangeSound ==
  /\ server.agent <= server.owner
  /\ run.pc \in Exchanging => ~(recorded.installed /\ server.up)
  /\ run.pc \in {"session", "credentials", "matrix"} =>
       run.owner = server.owner /\ run.owner # NoSession
  /\ run.pc \in {"credentials", "matrix"} => run.agent = server.agent /\ run.agent = run.owner
  /\ run.pc = "matrix" => file.credentials = run.owner
  /\ run.pc \in Exchanging \ {"matrix"} => ~Stored
  /\ run.pc \in Configured \cup Verifying \cup {"config"} => Stored

(* While the machine keeps its power, matrix-session.json comes second.     *)
PairSound ==
  faults["power"] = 0 =>
    /\ file.matrix # NoSession => file.credentials = server.owner /\ file.matrix = server.agent
    /\ run.pc \in Exchanging => file.matrix = NoSession

WiringSound ==
  /\ run.pc \in Configured =>
       file.config = file.matrix /\ disk.config = file.matrix /\ disk.matrix = file.matrix
  /\ run.pc \in Installed => daemon = [installed |-> TRUE, session |-> file.matrix]
  /\ run.pc \in {"mcp", "set", "probe", "wired"} /\ server.up => Healthy

(* What a recorded wiring rests on: the sessions are stored for good, so    *)
(* that nothing is exchanged again, and the config that a restart reads is  *)
(* of the accepted session, before and after a power loss.                  *)
RecordedSound ==
  recorded.installed /\ server.up =>
    /\ file.credentials # NoSession /\ disk.credentials # NoSession
    /\ server.agent # NoSession
    /\ file.matrix = server.agent /\ disk.matrix = server.agent
    /\ file.config = server.agent /\ disk.config = server.agent
    /\ daemon = [installed |-> TRUE, session |-> server.agent]

VerifiedSound ==
  At("verified") =>
    /\ file.credentials = server.owner
    /\ recorded.requested => Healthy /\ (NeedsEntry(run.kind) => entry)

Inv ==
  /\ TypeOK
  /\ Commands
  /\ ServerSound
  /\ RecordSound
  /\ ExchangeSound
  /\ PairSound
  /\ WiringSound
  /\ RecordedSound
  /\ VerifiedSound

-----------------------------------------------------------------------------
(* The ways a step may end.                                                 *)

LEMMA IdleTyped == Idle \in Run /\ Idle.pc = "idle" /\ Idle.command = "resume" /\ NoSession \in Session
BY WiringAssumption DEF Idle, Run, Step, Selection, Session, NoSession

LEMMA Goes ==
  ASSUME run \in Run, NEW pc \in Step, Goto(pc)
  PROVE  /\ run' \in Run
         /\ run'.pc = pc /\ run'.command = run.command /\ run'.kind = run.kind
         /\ run'.owner = run.owner /\ run'.agent = run.agent
BY DEF Goto, Run

(* A command that ends, by itself or not, leaves nothing behind but its      *)
(* effects.                                                                 *)
LEMMA DroppedKeeps ==
  ASSUME Inv, run' = Idle, UNCHANGED <<file, disk, server, daemon, entry, selection, recorded, faults>>
  PROVE  Inv'
<1>1. run'.pc = "idle" /\ run'.command = "resume" /\ run' \in Run
  BY IdleTyped
<1>2. TypeOK' /\ Commands'
  BY <1>1 DEF Inv, TypeOK, Commands, Installed, Verifying, Destroying
<1>3. ServerSound' /\ RecordSound' /\ VerifiedSound'
  BY <1>1 DEF Inv, ServerSound, RecordSound, VerifiedSound, At, Exchanging, Verifying, Destroying
<1>4. ExchangeSound' /\ PairSound'
  BY <1>1 DEF Inv, ExchangeSound, PairSound, Exchanging, Configured, Installed, Verifying
<1>5. WiringSound' /\ RecordedSound'
  BY <1>1 DEF Inv, WiringSound, RecordedSound, Installed, Configured
<1> QED
  BY <1>2, <1>3, <1>4, <1>5 DEF Inv

-----------------------------------------------------------------------------
(* The exchange of the bootstrap receipt.                                   *)

LEMMA ResumeKeeps == Inv /\ Resume => Inv'
<1> SUFFICES ASSUME Inv, Resume PROVE Inv'
  OBVIOUS
<1>0. /\ server.owner \in Session /\ server.agent \in Session
      /\ MaxExchange \in Nat
  BY WiringAssumption DEF Inv, TypeOK
<1>1. /\ At("idle")
      /\ server.up
      /\ UNCHANGED <<server, file, disk, daemon, entry, selection, recorded, faults>>
  BY DEF Resume
<1>2. /\ run' \in Run
      /\ run'.command = "resume"
      /\ run'.pc = IF Stored THEN AfterProduct ELSE "auth"
      /\ run'.pc \in {"auth", "config", "verify"}
  BY IdleTyped DEF Resume, Run, Step, AfterProduct
<1>3. /\ file.credentials = NoSession \/ file.matrix = NoSession <=> run'.pc = "auth"
      /\ run'.pc = "verify" => (recorded.requested => recorded.installed)
  BY <1>2 DEF Stored, AfterProduct
<1>4. ASSUME run'.pc = "auth" PROVE ~(recorded.installed /\ server.up)
  BY <1>3, <1>4 DEF Inv, RecordedSound
<1>5. ASSUME run'.pc = "auth", faults["power"] = 0 PROVE file.matrix = NoSession
  <2>1. CASE file.credentials = NoSession /\ file.matrix # NoSession
    <3>1. server.owner = NoSession /\ server.agent <= server.owner /\ file.matrix = server.agent
      BY <1>5, <2>1 DEF Inv, PairSound, ExchangeSound
    <3> QED
      BY <1>0, <3>1 DEF Session, NoSession
  <2> QED
    BY <1>3, <1>5, <2>1
<1>6. TypeOK'
  BY <1>1, <1>2 DEF Inv, TypeOK
<1>7. Commands' /\ ServerSound' /\ RecordSound' /\ VerifiedSound'
  BY <1>1, <1>2, <1>3 DEF Inv, Commands, ServerSound, RecordSound, VerifiedSound, At, Verifying,
     Destroying
<1>8. ExchangeSound' /\ PairSound'
  BY <1>1, <1>2, <1>3, <1>4, <1>5 DEF Inv, ExchangeSound, PairSound, Stored, Exchanging,
     Installed, Configured, Verifying
<1>9. WiringSound' /\ RecordedSound'
  BY <1>1, <1>2 DEF Inv, WiringSound, RecordedSound, Configured, Installed
<1> QED
  BY <1>6, <1>7, <1>8, <1>9 DEF Inv

LEMMA PortalAuthKeeps == Inv /\ PortalAuth => Inv'
<1> SUFFICES ASSUME Inv, PortalAuth PROVE Inv'
  OBVIOUS
<1>1. /\ At("auth")
      /\ run \in Run /\ server \in [owner : Session, agent : Session, up : BOOLEAN]
      /\ server.owner < MaxExchange
      /\ MaxExchange \in Nat
      /\ UNCHANGED <<file, disk, daemon, entry, selection, recorded, faults>>
  BY WiringAssumption DEF Inv, TypeOK, PortalAuth
<1>2. /\ server' \in [owner : Session, agent : Session, up : BOOLEAN]
      /\ server'.owner = server.owner + 1 /\ server'.agent = server.agent /\ server'.up = server.up
      /\ server'.agent <= server'.owner /\ server'.owner # NoSession
  BY <1>1 DEF Inv, ExchangeSound, PortalAuth, Session, NoSession
<1>3. /\ run' \in Run
      /\ run'.pc = "session" /\ run'.command = run.command /\ run'.owner = server'.owner
  BY <1>1, <1>2 DEF PortalAuth, Run, Step
<1>4. TypeOK'
  BY <1>1, <1>2, <1>3 DEF Inv, TypeOK
<1>5. Commands' /\ ServerSound' /\ RecordSound' /\ VerifiedSound'
  BY <1>1, <1>2, <1>3 DEF Inv, Commands, ServerSound, RecordSound, VerifiedSound, At, Exchanging,
     Verifying, Destroying
<1>6. ExchangeSound' /\ PairSound'
  BY <1>1, <1>2, <1>3 DEF Inv, ExchangeSound, PairSound, Stored, Exchanging, Installed,
     Configured, Verifying, At
<1>7. WiringSound' /\ RecordedSound'
  BY <1>1, <1>2, <1>3 DEF Inv, WiringSound, RecordedSound, Configured, Installed
<1> QED
  BY <1>4, <1>5, <1>6, <1>7 DEF Inv

LEMMA CreateAgentSessionKeeps == Inv /\ CreateAgentSession => Inv'
<1> SUFFICES ASSUME Inv, CreateAgentSession PROVE Inv'
  OBVIOUS
<1>1. /\ At("session")
      /\ run \in Run /\ server \in [owner : Session, agent : Session, up : BOOLEAN]
      /\ MaxExchange \in Nat
      /\ UNCHANGED <<file, disk, daemon, entry, selection, recorded, faults>>
  BY WiringAssumption DEF Inv, TypeOK, CreateAgentSession
<1>2. /\ server' \in [owner : Session, agent : Session, up : BOOLEAN]
      /\ server'.owner = server.owner /\ server'.agent = run.owner /\ server'.up = server.up
  BY <1>1 DEF CreateAgentSession, Run
<1>3. /\ run' \in Run
      /\ run'.pc = "credentials" /\ run'.command = run.command
      /\ run'.owner = run.owner /\ run'.agent = run.owner
  BY <1>1 DEF CreateAgentSession, Run, Step
<1>4. TypeOK'
  BY <1>1, <1>2, <1>3 DEF Inv, TypeOK
<1>5. Commands' /\ ServerSound' /\ RecordSound' /\ VerifiedSound'
  BY <1>1, <1>2, <1>3 DEF Inv, Commands, ServerSound, RecordSound, VerifiedSound, At, Exchanging,
     Verifying, Destroying
<1>6. ExchangeSound' /\ PairSound'
  BY <1>1, <1>2, <1>3 DEF Inv, ExchangeSound, PairSound, Stored, Exchanging, Installed,
     Configured, Verifying, At, Run, Session
<1>7. WiringSound' /\ RecordedSound'
  BY <1>1, <1>2, <1>3 DEF Inv, WiringSound, RecordedSound, Configured, Installed, ExchangeSound,
     At, Exchanging
<1> QED
  BY <1>4, <1>5, <1>6, <1>7 DEF Inv

LEMMA WriteCredentialsKeeps == Inv /\ WriteCredentials => Inv'
<1> SUFFICES ASSUME Inv, WriteCredentials PROVE Inv'
  OBVIOUS
<1>1. /\ At("credentials")
      /\ run \in Run /\ file \in Files
      /\ UNCHANGED <<server, disk, daemon, entry, selection, recorded, faults>>
  BY DEF Inv, TypeOK, WriteCredentials
<1>2. /\ file' \in Files
      /\ file'.credentials = run.owner
      /\ file'.matrix = file.matrix /\ file'.config = file.config /\ file'.binary = file.binary
  BY <1>1 DEF WriteCredentials, Files, Run
<1>3. /\ run' \in Run
      /\ run'.pc = "matrix" /\ run'.command = run.command
      /\ run'.owner = run.owner /\ run'.agent = run.agent
  BY <1>1, Goes DEF WriteCredentials, Step
<1>4. TypeOK'
  BY <1>1, <1>2, <1>3 DEF Inv, TypeOK
<1>5. Commands' /\ ServerSound' /\ RecordSound' /\ VerifiedSound'
  BY <1>1, <1>2, <1>3 DEF Inv, Commands, ServerSound, RecordSound, VerifiedSound, At, Exchanging,
     Verifying, Destroying
<1>6. ExchangeSound' /\ PairSound'
  BY <1>1, <1>2, <1>3 DEF Inv, ExchangeSound, PairSound, Exchanging, Installed, Configured,
     Verifying, At
<1>7. WiringSound' /\ RecordedSound'
  BY <1>1, <1>2, <1>3 DEF Inv, WiringSound, RecordedSound, Configured, Installed, At,
     ExchangeSound
<1> QED
  BY <1>4, <1>5, <1>6, <1>7 DEF Inv

LEMMA WriteMatrixKeeps == Inv /\ WriteMatrix => Inv'
<1> SUFFICES ASSUME Inv, WriteMatrix PROVE Inv'
  OBVIOUS
<1>1. /\ At("matrix")
      /\ run \in Run /\ file \in Files
      /\ UNCHANGED <<server, disk, daemon, entry, selection, recorded, faults>>
  BY DEF Inv, TypeOK, WriteMatrix
<1>2. /\ file' \in Files
      /\ file'.matrix = run.agent
      /\ file'.credentials = file.credentials /\ file'.config = file.config /\ file'.binary = file.binary
  BY <1>1 DEF WriteMatrix, Files, Run
<1>3. /\ run' \in Run
      /\ run'.pc = AfterProduct /\ run'.command = run.command
      /\ run'.pc \in {"config", "verify"}
      /\ run'.pc = "verify" => (recorded.requested => recorded.installed)
  BY <1>1, Goes DEF WriteMatrix, AfterProduct, Step
<1>4. TypeOK'
  BY <1>1, <1>2, <1>3 DEF Inv, TypeOK
<1>5. Commands' /\ ServerSound' /\ RecordSound' /\ VerifiedSound'
  BY <1>1, <1>2, <1>3 DEF Inv, Commands, ServerSound, RecordSound, VerifiedSound, At, Exchanging,
     Verifying, Destroying
<1>6. ExchangeSound' /\ PairSound'
  BY <1>1, <1>2, <1>3 DEF Inv, ExchangeSound, PairSound, Stored, Exchanging, At, RecordedSound
<1>7. WiringSound' /\ RecordedSound'
  BY <1>1, <1>2, <1>3 DEF Inv, WiringSound, RecordedSound, Configured, Installed, At,
     ExchangeSound
<1> QED
  BY <1>4, <1>5, <1>6, <1>7 DEF Inv

-----------------------------------------------------------------------------
(* The wiring of the daemon.                                                *)

LEMMA ConnectInstallKeeps == Inv /\ ConnectInstall => Inv'
<1> SUFFICES ASSUME Inv, ConnectInstall PROVE Inv'
  OBVIOUS
<1>1. /\ At("idle")
      /\ Stored
      /\ UNCHANGED <<server, file, disk, daemon, entry, selection, recorded, faults>>
  BY DEF ConnectInstall
<1>2. /\ run' \in Run
      /\ run'.pc = "config" /\ run'.command = "connect"
  BY IdleTyped DEF ConnectInstall, Run, Step
<1>3. TypeOK'
  BY <1>1, <1>2 DEF Inv, TypeOK
<1>4. Commands' /\ ServerSound' /\ RecordSound' /\ VerifiedSound'
  BY <1>1, <1>2 DEF Inv, Commands, ServerSound, RecordSound, VerifiedSound, At, Exchanging,
     Verifying, Destroying
<1>5. ExchangeSound' /\ PairSound'
  BY <1>1, <1>2 DEF Inv, ExchangeSound, PairSound, Stored, Exchanging
<1>6. WiringSound' /\ RecordedSound'
  BY <1>1, <1>2 DEF Inv, WiringSound, RecordedSound, Configured, Installed
<1> QED
  BY <1>3, <1>4, <1>5, <1>6 DEF Inv

LEMMA WriteConfigKeeps == Inv /\ WriteConfig => Inv'
<1> SUFFICES ASSUME Inv, WriteConfig PROVE Inv'
  OBVIOUS
<1>1. /\ At("config") /\ Stored /\ run \in Run /\ file \in Files /\ disk \in Files
      /\ selection \in Selection /\ run.command \in {"resume", "connect"}
      /\ UNCHANGED <<server, daemon, entry, selection, recorded, faults>>
  BY DEF Inv, WriteConfig, TypeOK, Commands, ExchangeSound, At
<1>2. CASE ~Supported
  <2>1. run' = Idle /\ UNCHANGED <<file, disk>>
    BY <1>2 DEF WriteConfig, Ends
  <2> QED
    BY <1>1, <2>1, DroppedKeeps
<1>3. CASE Supported
  <2>1. /\ run'.pc = "binary" /\ run'.command = run.command
        /\ run' \in Run
    <3>1. run' = [run EXCEPT !.pc = "binary", !.kind = selection]
      BY <1>3 DEF WriteConfig
    <3> QED
      BY <1>1, <3>1 DEF Run, Step
  <2>2. /\ file'.config = file.matrix /\ file'.matrix = file.matrix
        /\ file'.credentials = file.credentials /\ file'.binary = file.binary
        /\ file' \in Files
    <3>1. file' = [file EXCEPT !.config = file.matrix]
      BY <1>3 DEF WriteConfig, Rendered
    <3> QED
      BY <1>1, <3>1 DEF Files
  <2>3. /\ disk'.config = file.matrix /\ disk'.matrix = file.matrix
        /\ disk'.credentials = disk.credentials
        /\ disk' \in Files
    <3>1. disk' = [file' EXCEPT !.credentials = disk.credentials]
      BY <1>3 DEF WriteConfig, ConnectSynced
    <3> QED
      BY <1>1, <2>2, <3>1 DEF Files
  <2>4. TypeOK'
    BY <1>1, <2>1, <2>2, <2>3 DEF Inv, TypeOK
  <2>5. Commands' /\ ServerSound' /\ RecordSound' /\ VerifiedSound'
    BY <1>1, <2>1 DEF Inv, Commands, ServerSound, RecordSound, VerifiedSound, At, Exchanging,
       Verifying, Destroying
  <2>6. ExchangeSound' /\ PairSound'
    BY <1>1, <2>1, <2>2 DEF Inv, ExchangeSound, PairSound, Stored, Exchanging
  <2>7. WiringSound' /\ RecordedSound'
    BY <1>1, <2>1, <2>2, <2>3 DEF Inv, WiringSound, RecordedSound, Installed
  <2> QED
    BY <2>4, <2>5, <2>6, <2>7 DEF Inv
<1> QED
  BY <1>2, <1>3

LEMMA InstallBinaryKeeps == Inv /\ InstallBinary => Inv'
<1> SUFFICES ASSUME Inv, InstallBinary PROVE Inv'
  OBVIOUS
<1>1. /\ At("binary")
      /\ run \in Run /\ file \in Files
      /\ UNCHANGED <<server, disk, daemon, entry, selection, recorded, faults>>
  BY DEF Inv, TypeOK, InstallBinary
<1>2. /\ file' \in Files
      /\ file'.binary
      /\ file'.credentials = file.credentials /\ file'.matrix = file.matrix /\ file'.config = file.config
  BY <1>1 DEF InstallBinary, Files
<1>3. /\ run' \in Run
      /\ run'.pc = "install" /\ run'.command = run.command
  BY <1>1, Goes DEF InstallBinary, Step
<1>4. TypeOK'
  BY <1>1, <1>2, <1>3 DEF Inv, TypeOK
<1>5. Commands' /\ ServerSound' /\ RecordSound' /\ VerifiedSound'
  BY <1>1, <1>2, <1>3 DEF Inv, Commands, ServerSound, RecordSound, VerifiedSound, At, Exchanging,
     Configured, Verifying, Destroying
<1>6. ExchangeSound' /\ PairSound'
  BY <1>1, <1>2, <1>3 DEF Inv, ExchangeSound, PairSound, Stored, Exchanging, Configured, At
<1>7. WiringSound' /\ RecordedSound'
  BY <1>1, <1>2, <1>3 DEF Inv, WiringSound, RecordedSound, Configured, Installed, At
<1> QED
  BY <1>4, <1>5, <1>6, <1>7 DEF Inv

LEMMA InstallDaemonKeeps == Inv /\ InstallDaemon => Inv'
<1> SUFFICES ASSUME Inv, InstallDaemon PROVE Inv'
  OBVIOUS
<1>1. /\ At("install")
      /\ run \in Run /\ file \in Files
      /\ file.config = file.matrix
      /\ UNCHANGED <<server, file, disk, entry, selection, recorded, faults>>
  BY DEF Inv, TypeOK, WiringSound, Configured, At, InstallDaemon
<1>2. /\ daemon' = [installed |-> TRUE, session |-> file.matrix]
      /\ daemon' \in [installed : BOOLEAN, session : Session]
  BY <1>1 DEF InstallDaemon, Files
<1>3. /\ run' \in Run
      /\ run'.pc = "doctor" /\ run'.command = run.command
  BY <1>1, Goes DEF InstallDaemon, Step
<1>4. TypeOK'
  BY <1>1, <1>2, <1>3 DEF Inv, TypeOK
<1>5. Commands' /\ ServerSound' /\ RecordSound' /\ VerifiedSound'
  BY <1>1, <1>2, <1>3 DEF Inv, Commands, ServerSound, RecordSound, VerifiedSound, At, Exchanging,
     Configured, Verifying, Destroying
<1>6. ExchangeSound' /\ PairSound'
  BY <1>1, <1>2, <1>3 DEF Inv, ExchangeSound, PairSound, Stored, Exchanging, Configured, At
<1>7. WiringSound' /\ RecordedSound'
  BY <1>1, <1>2, <1>3 DEF Inv, WiringSound, RecordedSound, Configured, At
<1> QED
  BY <1>4, <1>5, <1>6, <1>7 DEF Inv

LEMMA DoctorKeeps == Inv /\ Doctor => Inv'
<1> SUFFICES ASSUME Inv, Doctor PROVE Inv'
  OBVIOUS
<1>1. /\ At("doctor")
      /\ run \in Run
      /\ UNCHANGED <<server, file, disk, daemon, entry, selection, recorded, faults>>
  BY DEF Inv, TypeOK, Doctor
<1>2. CASE Ends
  BY <1>1, <1>2, DroppedKeeps DEF Ends
<1>3. CASE Goto("mcp")
  <2>1. server.up => Healthy
    <3>1. run' # Idle
      BY <1>1, <1>3, Goes DEF Step, Idle
    <3> QED
      BY <3>1 DEF Doctor, Ends
  <2>2. /\ run' \in Run
        /\ run'.pc = "mcp" /\ run'.command = run.command
    BY <1>1, <1>3, Goes DEF Step
  <2>3. TypeOK'
    BY <1>1, <2>2 DEF Inv, TypeOK
  <2>4. Commands' /\ ServerSound' /\ RecordSound' /\ VerifiedSound'
    BY <1>1, <2>1, <2>2 DEF Inv, Commands, ServerSound, RecordSound, VerifiedSound, At,
       Exchanging, Installed, Configured, Verifying, Destroying
  <2>5. ExchangeSound' /\ PairSound'
    BY <1>1, <2>1, <2>2 DEF Inv, ExchangeSound, PairSound, Stored, Exchanging, Installed,
       Configured, At
  <2>6. WiringSound' /\ RecordedSound'
    BY <1>1, <2>1, <2>2 DEF Inv, WiringSound, RecordedSound, Configured, Installed, At, Healthy,
       Running
  <2> QED
    BY <2>3, <2>4, <2>5, <2>6 DEF Inv
<1> QED
  BY <1>2, <1>3 DEF Doctor

LEMMA VerifyMcpKeeps == Inv /\ VerifyMcp => Inv'
<1> SUFFICES ASSUME Inv, VerifyMcp PROVE Inv'
  OBVIOUS
<1>1. /\ At("mcp")
      /\ run \in Run
      /\ UNCHANGED <<server, file, disk, daemon, entry, selection, recorded, faults>>
  BY DEF Inv, TypeOK, VerifyMcp
<1>2. CASE Ends
  BY <1>1, <1>2, DroppedKeeps DEF Ends
<1>3. CASE ~Ends
  <2>1. PICK pc \in {"set", "wired"} : Goto(pc)
    BY <1>3 DEF VerifyMcp
  <2>2. /\ server.up
        /\ run' \in Run
        /\ run'.pc \in {"set", "wired"} /\ run'.command = run.command
    BY <1>1, <1>3, Goes DEF VerifyMcp, Step
  <2>3. TypeOK'
    BY <1>1, <2>2 DEF Inv, TypeOK
  <2>4. Commands' /\ ServerSound' /\ RecordSound' /\ VerifiedSound'
    BY <1>1, <2>2 DEF Inv, Commands, ServerSound, RecordSound, VerifiedSound, At, Exchanging,
       Installed, Configured, Verifying, Destroying
  <2>5. ExchangeSound' /\ PairSound'
    BY <1>1, <2>2 DEF Inv, ExchangeSound, PairSound, Stored, Exchanging, Installed, Configured, At
  <2>6. WiringSound' /\ RecordedSound'
    BY <1>1, <2>2 DEF Inv, WiringSound, RecordedSound, Configured, Installed, At, Healthy, Running
  <2> QED
    BY <2>3, <2>4, <2>5, <2>6 DEF Inv
<1> QED
  BY <1>2, <1>3

LEMMA SetEntryKeeps == Inv /\ SetEntry => Inv'
<1> SUFFICES ASSUME Inv, SetEntry PROVE Inv'
  OBVIOUS
<1>1. /\ At("set")
      /\ run \in Run
      /\ UNCHANGED <<server, file, disk, daemon, selection, recorded, faults>>
      /\ entry' \in BOOLEAN
  BY DEF Inv, TypeOK, SetEntry
<1>2. /\ run' \in Run
      /\ run'.pc = "probe" /\ run'.command = run.command
  BY <1>1, Goes DEF SetEntry, Step
<1>3. TypeOK'
  BY <1>1, <1>2 DEF Inv, TypeOK
<1>4. Commands' /\ ServerSound' /\ RecordSound' /\ VerifiedSound'
  BY <1>1, <1>2 DEF Inv, Commands, ServerSound, RecordSound, VerifiedSound, At, Exchanging,
     Installed, Configured, Verifying, Destroying
<1>5. ExchangeSound' /\ PairSound'
  BY <1>1, <1>2 DEF Inv, ExchangeSound, PairSound, Stored, Exchanging, Installed, Configured, At
<1>6. WiringSound' /\ RecordedSound'
  BY <1>1, <1>2 DEF Inv, WiringSound, RecordedSound, Configured, Installed, At, Healthy, Running
<1> QED
  BY <1>3, <1>4, <1>5, <1>6 DEF Inv

LEMMA ProbeEntryKeeps == Inv /\ ProbeEntry => Inv'
<1> SUFFICES ASSUME Inv, ProbeEntry PROVE Inv'
  OBVIOUS
<1>1. /\ At("probe")
      /\ run \in Run
      /\ UNCHANGED <<server, file, disk, daemon, entry, selection, recorded, faults>>
  BY DEF Inv, TypeOK, ProbeEntry
<1>2. /\ run' \in Run
      /\ run'.pc = "wired" /\ run'.command = run.command
  BY <1>1, Goes DEF ProbeEntry, Step
<1>3. TypeOK'
  BY <1>1, <1>2 DEF Inv, TypeOK
<1>4. Commands' /\ ServerSound' /\ RecordSound' /\ VerifiedSound'
  BY <1>1, <1>2 DEF Inv, Commands, ServerSound, RecordSound, VerifiedSound, At, Exchanging,
     Installed, Configured, Verifying, Destroying
<1>5. ExchangeSound' /\ PairSound'
  BY <1>1, <1>2 DEF Inv, ExchangeSound, PairSound, Stored, Exchanging, Installed, Configured, At
<1>6. WiringSound' /\ RecordedSound'
  BY <1>1, <1>2 DEF Inv, WiringSound, RecordedSound, Configured, Installed, At, Healthy, Running
<1> QED
  BY <1>3, <1>4, <1>5, <1>6 DEF Inv

LEMMA RecordWiringKeeps == Inv /\ RecordWiring => Inv'
<1> SUFFICES ASSUME Inv, RecordWiring PROVE Inv'
  OBVIOUS
<1>1. /\ At("wired")
      /\ run \in Run /\ file \in Files /\ disk \in Files
      /\ recorded \in [requested : BOOLEAN, installed : BOOLEAN, complete : BOOLEAN,
                       destroying : BOOLEAN, destroyed : BOOLEAN]
      /\ UNCHANGED <<server, file, daemon, entry, selection, faults>>
  BY DEF Inv, TypeOK, RecordWiring
<1>2. /\ disk' \in Files
      /\ disk'.credentials = file.credentials /\ disk'.matrix = disk.matrix
      /\ disk'.config = disk.config
  BY <1>1 DEF RecordWiring, NodeSynced, Files
<1>3. /\ recorded' \in [requested : BOOLEAN, installed : BOOLEAN, complete : BOOLEAN,
                      destroying : BOOLEAN, destroyed : BOOLEAN]
      /\ recorded'.requested /\ recorded'.installed /\ recorded'.complete = recorded.complete
      /\ recorded'.destroying = recorded.destroying /\ recorded'.destroyed = recorded.destroyed
  BY <1>1 DEF RecordWiring
<1>4. /\ run' \in Run
      /\ \/ run' = Idle /\ run'.pc = "idle" /\ run'.command = "resume"
         \/ run'.pc = "verify" /\ run'.command = "resume"
  <2>1. CASE Ends
    BY <2>1, IdleTyped DEF Ends
  <2>2. CASE run.command # "connect" /\ Goto("verify")
    BY <1>1, <2>2, Goes DEF Inv, Commands, At, Configured, Installed, Step
  <2> QED
    BY <2>1, <2>2 DEF RecordWiring
<1>5. /\ server.up /\ Stored /\ Healthy
      /\ file.config = file.matrix /\ disk.config = file.matrix /\ disk.matrix = file.matrix
      /\ daemon = [installed |-> TRUE, session |-> file.matrix]
  BY <1>1 DEF Inv, ServerSound, ExchangeSound, WiringSound, At, Configured, Installed
<1>6. TypeOK'
  BY <1>1, <1>2, <1>3, <1>4 DEF Inv, TypeOK
<1>7. Commands' /\ ServerSound' /\ RecordSound' /\ VerifiedSound'
  BY <1>1, <1>2, <1>3, <1>4, <1>5 DEF Inv, Commands, ServerSound, RecordSound, VerifiedSound, At,
     Verifying, Destroying
<1>8. ExchangeSound' /\ PairSound'
  BY <1>1, <1>2, <1>3, <1>4, <1>5 DEF Inv, ExchangeSound, PairSound, Stored, Exchanging
<1>9. WiringSound' /\ RecordedSound'
  BY <1>1, <1>2, <1>5 DEF WiringSound, RecordedSound, Healthy, Running, Stored
<1> QED
  BY <1>6, <1>7, <1>8, <1>9 DEF Inv

-----------------------------------------------------------------------------
(* Verification and removal.                                                *)

LEMMA VerifyProductKeeps == Inv /\ VerifyProduct => Inv'
<1> SUFFICES ASSUME Inv, VerifyProduct PROVE Inv'
  OBVIOUS
<1>1. /\ At("verify")
      /\ run \in Run /\ selection \in Selection
      /\ run.command = "resume"
      /\ UNCHANGED <<server, file, disk, daemon, entry, selection, recorded, faults>>
  BY DEF Inv, TypeOK, Commands, Verifying, At, VerifyProduct
<1>2. CASE ~Verifies
  <2>1. run' = Idle
    BY <1>2 DEF VerifyProduct, Ends
  <2> QED
    BY <1>1, <2>1, DroppedKeeps
<1>3. CASE Verifies
  <2>1. /\ run' \in Run
        /\ run'.pc = "verified" /\ run'.command = "resume" /\ run'.kind = selection
    <3>1. run' = [run EXCEPT !.pc = "verified", !.kind = selection]
      BY <1>3 DEF VerifyProduct
    <3> QED
      BY <1>1, <3>1 DEF Run, Step
  <2>2. /\ file.credentials = server.owner
        /\ recorded.requested => Healthy /\ (NeedsEntry(selection) => entry)
    BY <1>3 DEF Verifies
  <2>3. TypeOK'
    BY <1>1, <2>1 DEF Inv, TypeOK
  <2>4. Commands' /\ ServerSound' /\ RecordSound' /\ VerifiedSound'
    BY <1>1, <2>1, <2>2 DEF Inv, Commands, ServerSound, RecordSound, VerifiedSound, At, Verifying,
       Destroying, Healthy, Running
  <2>5. ExchangeSound' /\ PairSound'
    BY <1>1, <2>1, <2>2 DEF Inv, ExchangeSound, PairSound, Stored, Exchanging, Verifying, At
  <2>6. WiringSound' /\ RecordedSound'
    BY <1>1, <2>1 DEF Inv, WiringSound, RecordedSound, Configured, Installed
  <2> QED
    BY <2>3, <2>4, <2>5, <2>6 DEF Inv
<1> QED
  BY <1>2, <1>3

LEMMA RecordCompleteKeeps == Inv /\ RecordComplete => Inv'
<1> SUFFICES ASSUME Inv, RecordComplete PROVE Inv'
  OBVIOUS
<1>1. /\ At("verified")
      /\ run' = Idle
      /\ disk \in Files /\ file \in Files
      /\ recorded \in [requested : BOOLEAN, installed : BOOLEAN, complete : BOOLEAN,
                       destroying : BOOLEAN, destroyed : BOOLEAN]
      /\ UNCHANGED <<server, file, daemon, entry, selection, faults>>
  BY DEF Inv, TypeOK, RecordComplete, Ends
<1>2. CASE recorded.destroying
  <2>1. UNCHANGED <<disk, recorded>>
    BY <1>2 DEF RecordComplete
  <2> QED
    BY <1>1, <2>1, DroppedKeeps
<1>3. CASE ~recorded.destroying
  <2>1. /\ run'.pc = "idle" /\ run'.command = "resume"
        /\ run' \in Run
    BY <1>1, IdleTyped
  <2>2. /\ disk' \in Files
        /\ disk'.credentials = file.credentials /\ disk'.matrix = disk.matrix
        /\ disk'.config = disk.config
    BY <1>1, <1>3 DEF RecordComplete, NodeSynced, Files
  <2>3. /\ recorded' \in [requested : BOOLEAN, installed : BOOLEAN, complete : BOOLEAN,
                         destroying : BOOLEAN, destroyed : BOOLEAN]
        /\ recorded'.requested = recorded.requested /\ recorded'.installed = recorded.installed
        /\ recorded'.destroying = recorded.destroying /\ recorded'.destroyed = recorded.destroyed
        /\ recorded'.complete
    BY <1>1, <1>3 DEF RecordComplete
  <2>4. recorded.requested => recorded.installed
    BY <1>1 DEF Inv, RecordSound, At, Verifying
  <2>5. TypeOK'
    BY <1>1, <2>1, <2>2, <2>3, <2>4 DEF Inv, TypeOK
  <2>6. Commands' /\ ServerSound' /\ RecordSound' /\ VerifiedSound'
    BY <1>1, <2>1, <2>2, <2>3, <2>4 DEF Inv, Commands, ServerSound, RecordSound, VerifiedSound,
       At, Verifying, Destroying
  <2>7. ExchangeSound' /\ PairSound'
    BY <1>1, <2>1, <2>2, <2>3, <2>4 DEF Inv, ExchangeSound, PairSound, Exchanging, Installed,
       Configured, Verifying
  <2>8. WiringSound' /\ RecordedSound'
    BY <1>1, <2>1, <2>2, <2>3, <2>4 DEF Inv, WiringSound, RecordedSound, Configured, Installed
  <2> QED
    BY <2>5, <2>6, <2>7, <2>8 DEF Inv
<1> QED
  BY <1>2, <1>3

LEMMA DestroyKeeps == Inv /\ Destroy => Inv'
<1> SUFFICES ASSUME Inv, Destroy PROVE Inv'
  OBVIOUS
<1>1. /\ At("idle")
      /\ file \in Files /\ disk \in Files
      /\ recorded \in [requested : BOOLEAN, installed : BOOLEAN, complete : BOOLEAN,
                       destroying : BOOLEAN, destroyed : BOOLEAN]
      /\ ~recorded.destroyed
      /\ UNCHANGED <<server, file, daemon, entry, selection, faults>>
  BY DEF Inv, TypeOK, Destroy
<1>2. /\ disk' \in Files
      /\ disk'.credentials = file.credentials /\ disk'.matrix = disk.matrix
      /\ disk'.config = disk.config
  BY <1>1 DEF Destroy, NodeSynced, Files
<1>3. /\ recorded' \in [requested : BOOLEAN, installed : BOOLEAN, complete : BOOLEAN,
                      destroying : BOOLEAN, destroyed : BOOLEAN]
      /\ recorded'.requested = recorded.requested /\ recorded'.installed = recorded.installed
      /\ recorded'.destroying /\ ~recorded'.complete /\ recorded'.destroyed = recorded.destroyed
  BY <1>1 DEF Destroy
<1>4. /\ run' \in Run
      /\ run'.pc = "delete" /\ run'.command = "destroy"
  BY IdleTyped DEF Destroy, Run, Step
<1>5. TypeOK'
  BY <1>1, <1>2, <1>3, <1>4 DEF Inv, TypeOK
<1>6. Commands' /\ ServerSound' /\ RecordSound' /\ VerifiedSound'
  BY <1>1, <1>2, <1>3, <1>4 DEF Commands, ServerSound, RecordSound, VerifiedSound, At, Exchanging,
     Installed, Configured, Verifying, Destroying
<1>7. ExchangeSound' /\ PairSound'
  BY <1>1, <1>2, <1>3, <1>4 DEF Inv, ExchangeSound, PairSound, Exchanging, Installed, Configured,
     Verifying
<1>8. WiringSound' /\ RecordedSound'
  BY <1>1, <1>2, <1>3, <1>4 DEF Inv, WiringSound, RecordedSound, Configured, Installed
<1> QED
  BY <1>5, <1>6, <1>7, <1>8 DEF Inv

LEMMA DeleteServerKeeps == Inv /\ DeleteServer => Inv'
<1> SUFFICES ASSUME Inv, DeleteServer PROVE Inv'
  OBVIOUS
<1>1. /\ At("delete")
      /\ run \in Run /\ server \in [owner : Session, agent : Session, up : BOOLEAN]
      /\ UNCHANGED <<file, disk, daemon, entry, selection, recorded, faults>>
  BY DEF Inv, TypeOK, DeleteServer
<1>2. /\ server' \in [owner : Session, agent : Session, up : BOOLEAN]
      /\ server'.owner = server.owner /\ server'.agent = server.agent /\ ~server'.up
  BY <1>1 DEF DeleteServer
<1>3. /\ run' \in Run
      /\ run'.pc \in {"uninstall", "removed"} /\ run'.command = run.command
      /\ run'.pc = "removed" => ~recorded.installed
  BY <1>1, Goes DEF DeleteServer, Step
<1>4. TypeOK'
  BY <1>1, <1>2, <1>3 DEF Inv, TypeOK
<1>5. Commands' /\ ServerSound' /\ RecordSound' /\ VerifiedSound'
  BY <1>1, <1>2, <1>3 DEF Inv, Commands, ServerSound, RecordSound, VerifiedSound, At, Exchanging,
     Installed, Configured, Verifying, Destroying
<1>6. ExchangeSound' /\ PairSound'
  BY <1>1, <1>2, <1>3 DEF Inv, ExchangeSound, PairSound, Exchanging, Installed, Configured,
     Verifying
<1>7. WiringSound' /\ RecordedSound'
  BY <1>1, <1>2, <1>3 DEF WiringSound, RecordedSound, Configured, Installed
<1> QED
  BY <1>4, <1>5, <1>6, <1>7 DEF Inv

LEMMA UninstallConnectKeeps == Inv /\ UninstallConnect => Inv'
<1> SUFFICES ASSUME Inv, UninstallConnect PROVE Inv'
  OBVIOUS
<1>1. /\ At("uninstall")
      /\ run \in Run
      /\ UNCHANGED <<server, file, disk, entry, selection, recorded, faults>>
  BY DEF Inv, TypeOK, UninstallConnect
<1>2. CASE ~file.binary
  <2>1. run' = Idle /\ UNCHANGED daemon
    BY <1>2 DEF UninstallConnect, Ends
  <2> QED
    BY <1>1, <2>1, DroppedKeeps
<1>3. CASE file.binary
  <2>1. /\ run' \in Run
        /\ run'.pc = "removed" /\ run'.command = run.command
    BY <1>1, <1>3, Goes DEF UninstallConnect, Step
  <2>2. /\ ~daemon'.installed
        /\ daemon' \in [installed : BOOLEAN, session : Session]
    <3>1. daemon' = [installed |-> FALSE, session |-> NoSession]
      BY <1>3 DEF UninstallConnect
    <3> QED
      BY <3>1, IdleTyped
  <2>3. TypeOK'
    BY <1>1, <2>1, <2>2 DEF Inv, TypeOK
  <2>4. Commands' /\ ServerSound' /\ RecordSound' /\ VerifiedSound'
    BY <1>1, <2>1, <2>2 DEF Inv, Commands, ServerSound, RecordSound, VerifiedSound, At,
       Exchanging, Installed, Configured, Verifying, Destroying
  <2>5. ExchangeSound' /\ PairSound'
    BY <1>1, <2>1, <2>2 DEF Inv, ExchangeSound, PairSound, Exchanging, Installed, Configured,
       Verifying
  <2>6. WiringSound' /\ RecordedSound'
    BY <1>1, <2>1, <2>2 DEF Inv, WiringSound, RecordedSound, Configured, Installed, At,
       ServerSound
  <2> QED
    BY <2>3, <2>4, <2>5, <2>6 DEF Inv
<1> QED
  BY <1>2, <1>3

LEMMA RecordDestroyedKeeps == Inv /\ RecordDestroyed => Inv'
<1> SUFFICES ASSUME Inv, RecordDestroyed PROVE Inv'
  OBVIOUS
<1>1. /\ At("removed")
      /\ file \in Files /\ disk \in Files
      /\ recorded \in [requested : BOOLEAN, installed : BOOLEAN, complete : BOOLEAN,
                       destroying : BOOLEAN, destroyed : BOOLEAN]
      /\ ~server.up /\ ~recorded.complete
      /\ run' = Idle
      /\ UNCHANGED <<server, file, daemon, entry, selection, faults>>
  BY DEF Inv, TypeOK, ServerSound, RecordSound, At, Destroying, RecordDestroyed, Ends
<1>2. /\ disk' \in Files
      /\ disk'.credentials = file.credentials /\ disk'.matrix = disk.matrix
      /\ disk'.config = disk.config
  BY <1>1 DEF RecordDestroyed, NodeSynced, Files
<1>3. /\ recorded' \in [requested : BOOLEAN, installed : BOOLEAN, complete : BOOLEAN,
                      destroying : BOOLEAN, destroyed : BOOLEAN]
      /\ ~recorded'.installed /\ recorded'.complete = recorded.complete
      /\ ~recorded'.destroying /\ recorded'.destroyed
  BY <1>1 DEF RecordDestroyed
<1>4. /\ run'.pc = "idle" /\ run'.command = "resume"
      /\ run' \in Run
  BY <1>1, IdleTyped
<1>5. TypeOK'
  BY <1>1, <1>2, <1>3, <1>4 DEF Inv, TypeOK
<1>6. Commands' /\ ServerSound' /\ RecordSound' /\ VerifiedSound'
  BY <1>1, <1>2, <1>3, <1>4 DEF Commands, ServerSound, RecordSound, VerifiedSound, At, Exchanging,
     Verifying, Destroying
<1>7. ExchangeSound' /\ PairSound'
  BY <1>1, <1>2, <1>3, <1>4 DEF Inv, ExchangeSound, PairSound, Exchanging, Installed, Configured,
     Verifying
<1>8. WiringSound' /\ RecordedSound'
  BY <1>2, <1>3, <1>4 DEF WiringSound, RecordedSound, Configured, Installed
<1> QED
  BY <1>5, <1>6, <1>7, <1>8 DEF Inv

-----------------------------------------------------------------------------
(* Faults.                                                                  *)

LEMMA HappensTyped ==
  ASSUME TypeOK, NEW k \in Fault, Happens(k)
  PROVE  /\ faults' \in [Fault -> Nat]
         /\ faults'["power"] = IF k = "power" THEN faults["power"] + 1 ELSE faults["power"]
<1>1. faults \in [Fault -> Nat] /\ faults' = [faults EXCEPT ![k] = @ + 1]
  BY DEF TypeOK, Happens
<1> QED
  BY <1>1

LEMMA EndEarlyKeeps == Inv /\ EndEarly => Inv'
<1> SUFFICES ASSUME Inv, EndEarly PROVE Inv'
  OBVIOUS
<1>1. /\ faults' \in [Fault -> Nat]
      /\ faults'["power"] = faults["power"]
      /\ UNCHANGED <<server, file, disk, daemon, entry, selection, recorded>>
      /\ run' = Idle
  BY HappensTyped DEF Inv, EndEarly, Fault, Ends
<1>2. /\ run'.pc = "idle" /\ run'.command = "resume"
      /\ run' \in Run
  BY <1>1, IdleTyped
<1>3. TypeOK'
  BY <1>1, <1>2 DEF Inv, TypeOK
<1>4. Commands' /\ ServerSound' /\ RecordSound' /\ VerifiedSound'
  BY <1>1, <1>2 DEF Inv, Commands, ServerSound, RecordSound, VerifiedSound, At, Exchanging,
     Verifying, Destroying
<1>5. ExchangeSound' /\ PairSound'
  BY <1>1, <1>2 DEF Inv, ExchangeSound, PairSound, Exchanging, Installed, Configured, Verifying
<1>6. WiringSound' /\ RecordedSound'
  BY <1>1, <1>2 DEF Inv, WiringSound, RecordedSound, Configured, Installed
<1> QED
  BY <1>3, <1>4, <1>5, <1>6 DEF Inv

LEMMA RollbackEntryKeeps == Inv /\ RollbackEntry => Inv'
<1> SUFFICES ASSUME Inv, RollbackEntry PROVE Inv'
  OBVIOUS
<1>1. /\ faults' \in [Fault -> Nat]
      /\ faults'["power"] = faults["power"]
      /\ UNCHANGED <<server, file, disk, daemon, selection, recorded>>
      /\ run' = Idle
      /\ entry' \in BOOLEAN
  BY HappensTyped DEF Inv, RollbackEntry, Fault, Ends
<1>2. /\ run'.pc = "idle" /\ run'.command = "resume"
      /\ run' \in Run
  BY <1>1, IdleTyped
<1>3. TypeOK'
  BY <1>1, <1>2 DEF Inv, TypeOK
<1>4. Commands' /\ ServerSound' /\ RecordSound' /\ VerifiedSound'
  BY <1>1, <1>2 DEF Inv, Commands, ServerSound, RecordSound, VerifiedSound, At, Exchanging,
     Verifying, Destroying
<1>5. ExchangeSound' /\ PairSound'
  BY <1>1, <1>2 DEF Inv, ExchangeSound, PairSound, Exchanging, Installed, Configured, Verifying
<1>6. WiringSound' /\ RecordedSound'
  BY <1>1, <1>2 DEF Inv, WiringSound, RecordedSound, Configured, Installed
<1> QED
  BY <1>3, <1>4, <1>5, <1>6 DEF Inv

LEMMA SelectAnotherKeeps == Inv /\ SelectAnother => Inv'
<1> SUFFICES ASSUME Inv, SelectAnother PROVE Inv'
  OBVIOUS
<1>1. /\ faults' \in [Fault -> Nat]
      /\ faults'["power"] = faults["power"]
      /\ UNCHANGED <<server, file, disk, daemon, entry, recorded>>
      /\ UNCHANGED run
      /\ selection' \in Selection
  BY HappensTyped DEF Inv, SelectAnother, Fault
<1>2. TypeOK'
  BY <1>1 DEF Inv, TypeOK
<1>3. Commands' /\ ServerSound' /\ RecordSound' /\ VerifiedSound'
  BY <1>1 DEF Inv, Commands, ServerSound, RecordSound, VerifiedSound, At, Verifying, Destroying,
     Healthy, Running
<1>4. ExchangeSound' /\ PairSound'
  BY <1>1 DEF Inv, ExchangeSound, PairSound, Stored, Configured
<1>5. WiringSound' /\ RecordedSound'
  BY <1>1 DEF Inv, WiringSound, RecordedSound, Healthy, Running
<1> QED
  BY <1>2, <1>3, <1>4, <1>5 DEF Inv

LEMMA PowerLossKeeps == Inv /\ PowerLoss => Inv'
<1> SUFFICES ASSUME Inv, PowerLoss PROVE Inv'
  OBVIOUS
<1>1. /\ file \in Files /\ disk \in Files
      /\ daemon \in [installed : BOOLEAN, session : Session]
      /\ faults["power"] \in Nat
  BY DEF Inv, TypeOK, Fault
<1>2. /\ faults' \in [Fault -> Nat] /\ faults'["power"] # 0
      /\ run' = Idle /\ disk' = file'
      /\ UNCHANGED <<server, entry, selection, recorded>>
  BY <1>1, HappensTyped DEF Inv, PowerLoss, Fault, Ends
<1>3. /\ file' \in Files
      /\ file'.credentials \in {file.credentials, disk.credentials}
      /\ file'.matrix \in {file.matrix, disk.matrix}
      /\ file'.config \in {file.config, disk.config}
  <2>1. file' \in [credentials : {file.credentials, disk.credentials},
                  matrix : {file.matrix, disk.matrix},
                  config : {file.config, disk.config},
                  binary : {file.binary, disk.binary}]
    BY DEF PowerLoss
  <2> QED
    BY <1>1, <2>1 DEF Files
<1>4. /\ daemon' \in [installed : BOOLEAN, session : Session]
      /\ daemon'.installed = daemon.installed
      /\ daemon.installed => daemon' = [installed |-> TRUE, session |-> file'.config]
  <2>1. daemon' = IF daemon.installed THEN [daemon EXCEPT !.session = file'.config] ELSE daemon
    BY DEF PowerLoss
  <2> QED
    BY <1>1, <1>3, <2>1 DEF Files
<1>5. /\ run'.pc = "idle" /\ run'.command = "resume"
      /\ run' \in Run
  BY <1>2, IdleTyped
<1>6. TypeOK'
  BY <1>2, <1>3, <1>4, <1>5 DEF Inv, TypeOK
<1>7. Commands' /\ ServerSound' /\ RecordSound' /\ VerifiedSound'
  BY <1>1, <1>2, <1>3, <1>4, <1>5 DEF Inv, Commands, ServerSound, RecordSound, VerifiedSound, At,
     Exchanging, Verifying, Destroying
<1>8. ExchangeSound' /\ PairSound'
  BY <1>2, <1>3, <1>4, <1>5 DEF Inv, ExchangeSound, PairSound, Exchanging, Installed, Configured,
     Verifying
<1>9. WiringSound' /\ RecordedSound'
  BY <1>2, <1>3, <1>4, <1>5 DEF Inv, WiringSound, RecordedSound, Configured, Installed
<1> QED
  BY <1>6, <1>7, <1>8, <1>9 DEF Inv

-----------------------------------------------------------------------------
LEMMA InitInv == Init => Inv
<1> SUFFICES ASSUME Init PROVE Inv
  OBVIOUS
<1>1. /\ run = Idle /\ run.pc = "idle" /\ run.command = "resume" /\ run \in Run
      /\ NoSession \in Session
  BY IdleTyped DEF Init
<1>2. /\ server = [owner |-> NoSession, agent |-> NoSession, up |-> TRUE]
      /\ file = [credentials |-> NoSession, matrix |-> NoSession, config |-> NoSession,
                 binary |-> FALSE]
      /\ disk = file
      /\ daemon = [installed |-> FALSE, session |-> NoSession]
      /\ entry = FALSE /\ selection \in Selection
      /\ faults = [k \in Fault |-> 0]
  BY DEF Init, Selection
<1>3. /\ recorded \in [requested : BOOLEAN, installed : BOOLEAN, complete : BOOLEAN,
                       destroying : BOOLEAN, destroyed : BOOLEAN]
      /\ ~recorded.installed /\ ~recorded.complete /\ ~recorded.destroyed
  <2>1. recorded \in [requested : BOOLEAN, installed : {FALSE}, complete : {FALSE},
                     destroying : {FALSE}, destroyed : {FALSE}]
    BY DEF Init
  <2> QED
    BY <2>1
<1>4. TypeOK
  <2>1. server \in [owner : Session, agent : Session, up : BOOLEAN]
    BY <1>1, <1>2
  <2>2. file \in Files /\ disk \in Files
    BY <1>1, <1>2 DEF Files
  <2>3. daemon \in [installed : BOOLEAN, session : Session] /\ faults \in [Fault -> Nat]
    BY <1>1, <1>2
  <2> QED
    BY <1>1, <1>2, <1>3, <2>2 DEF TypeOK
<1>5. Commands /\ ServerSound /\ RecordSound /\ VerifiedSound
  BY <1>1, <1>2, <1>3 DEF Commands, ServerSound, RecordSound, VerifiedSound, At, Verifying,
     Destroying
<1>6. ExchangeSound /\ PairSound
  BY <1>1, <1>2 DEF ExchangeSound, PairSound, NoSession, Exchanging, Configured, Installed,
     Verifying
<1>7. WiringSound /\ RecordedSound
  BY <1>1, <1>3 DEF WiringSound, RecordedSound, Configured, Installed
<1> QED
  BY <1>4, <1>5, <1>6, <1>7 DEF Inv

LEMMA NextKeeps == Inv /\ [Next]_vars => Inv'
<1> SUFFICES ASSUME Inv, [Next]_vars PROVE Inv'
  OBVIOUS
<1>1. CASE Resume \/ ConnectInstall \/ Destroy
  BY <1>1, ResumeKeeps, ConnectInstallKeeps, DestroyKeeps
<1>2. CASE Product
  BY <1>2, PortalAuthKeeps, CreateAgentSessionKeeps, WriteCredentialsKeeps, WriteMatrixKeeps DEF
     Product
<1>3. CASE Wiring
  BY <1>3, WriteConfigKeeps, InstallBinaryKeeps, InstallDaemonKeeps, DoctorKeeps, VerifyMcpKeeps,
     SetEntryKeeps, ProbeEntryKeeps, RecordWiringKeeps DEF Wiring
<1>4. CASE Verification
  BY <1>4, VerifyProductKeeps, RecordCompleteKeeps DEF Verification
<1>5. CASE Removal
  BY <1>5, DeleteServerKeeps, UninstallConnectKeeps, RecordDestroyedKeeps DEF Removal
<1>6. CASE World
  BY <1>6, EndEarlyKeeps, RollbackEntryKeeps, PowerLossKeeps, SelectAnotherKeeps DEF World
<1>7. CASE UNCHANGED vars
  BY <1>7 DEF vars, Inv, TypeOK, Commands, ServerSound, RecordSound, ExchangeSound, PairSound,
     WiringSound, RecordedSound, VerifiedSound, At, Stored, Healthy, Running
<1> QED
  BY <1>1, <1>2, <1>3, <1>4, <1>5, <1>6, <1>7 DEF Next, RunStep

-----------------------------------------------------------------------------
(* The inductive invariant holds: what a run has made sure of at each of    *)
(* its steps, and what outlives it.                                         *)
THEOREM InvariantHolds == Spec => []Inv
<1> QED
  BY InitInv, NextKeeps, PTL DEF Spec

(* Every reachable state is of its types, and no record contradicts what    *)
(* the validation of state.json requires.                                   *)
THEOREM TypeCorrect == Spec => []TypeOK
<1>1. Inv => TypeOK
  BY DEF Inv
<1> QED
  BY <1>1, InvariantHolds, PTL

(* The two session files are of one exchange, the last one, however many    *)
(* runs of complete_product were killed between their steps, as long as the *)
(* machine kept its power.                                                  *)
THEOREM OneExchange == Spec => []PairIsOfOneExchange
<1>1. Inv => PairIsOfOneExchange
  BY DEF Inv, PairSound, PairIsOfOneExchange, Stored
<1> QED
  BY <1>1, InvariantHolds, PTL

(* A wiring that the engine recorded serves until the server is removed:    *)
(* no later command, kill or power loss leaves the daemon with a session    *)
(* the server refuses (install_connect, daemon install --force).            *)
THEOREM WiringServes == Spec => []RecordedWiringServes
<1>1. Inv => RecordedWiringServes
  BY DEF Inv, RecordedSound, RecordedWiringServes
<1> QED
  BY <1>1, InvariantHolds, PTL

(* A deployment is recorded as complete with living sessions and a working  *)
(* daemon only, and one that was wired is recorded as destroyed without its *)
(* daemon only.                                                             *)
THEOREM RecordsAreTrue == Spec => WiringRecordsAreTrue
<1> DEFINE Completes == ~recorded.complete /\ recorded'.complete =>
                          /\ file.credentials = server.owner
                          /\ recorded.requested => Healthy /\ (NeedsEntry(run.kind) => entry)
           Destroyed == recorded.installed /\ recorded'.destroyed => ~daemon'.installed
<1>1. ASSUME Inv, [Next]_vars PROVE Completes /\ Destroyed
  <2>1. /\ recorded.destroyed => ~recorded.installed
        /\ recorded \in [requested : BOOLEAN, installed : BOOLEAN, complete : BOOLEAN,
                         destroying : BOOLEAN, destroyed : BOOLEAN]
    BY <1>1 DEF Inv, TypeOK, RecordSound
  <2>2. CASE RecordComplete
    <3>1. recorded'.destroyed = recorded.destroyed
      BY <2>1, <2>2 DEF RecordComplete
    <3> QED
      BY <1>1, <2>1, <2>2 DEF Inv, VerifiedSound, RecordComplete
  <2>3. CASE RecordDestroyed
    BY <1>1, <2>3 DEF Inv, RecordSound, At, RecordDestroyed
  <2>4. CASE RecordWiring \/ Destroy
    BY <2>1, <2>4 DEF RecordWiring, Destroy
  <2>5. CASE UNCHANGED recorded
    BY <2>1, <2>5
  <2>6. RecordComplete \/ RecordDestroyed \/ RecordWiring \/ Destroy \/ UNCHANGED recorded
    <3>1. CASE Resume \/ ConnectInstall \/ Destroy
      BY <3>1 DEF Resume, ConnectInstall
    <3>2. CASE Product
      BY <3>2 DEF Product, PortalAuth, CreateAgentSession, WriteCredentials, WriteMatrix
    <3>3. CASE Wiring
      BY <3>3 DEF Wiring, WriteConfig, InstallBinary, InstallDaemon, Doctor, VerifyMcp, SetEntry,
         ProbeEntry
    <3>4. CASE Verification
      BY <3>4 DEF Verification, VerifyProduct
    <3>5. CASE Removal
      BY <3>5 DEF Removal, DeleteServer, UninstallConnect
    <3>6. CASE World
      BY <3>6 DEF World, EndEarly, RollbackEntry, PowerLoss, SelectAnother
    <3>7. CASE UNCHANGED vars
      BY <3>7 DEF vars
    <3> QED
      BY <1>1, <3>1, <3>2, <3>3, <3>4, <3>5, <3>6, <3>7 DEF Next, RunStep
  <2> QED
    BY <2>2, <2>3, <2>4, <2>5, <2>6
<1>2. Inv /\ [Next]_vars => [Completes /\ Destroyed]_vars
  BY <1>1
<1> QED
  BY <1>2, InvariantHolds, PTL DEF Spec, WiringRecordsAreTrue
=============================================================================

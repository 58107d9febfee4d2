# Formal verification of the Dirextalk deployer

TLA+ specifications, TLC model checking and TLAPS proofs for the Rust deployer
(`src/crates/`), a command-line program that creates, resumes and destroys one
Dirextalk node on Google Cloud. Its whole difficulty is that it may stop at any
point (crash, failed call, closed laptop, power loss) and must then continue
from one authenticated file, without losing, duplicating or wrongly deleting a
paid resource.

## 1. Inventory

| Component | State | Operations | What is hard, what must hold |
|---|---|---|---|
| Deployment engine (`deployer-cli/src/engine.rs`) | `DeploymentState` in memory | `apply`, `resume_plan`, `resume_pending_only`, `destroy`, `plan_destroy`, `install_connect` | death between any two awaits; retries; approvals. Nothing orphaned, nothing unapproved created or deleted, completion proven, resume and destroy terminate |
| Commands and node lookup (`application.rs`, `store.rs`) | node directory, its lock | one command per process | observation before the lock, find / unlock / relock; no lost update |
| State and validation (`deployer-core/src/model.rs`) | state.json contents | `validate`, `advance`, `new` | cross-field rules that every write must pass, so a wrong write is a failed command |
| Plans (`deployer-core/src/plan.rs`) | plan.json contents | build, validate, `from_state`, digests | child-before-parent order; initial plan versus DNS continuation |
| Live backend, GCP lifecycle (`runtime.rs`, `deployer-gcp/src/lifecycle.rs`) | provider operations and resources, A record, host | start, poll, revalidate, receipt of an effect; host, product and Connect steps | request-id idempotence, lost answers, failed operations, same-name replacements |
| State store and seal (`state_store.rs`) | lock file, seal key, state.json, temporary file | open, read, write | crash or power loss between any two system calls; a directory replaced behind its path |
| Project preparation (`project_prepare.rs`, `service_usage.rs`) | its own journal | discover, approve, enable missing services one by one, read back | no request id; another account; others who switch services; a journal that a power loss takes back |
| Host installer (`deployer-host`, `deployer-transport`) | staged files, provisioned host, signed receipt | upload, load, the fixed steps, receipt, cleanup | installers that outlive their run and race over the same files; half-installed hosts; a receipt only of a healthy host |
| Product and Connect (`live_product.rs`, `host_mcp.rs`, `deployer-connect`) | two session files, config, executable, service, MCP entry | exchange, install, doctor, verify, uninstall | partial installation, mixed sessions, records that are not true |
| Release verification (`release.rs`) | none | resolve, verify, download | a publication that changes between two requests |
| Pricing (`runtime.rs`, `pricing.rs`) | none | choose SKUs, price, validate | tiers, rounding, overflow, order of pages |
| Configuration, OAuth, preflight, REST | none | validation and reads | failed checks are failed commands |
| Split-agent runtime scripts (`runtime/split-agent/scripts`) | host files, containers | start, update, clean up | rollback of updates |
| Packaging, workflows | none | build time | not a running system |

How they interact: a command (`application.rs`) observes the project, the zone
and the prices, opens the node directory (an exclusive file lock, held until the
command returns) and hands a `StateStore` to the engine. The engine reads
state.json, calls the backend for every effect and writes state.json around each
call; installing the host, exchanging the product's sessions and wiring the
local daemon are such calls with a protocol of their own. Nothing else is shared
between commands. Google Cloud, the zone, GitHub, the host and the local daemon
change behind the engine's back.

## 2. How the modules fit together

| Module | What it holds |
|---|---|
| `DeploymentState` | data of state.json and of both kinds of plan; `Validate`; plan matching; `ApplyReceipt`. No variables |
| `Deployment` | the processes, files, provider, zone, host and local machine; one action per step of a command |
| `WriteAheadLedger` | abstract specification: slots are entered, appear, are condemned, vanish, are struck |
| `DeploymentProperties` | its properties, the refinement mapping, the fairness assumptions |
| `DeploymentInvariant`, `DeploymentProofs`, `LedgerProofs` | the inductive invariants and the proofs |
| `StateStore`, `StateStoreProofs` | the store of one directory, system call by system call |
| `DurableRegister` | abstract specification of the store: a version is put, acknowledged, or taken back before it was |
| `ProjectPrepare`, `ProjectPrepareProofs` | `project prepare`, its journal, Service Usage and other users of the project |
| `HostInstall`, `HostInstallProofs` | a local run, the installers on the host, and the host |
| `LocalWiring`, `LocalWiringProofs` | product sessions, their files, the Connect daemon, the OpenClaw entry |
| `ReleaseChain`, `ReleaseChainProofs` | publication, approval, download and what the host runs |
| `PricingQuote`, `PricingProofs` | the estimate and its validation, as operators over price lists, and what they compute |
| `MC...` | bounds and symmetry for TLC; one or more `.cfg` each |

`Deployment` takes one step where four other modules take many. It assumes that
a write of state.json is atomic and durable when it returns and that a directory
has one owner: `StateStore` shows both (`RegisterSpec`, `OpenIsExclusive`), of
the calls that implement them. Its `InstallHost` is a run of `HostInstall`
(`RecordedIsOnHost` and `ReceiptMeansHealthy` say what its receipt is worth), and
its `CompleteProduct`, `InstallConnectStep`, verification (`VerifyHost` to
`VerifyConnect`) and `UninstallConnect` are those of `LocalWiring`. Both take from `StateStore` that
only one command runs at a time. `HostInstall` takes the files it uploads as one
release, which is what `ReleaseChain` shows (`HostRunsWhatWasSigned`).
`ProjectPrepare` comes before a deployment and shares nothing with it;
`PricingQuote` is what a plan carries.

### State of `Deployment`

| Variable | Code |
|---|---|
| `stored` | state.json, authenticated and atomically replaced (`StateStore::write`) |
| `storedPlan` | plan.json |
| `nodeDir`, `lock` | `~/.dirextalk/nodes/<domain>/` and its lock file |
| `proc` | each running command: its program point, in-memory `DeploymentState`, plan, and approval; `began`, a history variable, is what a verification found when it began |
| `shown` | the plans last printed for approval |
| `lastId` | source of fresh effect UUIDs |
| `cloud`, `ops`, `zone` | resources by name, operations by request id, the A record: its addresses (`"many"`: several) and whether its TTL is the one an update writes |
| `host`, `local` | the instance the installer completed on; credentials and daemon on this machine |
| `faults` | how many faults a behaviour has had so far |

A resource is its numeric id; a created resource's id is that of the effect that
created it, so that "which effect made this" needs no history. A plan stands for
its own digest, which binds every field of it. The destroy cursor is the set of
targets left. The pinned SSH identity and the host receipt, always written
together, are one Boolean; so are `installed` and `service_active`. Project,
principal, prices, names and release identities are constant in a behaviour:
their revalidation only ever fails a command, which any step may do anyway
(`Abort`).

An action is the code between two points where the process may die or a call
fail: a durable write, a mutating request, an installer run. Checks on the way
are guards, and a failed check is the command's error return, which drops its
memory and its lock (`Quit`).

| Commands | Actions |
|---|---|
| `deploy plan` | `DeployPlan` |
| `deploy apply` | `ApplyObserve`, then `ApplyFound` / `ApplyNotFound` / `ApplyRefused`, `ApplyOpenFresh`, `WritePlanFile`, `WriteApplying`, then as resume |
| `deploy resume [--pending-only]` | `Resume`, `ResumePlan`, `NextEffect`, `ResolveDns`, `RevalidateHost`, `InstallHost`, `WriteInstalled`, `CompleteProduct`, `InstallConnectStep`, `WriteWiring`, `VerifyHost`, `VerifyHttp`, `VerifyConnect`, `WriteComplete` |
| each effect | `JournalEffect` (inside `NextEffect`, `ResolveDns`, `NextTarget`), `StartCreate` / `CheckDelete` + `RequestDelete` / `StartDns`, `RecordOperation`, `PollEffect`, `RecordReceipt` |
| `connect install` | `ConnectInstall`, `WriteLinked` |
| `deploy destroy` | `ShowDestroyPlan`, `OpenDestroy`, `BeginDestroy`, `NextTarget`, `UninstallConnect`, `WriteDestroyed` |
| environment | `OperationDone`, `OperationFails`, `Tamper`, `TamperDns`, `OperatorSetsDns`; `Abort` of a process |

`deploy status` and `deploy verify` change no state and have no action.

Planning reads the addresses of the A record and no more; `Satisfied` and
`Expected` compare the record as a whole, as `dns_change_already_satisfied`
does. Verification is three groups of awaited checks (the host over SSH, the
public endpoints, the daemon) and a write, and others may act between any two:
what is checked first may have changed when `complete` is written.

### State of the other modules

`StateStore`: `root` is the directory at the node's path, `entries` what
processes see in each directory (seal key, sealed state), `disk` what a power
loss leaves of it, `store` what each process holds (locked directory, key,
temporary file, version). The bytes of a key file are kept apart from its entry
in the directory: `written` are the keys whose bytes are there, `durable` those
whose bytes are on disk, which only `SyncKey` sees to, and `abandoned` those
whose maker ended before it. `SyncDirectory` puts entries on disk, never bytes.
`Open`, `Read`, `Write` are sequences of actions, one
per system call that can be the last: create, fill and synchronize the key, or
open and read the one that is there, identity checks, temporary file, rename,
directory sync, readback.
`WriteBackKey`, `WriteBackState`, `PowerLoss` are the file system, in any order
(`ordered` remembers whether it was the order they were made in), and
`ReplaceDirectory` is somebody else.

`ProjectPrepare`: `file` and `disk` are the journal as processes read it and as
a power loss leaves it; `enabled` and `ops` are Service Usage; `proc` the runs
with what each has read; `approved` the plans shown, with the account;
`touched` what other users switched.

`HostInstall`: `run` is the local run (key, request, pin, connect, upload and
readback of four files, execute, receive), `node` its files, `staged` the files
under `/var/tmp`, `installer` the installer processes by the run that started
them, `receipt`, `provisioned`, `started`, `up` the host. A receipt has the
request and the moment of its completion, and with that its signature: two
installers of one request would write different ones. The fixed steps of the
installer are an action each; the gates (`Verify...`) read what the host is at
that moment. `MaterializeRuntime` finds the output directory empty, `Provision`
no Docker objects of the stack, and `StartMessageServer` links the journal of
start-local.sh (`started`), which can succeed once: nothing in an installation
removes that journal. `WriteReceipt` replaces whatever is there. `Kill`,
`LocalPowerLoss`, `StepFails`, `Stop`, `Reboot`, `MoveNameserver`,
`ChangeSshKey` are the faults; a reboot is an orderly one that keeps what is on
the host's disk.

`LocalWiring`: `server` the sessions the product accepts (by the exchange that
made them), `file` and `disk` the two session files, config and executable,
`daemon` with the session it read, `entry` and `selection` the Agent, `recorded`
the part of state.json it is about.

`ReleaseChain`: `published` what GitHub serves, `approved` the exact identity a
plan carries, `run` what one command has downloaded, `host` what is installed. A
digest stands for the content it is the digest of, a signature for its key. The
images are in the manifests only, the updater's identity is in the request too,
where the host compares it. That
no manifest carries the audited key's signature unless the build made it is an
assumption of `Replacement`.

`PricingQuote`: a state is a configuration, a price list and a quote. The
algorithms are operators (`ExactNonnegative`, tiers, pieces, rounding,
`Validate`) and `Estimate` and `CheckBudget` apply them. Integers have a
width (`WIDTH`) and overflow where the code's do. Powers of two (`Pow2`) and the
greatest common divisor (`Gcd`) are recursive functions, sums are over the
domain of a function, and the lines of all SKUs are a function of their place
(`Pieces`), so that the proofs can take them apart.

## 3. Runs

| Run | Shows | Bounds |
|---|---|---|
| `safety` | `NoCreateWhileDestroying`, `ReceiptIsOfThisHost`, `EffectsFollowApproval`; `LedgerSpec`: the deployment implements `WriteAheadLedger` | 1 process, every command, 4 resources and the A record, 2 plan generations, 2 aborts, 1 failed operation |
| `tamper` | `DeletesOnlyApproved`, `DestroyFollowsApproval`, `CompletionIsProven`, `DnsReplacesOnlyWhatWasShown` | 1 process, every command, 3 resources and the A record, 1 abort, 1 failed operation, 1 change by others |
| `race` | `LockedMemoryIsCurrent`, `NoOrphan`, `DestroyedIsClean` | 2 symmetric processes, plan, apply, resume and both destroys, 3 resources and the A record, 1 abort, 1 failed operation, 1 change by others, between the check and the request of a delete too |
| `progress` | `ParentsExist`, `ResumeCompletes`, `DestroyCompletes` | 1 process, all 8 resources and the A record, 2 aborts |
| `failed_operation` | refutes `ResumeCompletes` where an operation fails, see section 5 | as small as it can be |
| `project_prepare` | `EnablesOnlyApproved`, `NoForgottenEnable`, `PendingIsFirst`, `CompleteMeansEnabled` | 2 runs, 2 accounts, 2 services, 4 operations, 2 faults of 3 kinds |
| `power_loss` | `PreparedEventually` | 1 run, 2 services, 1 abort and 1 power loss |
| `state_store` | `SealFitsKey`, `OpenIsExclusive`; `RegisterSpec`: the store implements `DurableRegister` | 2 symmetric processes, 2 versions, 2 keys, 2 directories, 2 power losses |
| `host_install` | `RecordedIsOnHost`, `CleanWhenRecorded`, `PinnedOnce`, `ReceiptMeansHealthy`, `ReceiptIsFinal`, `InstalledEventually` | 3 runs alive at a time, 2 name servers, 2 host keys, 2 receipt keys, 2 moments of completion, 1 fault of any of 7 kinds |
| `local_wiring` | `PairIsOfOneExchange`, `RecordedWiringServes`, `WiringRecordsAreTrue`, `WiredEventually` | 5 exchanges, 4 faults of at most 3 ended commands, 2 power losses, 1 other Agent |
| `pricing` | `TypeOK`, `QuoteIsExact`, `QuotedWhenRegular`, `AcceptedByPlan`, `OrderIndependent` | 16-bit integers, months of 6 hours, 100 nanos to the unit, 10 to the micro-unit; lists of up to three tiers |
| `release` | `HostRunsWhatWasSigned`, `IdentityIsOfOneRelease`, `InstalledEventually` | 2 tags, 2 builds, 2 keys, 2 changes of the publication |

Why these bounds mean something. Every abort and every fault is placed by TLC
at every step, so one abort covers every single point of death and two cover a
death during recovery from a death.

- `Deployment`: `address`, `disk` and `instance` keep every case of the code: a
  resource without parents, one with several, and the two with rules of their
  own; the A record is always there; `progress` has the whole topology. One
  process runs any number of commands one after the other; a second one adds
  only what happens between the lock's release and its next taking, which
  `race` covers and `LockIsExclusive` proves for any number. A third plan
  generation would be a continuation of a continuation, which `CanContinue`
  treats as the second. With `RaceDelete` somebody may act between a delete's
  check and its request. It is `TRUE` in `race`; `tamper` and `OnlyApprovedDeletes`
  exclude it, since what is deleted then need not be what was approved, which is a
  finding (section 5).
- `StateStore`: two power losses cover a loss during recovery from a loss; two
  keys let a key be made, lost and made again. `SealFitsKey` and
  `OpenIsExclusive` are proved for any number of either.
- `HostInstall`: one killed run leaves an installer that races with every later
  run, over the files it uploads and beside the installer it starts; three
  identities tell its files, theirs and those of a run after them apart. More
  faults at a time are left to the theorems, which have no such bound.
- `LocalWiring`: a mixed pair of sessions takes an exchange, a power loss and
  another exchange; the bounds leave one of each to spare.
- `PricingQuote`: 65536 is the first boundary, and the first base-unit
  conversion, that wraps in 16 bits, 20 and
  more lies beyond the usage of a month, 0, 1/2, 2, 3 are at and inside it; the
  malformed lists have one defect each of every check in the code.
- `ReleaseChain`: two changes may come between two requests of one command, or
  one before and one after the approval.

Symmetry is used in `race`, `project_prepare` and `state_store` only, where no liveness is
checked and no definition tells the symmetric values apart. Deadlock is checked
wherever a command can always be started again. `HostInstall`, `LocalWiring`,
`PricingQuote` and `ReleaseChain` really stop, when the host is recorded, the
deployment destroyed or its exchanges used up, the quote judged, the release
installed and the changes used up; their runs say so.

Types: `TypeOK` is proved of every module with variables, and checked in
`pricing` too, where it says that every number fits its width.

## 4. Fairness

- `Deployment` (`ProgressSpec`): weak fairness of each process's own steps (a
  started command keeps running; its awaits are bounded), of the provider's
  finishing operations, and of the operator creating the A record asked for.
  `OperatorResumes` is strong fairness of the command the README tells the
  operator to repeat, and `OperatorFinishesDestroy` of `deploy destroy` once a
  destroy has begun: strong, because a command that ends in an error is not
  continuously startable. `Abort` has no fairness and a finite bound, which is
  "however often, but not for ever". Both properties assume no failed operation
  and no tampering: with either the code stops for a human (tampering) or does
  not recover (failed operations).
- `ProjectPrepare`: runs go on, operations end and take effect (weak); the user
  repeats the approved command (strong).
- `HostInstall`: the local run and every installer go on, the asked-for record
  is published (weak). Restarting an idle run is part of the local run's weak
  fairness: the user resumes until the host is recorded.
- `LocalWiring`: a command goes on (weak), the user resumes (strong, since other
  commands may hold the lock in between).
- `ReleaseChain`: a command goes on, and one that failed is run again (weak).
- `StateStore` and `PricingQuote` state no liveness: nothing there waits.

What liveness does not promise is in the properties by name:
`RecordNeverMatches`, `HalfProvisioned`, `DeadEnd`, `Intact`, changed keys and name servers, switched services. In each
of these the code stops for a human, by design or by one of the findings.

## 5. What the code does not keep

`failed_operation` is a run that TLC refutes: an operation that failed stays in
the journal and is polled by every resume; neither resume nor destroy gets past
it. The others were met while reading and modelling; the models follow the code,
and the properties are stated around them, as said:

- A DNS continuation can be applied over a journaled effect of the initial plan
  (`engine.rs:194`), which then belongs to no approved plan and is reconciled by
  none. `EffectsFollowApproval` is about what is journaled, not what was.
- Once the host is installed, unresolved external DNS ends in a validation error
  instead of the documented wait (`engine.rs:283`): the write of `ResolveDns`
  does not pass `Validate`.
- A daemon whose installation was not recorded survives the destroy
  (`engine.rs:309`): `WiringRecordsAreTrue` speaks of recorded wiring.
- Delete checks the numeric id and then deletes by name (`lifecycle.rs:1269`): a
  resource put in place between the two is deleted under no approval
  (`RaceDelete`). `DeletesOnlyApproved` is stated where nobody acts in between.
- A first apply with an outdated approval leaves a directory without state.json
  that blocks every later plan and apply (`store.rs:40`): `ApplyRefused`.
- A host installation that stopped after provisioning, with the documented exit
  code of a waiting user for instance, cannot be resumed: the provisioning script
  refuses its own output (`deployer-host/src/lib.rs:1678`): `HalfProvisioned`.
- An old A record with another TTL than 300, or with several addresses, is
  planned, approved and journaled, since planning reads its addresses only, and
  then refused by every resume, since the change compares it as a whole
  (`runtime.rs:1237`, `lifecycle.rs:2403`). Nobody need have touched it.
  `ResumeCompletes` excepts this case (`RecordNeverMatches`).
- The bytes of a seal key are synchronized only by the process that makes it
  (`state_store.rs:327`). If that is killed just before, others read the key and
  acknowledge states under it that a power loss can make unreadable
  (`state_store.rs:301`). `SealFitsKey` says that the key of an acknowledged
  state is either on disk as a whole or of such a maker (`abandoned`).
- A tier boundary or a base-unit conversion of 2^64 or more wraps instead of
  being refused (`runtime.rs:2256`). `QuoteIsExact` is stated where boundaries
  fit (`Representable`); the conversion places a line's boundary in base units
  and enters no price.

## 6. Proofs

Every theorem holds for every value of the constants that satisfies the named
assumptions (`ConstantsAssumption`, `CreatedAssumption`, `StoreAssumption`,
`PrepareAssumption`, `HostAssumption`, `NilAssumption`, `ReleaseAssumption`,
`WiringAssumption`, `PricingAssumption`, `CatalogueAssumption`,
`InvalidAssumption`), which TLC evaluates on every run: any set of processes, any
topology with an address, a disk and an instance, any bounds on faults, any width
of the integers that holds four months of hours (`pricing_quote` multiplies at
most 4 by 730), and any catalogue of well-formed values. "Absent" and "refused"
must not be values, which is what the assumptions about `Nil` and `Invalid` say.

### Deployment

`DeploymentProofs` proves `TypeCorrect`, `LockIsExclusive`
(`LockedMemoryIsCurrent`) and `DisciplineHolds`, of which both are parts.
`LockedMemoryIsCurrent` is not inductive: that a process without the lock has
nothing in memory, and that a process executing an effect has one, are needed to
show that memory still agrees with state.json after its next write.
`ControlAgrees`, `StoredIsValid` and `JournalIsSound` say so, and `Discipline`
is the conjunction. Each action has a lemma for its types and one for what it
keeps, over lemmas for the few ways a step can end (`Quit`, `Goto`,
`WriteState`, `WriteLast`).

Its second part proves `InvariantHolds` (`[]IInv`) and
from it `NothingOrphaned`, `OnlyApprovedDeletes`, `NothingRebuilt` and
`CleanWhenDestroyed`. `NoOrphan` alone is not inductive: a receipt would clear
the journal of an operation that still runs, and a late insert would put a
resource under the id an old delete is waiting for. `IInv` adds to `Discipline`
what rules that out. `IdsAreFresh`: the journaled effect has the last id minted,
everything recorded or requested an older one, and a delete's target is older
than the delete. `OperationsAreEffects`: an operation with the journaled
effect's id is that effect's request. `ReceiptIsEarned`: a process about to
record a receipt has seen a create's operation end, or a delete's target gone,
and one about to request a delete has seen the target in place. Where `RaceDelete` lets others act behind
that check, the invariant says instead what is left true: the delete in flight
is of the journaled target or of a resource of others that took its name
(`Strayed`), which is none of ours. Only `OnlyApprovedDeletes` assumes
`~RaceDelete`.

The first part of `LedgerProofs` needs no assumption on the environment. It shows that every
change of state.json is one of seven kinds (`Writes`), each of one program point,
and then that a process at that point has made sure of what the write needs
(`Claim`): which plan it was approved for and that plan.json holds it, that the
host it has just installed is the recorded instance, that no target is left.
For `CompletionProven` a verifying process claims more (`Proven`): the host is
the recorded instance's, what the process found when it began was the recorded
instance, the recorded address and a record that names it, and the local checks
it has passed still hold, which nobody else can undo while it has the lock
(`VerifyingAlone`, `ProvenNext`). What then fails to serve at the write was
changed by somebody else in between.
`RecordInv` is `Discipline`, `HostIsRecorded` and `Claim` of every process. From
it follow `HostReceiptIsTrue`, `CompletionProven` and `ApprovalFollowed`, the
last two action properties. `RecordReplacedAsShown`, about the A record, adds what
a change of it in flight may expect to find there (`ZoneInv`): the one address,
with the TTL the plan would write, that the journaled effect carries and the
approved plan showed.

Its second part joins both invariants (`Whole`). `DestroyApproved`
goes over the kinds of write again. `ParentsOutlive` needs that inserts in
flight, too, have the resources they name (`Family`), which the order of the
plan and of the destroy (`DestroyRank`) give as long as nobody tampers.
`ImplementsLedger` shows the refinement, initial states to initial states and
each step to one step of the ledger or a stutter (`LedgerStep`), where nobody
tampers at all (`Untouched`): what is recorded then stands unless its delete is
journaled (`Standing`).

### The other modules

- `StateStoreProofs`: `TypeCorrect`, `Exclusive`, `Sealing`, and
  `ImplementsRegister`, the refinement of `DurableRegister`. The invariant says
  of each process where it is placed (`Placed`), that the key it holds is the
  one in its file (`Keyed`), which version it is about to write (`Versioned`),
  that two processes are never in one directory (`Apart`), and of each directory
  what a power loss may take back (`DiskKeys`, `Versions`). `Sealing` joins to it
  what is known of a key's bytes (`KeyInv`): a key in use has them (`Whole`), they
  are durable, or their maker is about to synchronize them or was ended before it
  could (`Watched`), and a key under an acknowledged state is not left to a maker
  that is still at it (`AcknowledgedKept`), which the lock is needed for.
- `ProjectPrepareProofs`: `TypeCorrect`, `RunsKnowTheirFile`,
  `OnlyWhatWasApproved`, `EnablesAreJournaled`, `JournalFollowsPlan`,
  `PreparedIsEnabled`. The invariant relates each run to its file (`RunSound`)
  and to the services it has walked over (`Walked`), and each operation to the
  journal (`Journaled`). That a non-empty set of services has a first one is
  proved from well-founded induction on the naturals.
- `ReleaseChainProofs`: `TypeCorrect`, `OneRelease`, `SignedRuns`. The invariant
  says what a run knows at each step, and that everything published with the
  audited signature was made by the build (`Genuine`).
- `HostInstallProofs`: `TypeCorrect`, `RecordedHostHasReceipt`,
  `RecordedHostIsClean`, `OneHostKey`, `ReceiptAfterHealth`,
  `FirstReceiptIsFinal`. `Sound` says what an installer has done by its step
  and which services it can still vouch for, `RunSound` what the waiting run may
  rely on, among it that its installer has removed the files it has passed
  (`Removed`); the file that `CleanWhenRecorded` is about may have been put there
  by another run, and it is the comparison of each file with the one loaded that
  makes the last removal leave nothing. `OneReceipt`: start-local.sh lets one
  installer past it (`Beyond`), there is no receipt while that one is on its way,
  and what installers answer and the engine records is the one it writes, with
  its time. So neither property about the receipt needs a request that never
  changes, or an installer that is alone. `Pinned`: the
  host keys contacted are the one written down. A generic lemma
  (`InstallerStep`) treats a step of one installer beside any others.
- `LocalWiringProofs`: `TypeCorrect`, `OneExchange`, `WiringServes`,
  `RecordsAreTrue`. None of the properties is inductive: that the session files
  are a pair says nothing of a run between its two writes. `ExchangeSound` says
  which sessions a run holds at each step of the exchange and what of them is
  stored, `PairSound` that `matrix-session.json` comes second and only from the
  last exchange (until a power loss), `WiringSound` which session the config, the
  daemon and the disk have by each step of the wiring, `RecordedSound` that once
  the wiring is recorded both session files and the config are stored for good,
  which is why no later resume can exchange again, and `VerifiedSound` what
  `verify` has seen. There is one lemma for each action, and one for the two ways
  a command ends (`DroppedKeeps`).

### Pricing

`PricingProofs` proves `TypeCorrect`, `QuoteCovers` (`QuoteIsExact`),
`PlanAccepts` (`AcceptedByPlan`), `OrderDoesNotMatter` (`OrderIndependent`) and
`RegularIsQuoted` (`QuotedWhenRegular`). As a state machine it is small: `Inv`
says that the inputs are the constants', that the quote is `Quote` of them, and
that the verdict is `Validate` of it. The work is in what the operators compute,
over integers of any width:

- Arithmetic. `Pow2` and `Gcd` have the values of their recursive definitions
  (by well-founded induction on the naturals, for `Gcd` on the second number of
  the pair), the divisor divides both numbers, and what `Reduced` leaves has no
  common divisor (`Reduced`, `Subtract` and `OverMonth` yield `IsReduced`).
- Sums. `SumOf` of a function over a finite set is described by `AddsUp`: a
  function on its subsets that is 0 on the empty one and grows by one value for
  each element. From it: sums over disjoint parts add (`HalvesAddUp`), an
  injection changes nothing (`SumOfImage`), a stretch of equal values adds its
  length times the value (`StretchIs`), and amounts that cover a stretch each
  cover the whole (`StretchesAddUp`).
- A SKU. Each line's usage is the difference of two neighbouring boundaries of
  `Normalized`, so that the usages of all lines of a SKU add up to its usage;
  the grains of a line all have the rate the line is priced at; and rounding
  adds less than a micro-unit to each line.
- The quote. `SelectPrice` and `SelectExact` choose the same SKU for every
  permutation of a catalogue that lists none twice, since price and name order
  the candidates strictly.
- A catalogue in good order (`Priced`) is one of which a user would expect a
  quote: every exact description is found once and every search finds something,
  the four SKUs differ, the boundaries of each are increasing, exact in base
  units and below `2^WIDTH` (`Regular`), and the month of each, in the grain of
  its boundaries and at the price of any of its tiers, fits the width
  (`Moderate`). `PricedIsQuoted` shows that then no intermediate result
  overflows. The difference of two boundaries is reduced at once, and needs to
  be: the product of the denominators may not fit, but the smaller denominator is a
  power of two that divides both sides (`SliceFits`, from `LowestTerms`). A slice
  of at most `u` units costs at most what `u` units cost and one micro-unit
  (`SubtotalFits`), and so many amounts add up to no more than so many times the
  largest (`SumFits`).

The library's induction theorems take an operator as a parameter, which the
installed provers cannot instantiate. These inductions are stated in terms of
sets instead: the set of counterexamples, were it not empty, would have a least
number in it, or a set of least cardinality (`Least`, `FiniteInduction`, from
`WellFoundedInduction`).

### What only TLC checks

Every safety property, action property and refinement that a run checks is
proved. The liveness properties (`ResumeCompletes`, `DestroyCompletes`,
`PreparedEventually`, both `InstalledEventually`, `WiredEventually`) stay with
TLC: they need fairness and `ENABLED`, which are out of the prover's reach.

## 7. Not modelled

- Configuration (`config.rs`): text validation of one file, without state.
- OAuth, preflight, REST: read-only requests and token exchange, whose failure
  is a failed command; preflight appears as the observation of `Deployment`.
- The split-agent runtime scripts: shell programs that run on the host without
  the deployer. What keeps two installers of one host apart in
  `provision-local.sh` and `start-local.sh` is in `HostInstall`; what else they
  do, update with rollback and cleanup are left out.
- Packaging and workflows: build time; their output is where `ReleaseChain`
  starts.
- Within the modelled components: polling timeouts are aborts; request-id expiry
  at the provider; per-field syntax of state.json; the contents of requests; the
  older prefix-named node directories and older state formats, which no command
  of this version creates; what apt, Docker and systemd do inside an installer
  step; SSH arguments and output limits; that the Connect doctor searches the last
  120 lines of the daemon's log, which `Healthy` takes to tell of the running
  process and nothing else; the text of the daemon's config; pages
  of the catalogue, which are one list.

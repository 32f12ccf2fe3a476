# A model of openshell-driver-applecontainer

TLA+ modules of the driver's behaviour, configurations that model-check them with TLC, and
theorems about them that TLAPS proves. The code is Go; paths below are relative to the
repository's root, and `PROJECT.json` maps every definition to the lines it stands for.

## The system

The driver is one process that an OpenShell gateway drives by gRPC over a unix socket. For each
sandbox it keeps a launch record on disk and a micro-VM of apple/container, which it reaches by
running the `container` command. The same program installs, updates and removes itself and wires
the gateway to it.

| component | state | operations | properties that make it correct |
|---|---|---|---|
| registry and lifecycle RPCs (`internal/grpcsvc/service.go`, `create.go`, `lifecycle.go`, `conditions.go`) | `Server.sandboxes`: per sandbox a record, a Ready condition, `deleting`, `busy`, a cancelable provisioning task; one mutex `s.mu` | Create, Stop, Start, Delete; the provisioning goroutine; read-only Get, List, Validate | stops and starts exclude each other; record before VM and VM removed before record; a deleted sandbox stays deleted; calls end |
| poller and startup reconcile (`reconcile.go`) | a VM listing, the records to save | `pollOnce` every 2 s, `Bootstrap` | conditions converge to what the VMs do; orphans are removed; intent is not confused with failure |
| watch hub (`hub.go`, `publishSandbox`, `WatchSandboxes`) | one buffered channel per stream | subscribe, publish, drop, unsubscribe | no transition is lost between replay and stream; a publisher never waits for a reader; a removal reaches who was shown the sandbox |
| record store (`internal/state`) | `sandboxes/<id>/state.json` | Save (temporary file and rename), Load, List, Delete | it looks atomic to callers and to the successor of a killed process |
| extractor and seed (`internal/seed`) | supervisor cache, mutex, extraction containers; a seed directory per sandbox | Ensure, Write | one extraction at a time; no partial binary is used; nothing leaks for good |
| process (`cmd/.../main.go`) | the socket and its owner file | Preflight, Bootstrap, listen, drain, Close, remove the socket | shutdown ends; an old instance never takes the path from a new one; a crash blocks no successor |
| request and flag processing (`internal/config`, `driverconfig.go`, `env.go`, `quantity.go`, `preflight.go`) | the configuration | Parse, Preflight, validation, the run's arguments | mount and network policy; reserved environment; sizes; what is admitted can be provisioned |
| runtime adapter (`internal/backend`) | none; VMs belong to the system's apiserver and outlive the driver | run, delete, stop, start, list, logs, images | errors are told from "not found"; a killed command ends |
| host setup (`internal/hostsetup`, `setup.go`, `cleanup.go`, `status.go`) | the managed block in the user's `gateway.env`, certificates, a launchd agent | setup, cleanup, status | setup repairs what status complains of; cleanup undoes it; the user's lines survive |
| update (`update.go`) and versions (`internal/compat`) | the installed binary, runtime and gateway | update, verdicts | only verified releases are installed, and reach the service |
| generated code (`internal/gen`) | — | — | not modelled |

They interact in six ways. The gateway's calls run concurrently, each in a goroutine, and share
the registry under `s.mu`, which none of them holds while a command runs. A create starts a task
that outlives the call; a delete cancels it by its context and waits for it, at most 30 s. The
poller runs beside both and sees the VMs only by a listing. The store, the supervisor cache and
the VMs survive the process, and the next process rebuilds the registry from them; for a while
two processes share them and the socket's path. Conditions and events flow back to the gateway by
the watch stream. Setup leaves to the driver what the driver can do itself at its start (runtime,
network), so both must derive the same address.

What is hard: state that is read before a command and used after it (listing, record copies, the
owner file, an image's tag); stop, start, delete, provisioning and poll of one sandbox at once;
commands that fail after having worked, time out or hang; a kill between any two steps that change
disk and VMs; a shutdown with work in flight and a successor that has started; a launchd label
that lingers while its process drains. `PROJECT.json` lists these hazards one by one, at their
lines.

## Modules

| module | contents |
|---|---|
| `Lifecycle` | the registry with its handlers, the provisioning tasks, the poller, Bootstrap, shutdown and crash, over disk and VMs; its safety and liveness properties |
| `SandboxContract` | the abstract specification of a sandbox: what may happen to its record and its VM, and when |
| `LifecycleInvariants` | the inductive invariants `Registry`, `Custody`, `Finality`, `Orphans`, `Intent` and `Promise` |
| `LifecycleProofs`, `CustodyProofs` | proofs of `Registry`; of the other five, what follows from them, and that `Lifecycle` implements `SandboxContract` |
| `LifecycleClaims` | sentences of the repository's documents about sandboxes that the code does not keep |
| `Watch` | the hub, the watch streams and everyone who publishes to them |
| `StreamContract` | the abstract specification of a watch stream: what a client is told, and what it may miss |
| `WatchProofs` | the two safety theorems of `Watch`, that it implements `StreamContract`, and what the contract comes to |
| `Handover` | several instances of the process that succeed each other over one socket path, one disk and one runtime |
| `HandoverProofs`, `HandoverClaims` | its safety theorems; a comment of `main.go` and a sentence of the architecture that two instances break |
| `RecordStore` | the abstract specification of the store: saves and removals take effect at one moment |
| `StateStore` | the store by file operations that fail or are cut short by a kill; implements `RecordStore` |
| `StateStoreProofs` | the refinement and the two invariants of `StateStore` |
| `Extractor` | Ensure, Write and the sweep of a starting process, for concurrent creates of several processes |
| `ExtractorProofs` | its three safety theorems |
| `Configuration` | pure operators: settings, mount and network policy, quantities, the guest's environment |
| `Provisioning` | one driver from its flags to a VM, over `Configuration`: Parse, Preflight, CreateSandbox's validation, `provisionInner` |
| `ProvisioningProofs`, `ProvisioningClaims` | its seven safety theorems; a sentence about mounts that the code does not keep to the end |
| `ManagedBlock`, `Compat` | pure operators: the block in `gateway.env` by its lines; version verdicts |
| `HostSetup` | setup, cleanup, launchd, the agent's process and the user's own changes, over `ManagedBlock` |
| `Host` | `HostSetup` with update and status, over `Compat`; the properties of the host |
| `HostProofs` | the nine safety theorems of `Host` |
| `HostClaims` | a promise of `setup.go` that `--network` breaks; two comments of `internal/hostsetup` that do not hold |
| `MC*` | instances for TLC |

### How they compose

`Lifecycle` uses the store as `RecordStore` describes it: one step per save or removal, which takes
effect or does not. That the files of `StateStore` provide this is proved (`ImplementsRecordStore`).
`Host` extends `HostSetup`, which extends `ManagedBlock`; `Provisioning` extends `Configuration`.
`Lifecycle`, `Watch`, `Handover`, `Extractor` and `Provisioning` look at the same driver each with
different state: what happens to a sandbox, what is told about it, what several processes do to
the files they share, how the supervisor gets into the cache, and which values one create computes.
Each says at its head what is left to the others.

### Lifecycle

Each handler is cut where another goroutine can run: at `s.mu`, at a `container` command, at a
call of the store. What lies between two cuts is one action. What all of them together promise of a
sandbox is said by `SandboxContract`, in four variables and eleven actions: the VM is made once, by
the create, while there is a record; a VM with a record goes only while a delete is at work, or by
the user's hand (`Meddling`); the record goes only after the VM and only while a delete is at work;
a delete is answered only after the VM has gone, and no VM comes after it. What the code does not
keep is in the contract too: a save that a delete has overtaken brings the record back (`Recall`).
`Lifecycle` implements it (`ImplementsContract`) with this mapping: `phase` comes from the gateway's
row and, for a row that is live, from whether the provisioning task is still before the end of its
container run; `kept` are the sandboxes with a record on disk, `asked` those that a DeleteSandbox in
flight has as its target. A crash therefore forgets the deletes in progress, as the driver does.

* `row[i]` is what the gateway knows of sandbox `i`: nothing, a row, or that its delete was
  answered. `disk[i]` is its record, reduced to the stopped flag; `vm[i]` its VM. These three
  survive the driver.
* `registered` are the keys of `Server.sandboxes`; `cond[i]`, `marks[i]` and `prov[i]` are the
  fields of its entry: the condition by its reason, the flags `rec.Stopped`, `deleting`, `busy`
  and the canceled context, and where its provisioning task stands ("none" once `done` is closed).
* `call[c]` is an RPC in flight: its operation, its next step, the sandbox the gateway named and
  the entry the lookup found. The two differ when the lookup fell back to a name that another
  sandbox has too.
* `poll` and `boot` hold the locals of `pollOnce` and `Bootstrap`, among them the VM listing,
  which is taken in one step and used in a later one.
* `mode` is the process: down, reconciling, serving, draining after SIGTERM, closing.

`Faults` names what a run admits: commands that fail (with or without having worked, `runtime`),
a disk that refuses (`disk`), VMs that change without the driver (`outofband`), SIGTERM
(`restart`), a kill (`crash`), deletes sent while the create is in flight (`early`). A step of
provisioning may fail in any run, since an image may not exist.

Assumed of what is outside the code: an id (a random UUID) is created at most once; the gateway
stops, starts and deletes sandboxes it has a row of; a command that was killed has no effect after
it returned; a request that reached the lock after the socket was closed by force is left out.
The deadlines have no clock: "the time is up" is a step that may come at any moment. `Preflight`
and other reasons not to start are a process that stays down; launchd starts it again.
Left out: read-only RPCs, events, console tails and the text of conditions, requests that are
refused (they change nothing), and a create whose save fails (it changes nothing).

### Watch

A publisher changes an entry under `s.mu`, takes its snapshot under `s.mu` a second time
(`publishSandbox`), and hands it to the hub under `hub.mu`. These are three actions, and the
publishers are: per sandbox its create handler, its provisioning task, the one stop or start that
`busy` admits and a delete; and the poller, which works through the lists of sandboxes it found
changed or exited.

* `entry[i]` is the entry, kept after its removal because publishers keep their pointer to it. What
  a snapshot shows is reduced to a revision that counts its changes; `exited`, `deleting` and
  `canceled` are the parts of it that publishers test.
* `pub[p]` is where publisher `p` stands and the snapshot it holds; `poll` are the poller's lists.
* `subs` and `chan` are `hub.subs` with the channels, `stream[w]` the handler of a
  `WatchSandboxes` call: what it has still to replay and which sandboxes its replay had.
* `seen` and `lost` are history: the events a client has received, and the streams for which the
  hub dropped one that was not a platform event.

Each operation appears here by what it publishes; what it does to records and VMs is `Lifecycle`.
The model admits more stops and starts than the code, which also looks at the condition's reason.
Only one delete of a sandbox runs at a time. A stream that ends is not opened again: the gateway's
next call is another stream. The process does not end.

What a client may rely on is `StreamContract`, which knows neither publishers nor channels: per
sandbox a state, the sandboxes whose state (`owed`) or removal (`parting`) is still to be published,
and per stream what it was shown at the start, what is on its way (`due`), what it has (`seen`) and
whether it has missed an event (`lost`). A publication reaches each open stream or is missed by it.
`Watch` implements it (`ImplementsStreamContract`): `state` are the entries; `owed` comes from the
publishers that are before their snapshot, or hold one of the entry as it is; `parting` from the
deletes between removal and `publishDeleted`; `due` is what a handler has still to replay together
with its channel, as a set and without platform events. A change therefore shows as `Change`
whoever makes it, one poll's changes as one; a publication of something that is still owed by another
publisher, or that was overtaken, leaves the debt as it was. That several publishers hold the same
event, or a client gets it twice, does not show: an event that was sent may stay on its way.

The contract promises two things (`Promise`): of each sandbox the newest state, and of each that was
shown at the start the removal, reach a stream that has missed nothing (`Complete`); and no stream,
not even one that has, is told of a sandbox that never was, of a revision it has not had or of a
removal that has not happened (`Genuine`). It promises nothing about the order, because the code
takes a snapshot and publishes it in two steps.

### Handover

`pc[i]` is where `run()` of instance `i` stands: `Bootstrap` in three steps (records, listing,
sweep), `listenUnix` in seven (stat, dial, two unlinks, listen, chmod, claim), serving, the drain,
and `removeSocketIfOwned` in three (read the marker, unlink it, unlink the socket). `sock` is the
instance that bound the file now at the path, `live` the instances whose listener is open, `owner`
whose token the marker file holds. A file at the path of an instance that is not in `live` is
stale. The listener's `Close` unlinks whatever is at the path, as Go's `UnixListener` does.
A sandbox is its record and its VM (`disk`, `vm`) and the registries that know of it (`known`).
The sweep takes the listed VMs one by one; a removal that fails is only logged, and the instance
serves all the same. `spared[i]` remembers the VMs for which that has happened.

`Concurrent` says whether an instance may start while another one starts or serves. launchd does
not do that, an operator could; the theorems assume it away, and `MarkerIsNeverStale` does need
it: two starts that overlap may overwrite each other's marker. An instance that drains is no
obstacle to a start, and all the interference the properties are about comes from there.
`exclusive` and `clear` are history: instances that had the host to themselves since they
started, and instances whose claim nobody was about to disturb.

### RecordStore and StateStore

`RecordStore` has one variable for the records and, per caller, an operation that is pending,
succeeds or fails. A save takes effect between call and answer or not at all; a removal may have
taken effect although it failed; a listing takes the records one by one, each at a moment between
call and answer. A crash loses calls and no record.

`StateStore` has the files: `file[i]` is `state.json`, `dirs` the directories, `temp[c]` the
temporary file of the save of caller `c`, `clutter` the directories that hold anything else (the
seed, temporary files of a killed process). `os.RemoveAll` removes files in any order and then the
directory, which fails when a save has put a file there meanwhile. Each operation may fail at each
step. `up` in the run is a name that `ValidID` refuses. The refinement maps `file` to the records,
the locals of an operation to its call, and all its steps between call and answer to "pending".

### Extractor

A task is a create on its way from the image to a booted VM: `EnsureImage` fixes tag and digest,
`StatCache` looks at the cache without the mutex, `Lock`, `Recheck` under it, `RunContainer`,
`CopyFrom`, `Install` (validate, chmod, rename), `Close` (the deferred removal of the container
and unlock), `WriteSeed`. A file is reduced to the digest of the image it came from, or `Torn`.
The container is started from the tag and not from the digest, so what is copied may come from
another image than the key says (`MoveTag`); `Elf` are the images whose supervisor is a Linux
binary. A failed Ensure falls back to the pinned release once, unless the operator chose the image
(`Explicit`). Processes share `cache`, `image` and the containers `box`; each has its own `lock`.
One that starts lists containers and removes those without a record, which extraction containers
never have, including one that another process is using: one after the other, and a removal that
fails is passed over (`spared[p]`).

### Configuration and Provisioning

A path is its components and whether it is absolute, a quantity a fraction with a suffix, an
endpoint a scheme and a host. Settings of one kind are represented by one: `cpus` stands for the
numeric settings, `allowHostMounts` for the Boolean ones, and so on. Floating point is taken as
exact, and conversions saturate, as they do on arm64, the one platform that is built for.

`Provisioning` is sequential: one start, one create. `phase` is the next step. What makes it worth
checking is that the decisions are taken in different places from the same inputs: admission and
provisioning parse the request separately; the environment names files that Write has put into the
seed under the same conditions, repeated; the digest that is inspected, recorded and run could be
three. Between the steps tags move, commands fail and the address of a new network is late.
`fs` says where the paths of the host really lead. Mount sources are resolved when the request is
validated and mounted as they were written, and `Relink` may change a link in between: `resolved` is
history, what the paths led to at validation. `MountsArePermitted` is about that, which is as far as
the code's check goes. `Relink` is admitted right before the run, where it matters.

### HostSetup, Host, ManagedBlock, Compat

One command runs at a time, and `step` and `cmd` are where it stands and what it has found out;
launchd (`job`), the agent's process (`proc`), the driver's own Preflight and the network's
address do not wait for it. `Interrupt` ends a command between any two of its steps. The user acts
between commands: installs the gateway, removes the network, edits `gateway.env`. A reboot is one
step, between commands. `MaxActs` bounds commands, user's changes and reboots together.

`gateway.env` is the sequence of its lines; `mine` is history, the lines the user has put outside
the markers, and `lost` whether something has taken them all since. Three things do: a rewriting
that is cut short (`os.WriteFile` truncates the file first), a file that setup cannot read and takes
for empty, and `cleanup --all -d`. What cleanup fails to do without saying so, unload the agent or
read the file, is noted in `cmd.kept`. A certificate is the address it covers; a bundle is one of
the three directories the code knows ("brew", "xdg", the value of `--tls-dir`). A program is
"launch", the path a user runs (the symlink of a cask), or that of a build which a cask has staged.

`Status` are the lines of the report by a level and whether the line says "run setup", without
those on the supervisor image and the sandboxes. `StatusPrinted` is what the command asks for: it has
no `--network` and no `--tls-dir` and looks at the defaults, whatever setup was told.
The updater's release archive is what it contains; a checksum file lists the wanted archive or not.

## Runs

| run | instance | states | shows |
|---|---|---|---|
| `one_sandbox` | 1 sandbox, 2 calls, all faults but `early` | 63 242 | `LifecycleExclusive`, `NoVMWithoutRecord`, `AcceptedIsDurable`, `DeletedStaysDeleted`, `ImplementsContract`, and `PollerConverges` |
| `two_sandboxes` | 2 sandboxes of one name, one with its record lost, 2 calls, `outofband`, `restart` | 180 640 | `OrphansAreSwept`, `StoppedIsIntended` |
| `hanging_creates` | 2 sandboxes, 1 call, `restart`; two tasks may queue at the extractor's mutex, where canceling the second does not end it | 306 333 | `CallsReturn`, `ShutdownCompletes` |
| `watch` | 1 sandbox, 1 stream, `WatchBuffer` 2, `MaxRev` 3 | 142 287 | `NothingLost`, `DeletionReachesReplayed`, `ImplementsStreamContract`, `PublishersNeverWait`, `StreamsCatchUp` |
| `handover` | 3 instances, 1 sandbox, starts that do not overlap | 582 973 | `MarkerIsNeverStale`, `ReachableOnceClaimed`, `SoleInstanceIsExact`, `SoleStartServes` |
| `state_store` | 2 callers, 2 sandboxes and an invalid name, 2 contents | 338 285 | `ImplementsRecordStore`, `NoTempLeftBehind` |
| `extractor` | 3 creates of 2 processes, a matching image that moves and may be no binary, a pinned one | 1 811 572 | `OnlyWholeBinaries`, `ExtractedOnce`, `LeaksAreReclaimed` |
| `provisioning` | 19 starts, 85 requests, each differing from a plain one in what a property is about; 2 states of the host's links | 1 739 568 | `GuestFindsItsMaterial`, `IdentityIsTheDrivers`, `MountsArePermitted`, `AdmittedIsProvisionable`, `RunsWhatItRecords`, `SupervisorIsChosen`, `SizedAsAsked` |
| `host` | any 3 of setup, cleanup, update, reboot and user's changes; 2 builds, 2 addresses, a cask or not | 6 433 268 | `SetupRepairs`, `GuestsCanVerifyTheGateway`, `UserLinesSurvive`, `CleanupIsThorough`, `PlistNeverDangles`, `OnlyReleasesAreInstalled`, `UpdateReachesTheService`, `RuntimeIsStartedAgain`, `VerdictsFollowTheOrder` |
| `claim_*` | the smallest instance that shows it | | one sentence of the repository each, and the execution that breaks it |

Why the bounds are enough.

* `Lifecycle`: all interference on one sandbox is between a call, a second call, its task, the
  poller and a restart, so one sandbox with two calls has every pair at every step; a third call
  could only repeat one of them, since stops and starts exclude each other. A second sandbox
  matters where sandboxes meet: the listing and the `hasPollable` test the poller makes for all of
  them, the lookup by name, the extractor's mutex, the sweep. An id is used once, so every run is
  finite without counters. Calls are interchangeable and symmetric; sandboxes are not made
  symmetric where one of them has lost its record, and runs of liveness properties use no symmetry.
  Deadlock is checked: the driver always has something it can do.
* `Watch`: one sandbox has every publisher that can touch an entry, each at every step; no property
  relates two streams; two sandboxes meet only in the poller's lists, which the proofs cover.
  `WatchBuffer` stands for 128: full, with one place left, and empty are the cases there are.
  `MaxRev` stops new stops, deletes and polls of a sandbox that has changed so often; three leave
  room for a create, its outcome and two operations that overlap them or each other.
* `Handover`: an instance interferes with its successor only, and a third can meet two that still
  drain, or one that drains and what a killed one left. The sandbox is there for `known`, `disk`
  and `vm` to disagree.
* `StateStore`: the interference is between two operations on one sandbox; the second sandbox and
  the invalid name are for the listing. Two contents tell an old record from a new one.
* `Extractor`: two creates share a mutex, the third belongs to the process that sweeps. Two digests
  make a tag move, one of which is no binary.
* `Provisioning`: quantities use the bases 4 and 3 in place of 1024 and 1000 and a largest integer
  of 9, so that rounding and saturation both happen; the operators are the same for every base.
* `Host`: two commands and a change or a reboot between them. Addresses are interchangeable, and
  symmetric. Setup is bound to the default network, because for another one
  `claim_setup_wires_the_driver` applies. `VerdictsFollowTheOrder` is about constants and is looked
  at on a fresh host only.

Where a run does not check deadlock the model really may stop: the last stream is closed, every
instance has been started once, every create has ended, the acts are used up.

Each property of a passing run is shown to be able to fail by a mutant of the code, the
definitions marked `Defect:`; for `ImplementsStreamContract`, a delete whose teardown failed and that
announces the removal all the same. Type invariants are not among the properties of the runs: those of
`Lifecycle`, `Handover`, `StateStore`, `Extractor` and `Watch` are part of the inductive invariants
that are proved; those of `Provisioning` and `Host` say of their variables what the proofs need.

### Fairness

`FairSpec` of `Lifecycle` rests on the scheduler, the code's own timeouts and three facts about what
is outside. A handler goes on, because its commands run under `lifecycleTimeout` or `deleteTimeout`
and a killed command is given 5 s. A task goes on by itself where it only computes, and after its
context is canceled, when the command it waits for is killed. A pull may hang for ever: a task that
is not canceled owes no progress where it runs a command. A canceled one owes none either while it is
at its supervisor binary ("prepare"): the extractor removes its container under
`context.WithoutCancel` and without a timeout (`seed.go:134-140`), and whoever waits for its mutex
waits for that. The drain ends after 10 s. The three facts: the poller's listing succeeds if it is
tried again and again (strong fairness), launchd restarts the process, and file operations end. The
gateway, users and faults are under no fairness.

`ShutdownCompletes` has the premise that no removal of an extraction container hangs for ever
(`ExtractionsEnd`); without it, `Close` may never return (`LifecycleClaims!CloseReturns`).

`PollerConverges` has the premise that the driver serves with no call in flight and that VMs rest
from some time on; without it no poller could converge.

In `Watch` a publisher between two looks at an entry waits for mutexes only, and goes on, with one
exception: before it publishes what it has found, the poller fetches console tails by `container logs`,
which has no timeout (`reconcile.go:207-221`, `242-245`). No fairness is assumed of that step
(`PollTail`). That it answers (`LogsAnswer`) is a premise of what `PublishersNeverWait` says of the
poller and of `StreamsCatchUp`; of the other publishers `PublishersNeverWait` has no premise. That a
client reads is a premise of `StreamsCatchUp` only.

In `Handover` a process that was not killed goes on with its startup and its shutdown, whose steps
are file operations and commands under timeouts. Nobody has to start or stop an instance.

### What the claims show

Three runs end in a violation on purpose; `findings` in `PROJECT.json` quotes the sentences.

* `DeletedLeavesNoRecord`: a delete does not wait for a stop or start in flight, whose save brings
  the record back; the VM is not brought back (`DeletedStaysDeleted`).
* `ReplacementKeepsItsSocket`: `removeSocketIfOwned` reads the marker before it unlinks the socket,
  and a replacement binds before it claims. Once it has claimed undisturbed it keeps the path
  (`ReachableOnceClaimed`).
* `SetupWiresTheDriver`: `setup --network` makes the certificate for that network's address, and the
  agent it installs serves the default network, from whose address guests are given the endpoint.

`LifecycleClaims` states five more sentences that TLC refutes, in the instance of the first claim but
where another is named, and with no fault but where one is named; they have no run of their own:

* `StoppedNeverReadsExited`: the poller tests `pollable` when it *applies* a listing, not
  when it *takes* it. A stop, start or boot that ends in between is judged by what was true before
  it. The next poll repairs the condition (`PollerConverges`), but the gateway may have seen it.
* `IntentPersisted`: a listing taken before a stop makes the poller drop the mark the stop has set, and
  the poller saves its copy of a record outside the lock, after a save that may be newer.
* `NoDeleteIsHalfDone`: the teardown after an expired wait runs under the expired context.
* `RacingDeleteWins` (with the fault `early`): a delete that comes before the create has registered
  its sandbox.
* `CloseReturns` (in the instance of `hanging_creates`): a `container delete` of the extractor that
  hangs holds the extractor's mutex and the task, for which `Close` waits without a limit.

Four more are in the other modules of claims, likewise without a run:

* `HandoverClaims!SweepRemovesOrphansOnly`: Bootstrap reads the records before it lists the VMs, and
  sweeps away a sandbox that an older instance creates in between.
* `ProvisioningClaims!MountsStayPermitted`: a link that is changed between validation and run is
  followed out of the root that mounts are confined to.
* `HostClaims!StatusKnowsWhatSetupDid`: after `setup --tls-dir`, status looks at the default bundle and
  asks for setup again.
* `HostClaims!UnmanagedLinesStay`: a truncated or unreadable `gateway.env` loses the user's lines.

Of the streams, a publisher that holds a snapshot across a removal publishes it after the Deleted
event, and a stream may be sent an event that is older than what it replayed. Nothing is lost by
this (`NothingLost`, `StreamsCatchUp`), but the last event of a stream is not always the newest,
which the gateway's listing every 60 s makes up for.

`SetupRepairs` excludes what setup does not promise or cannot know: lines it has warned about, the
runtime after a reboot (nothing starts it), the network and the bundle where setup was told to use
others than those status looks at, and the driver's socket, which setup confirms by the
file alone, though a driver that crashed leaves one behind.

## Proofs

Every safety invariant and every refinement that a run checks is proved, for every value of the
constants: sandboxes, calls, streams, instances, callers, processes and images, settings and
requests, networks and builds, every naming, every subset of the faults and every bound. Two kinds
of assumptions are made: those of the third column, and the `ASSUME`s of the modules, which only
tell values of different kinds apart or give numbers their range.

| theorem | assumes besides | states |
|---|---|---|
| `LifecycleProofs!TypeCorrect` | — | `Spec => []TypeOK` |
| `LifecycleProofs!ExclusiveCorrect` | — | `Spec => []LifecycleExclusive` |
| `CustodyProofs!NoVMWithoutRecordCorrect` | no `early` delete | `Spec => []NoVMWithoutRecord` |
| `CustodyProofs!AcceptedIsDurableCorrect` | no `early` delete | `Spec => []AcceptedIsDurable` |
| `CustodyProofs!DeletedStaysDeletedCorrect` | no `early` delete, unique names | `Spec => []DeletedStaysDeleted` |
| `CustodyProofs!Refinement` | no `early` delete, unique names | `Spec => ImplementsContract` |
| `CustodyProofs!OrphansAreSweptCorrect` | — | `Spec => []OrphansAreSwept` |
| `CustodyProofs!StoppedIsIntendedCorrect` | — | `Spec => []StoppedIsIntended` |
| `WatchProofs!TypeCorrect` | — | `Spec => []TypeOK` |
| `WatchProofs!NothingLostCorrect` | — | `Spec => []NothingLost` |
| `WatchProofs!DeletionCorrect` | — | `Spec => []DeletionReachesReplayed` |
| `WatchProofs!Refinement` | — | `Spec => ImplementsStreamContract` |
| `WatchProofs!ContractSound` | — | `Contract!Spec => []Contract!Promise` |
| `WatchProofs!PromiseCorrect` | — | `Spec => []Contract!Promise` |
| `HandoverProofs!MarkerCorrect` | starts do not overlap | `Spec => []MarkerIsNeverStale` |
| `HandoverProofs!ReachableCorrect` | starts do not overlap | `Spec => []ReachableOnceClaimed` |
| `HandoverProofs!ExactCorrect` | starts do not overlap | `Spec => []SoleInstanceIsExact` |
| `StateStoreProofs!DirsCorrect` | — | `Spec => []NothingOutsideDirs`, which is part of the inductive invariant and which no run checks by itself |
| `StateStoreProofs!TempsCorrect` | — | `Spec => []NoTempLeftBehind` |
| `StateStoreProofs!Refinement` | — | `Spec => ImplementsRecordStore` |
| `ExtractorProofs!WholeCorrect` | — | `Spec => []OnlyWholeBinaries` |
| `ExtractorProofs!OnceCorrect` | — | `Spec => []ExtractedOnce` |
| `ExtractorProofs!LeaksCorrect` | — | `Spec => []LeaksAreReclaimed` |
| `ProvisioningProofs!GuestFindsItsMaterialCorrect` | — | `Spec => []GuestFindsItsMaterial` |
| `ProvisioningProofs!IdentityIsTheDriversCorrect` | — | `Spec => []IdentityIsTheDrivers` |
| `ProvisioningProofs!MountsArePermittedCorrect` | — | `Spec => []MountsArePermitted` |
| `ProvisioningProofs!AdmittedIsProvisionableCorrect` | — | `Spec => []AdmittedIsProvisionable` |
| `ProvisioningProofs!RunsWhatItRecordsCorrect` | — | `Spec => []RunsWhatItRecords` |
| `ProvisioningProofs!SupervisorIsChosenCorrect` | — | `Spec => []SupervisorIsChosen` |
| `ProvisioningProofs!SizedAsAskedCorrect` | — | `Spec => []SizedAsAsked` |
| `HostProofs!SetupRepairsCorrect` | — | `Spec => []SetupRepairs` |
| `HostProofs!GuestsCanVerifyTheGatewayCorrect` | setup is asked for the default network | `Spec => []GuestsCanVerifyTheGateway` |
| `HostProofs!UserLinesSurviveCorrect` | — | `Spec => []UserLinesSurvive` |
| `HostProofs!CleanupIsThoroughCorrect` | — | `Spec => []CleanupIsThorough` |
| `HostProofs!PlistNeverDanglesCorrect` | — | `Spec => []PlistNeverDangles` |
| `HostProofs!OnlyReleasesAreInstalledCorrect` | — | `Spec => []OnlyReleasesAreInstalled` |
| `HostProofs!UpdateReachesTheServiceCorrect` | — | `Spec => []UpdateReachesTheService` |
| `HostProofs!RuntimeIsStartedAgainCorrect` | — | `Spec => []RuntimeIsStartedAgain` |
| `HostProofs!VerdictsFollowTheOrderCorrect` | — | `Spec => []VerdictsFollowTheOrder` |

The assumptions of the modules: a stream's buffer holds at least one event (`WatchBufferAssumption`)
and the absence of an id is no id; numbers of settings and requests are integers once they are parsed,
denominators positive (`NumbersAssumption`), as Go's `int` and `resource.Quantity` are; an address, a
release and a bundle are not the marks for having none, a network's address is never "pending", and
`--tls-dir` names a bundle (`NoneAssumption`, `AddressesAssumption`, `OptionsAssumption`); there is a
release, and the latest one is a release (`BuildsAssumption`, `LatestAssumption`); a version is three
numbers, the last two below 1000 (`VersionsAssumption`), which only `Rank` needs, the order by which
the property judges `Less`. TLC evaluates all of them in the runs.

None of the properties is inductive by itself, but for `VerdictsFollowTheOrder`, which is about
operators only.

`Lifecycle`. `LifecycleExclusive` needs to know that a handler is at a step of its own operation
(`CallShape`), that nothing runs before Bootstrap has ended (`Dormant`), and that no handler holds an
id that was never created (`Uncreated`), for a create resets the marks of its entry. That
provisioning has ended before a teardown begins stays true only because an entry leaves the
registry after that (`TeardownAfterProvision`, `ProvisionRegistered`). Their conjunction `Registry`
is inductive. `Custody` adds what record and VM owe each other. The core is that a step which
removes a record is a delete's, whose VM is gone and whose sandbox nobody provisions
(`RecordGone`), and that a step which brings a VM into being is the boot of a task that has a record
(`VMStep`, `ProvisionHasRecord`). `CustodyProofs` therefore starts with one lemma per variable that
says which actions can change it. A delete that found no entry must keep finding none
(`UnknownStaysUnknown`): this is where an `early` delete would break it. `Finality` adds that the
answer of a delete is about the sandbox the gateway named, which needs unique names.
`Orphans` follows the VM of a lost record: nobody knows its sandbox (`LostIsUnknown`), so nothing
registers it, and while the VM is there the driver does not serve and has it in the listing that it
sweeps (`ListedForSweep`). `Intent` follows the mark behind ContainerStopped: a stop in progress keeps
it (`StopIsMarked`), and a condition that reads ContainerStopped is marked, but for the time between
a start's taking the mark away and its setting the condition (`ShownIsMarked`). The property relates
the condition to that mark. It does not say that the VM was not started by hand and died since the
last poll, of which the driver has no trace, and it holds where records can be saved.

The refinement of `SandboxContract` takes `Finality` and three facts more, together `Promise`: a
sandbox whose container run is still to come has no VM (`UnbootedHasNoVM`), so the removal of a
leftover before the run removes none, and the run makes the first; what Bootstrap has read of the
records stays true until its sweep has ended (`SweepsOrphansOnly`), so it sweeps no VM that has a
record; and `LostIsUnknown`. From these each step is mapped. Most of them do not show; a step of a
delete shows as a removal, as the loss of a record or as an answer, and its failure, with or without
effect, as the same steps with the delete ended. Saves of stops, starts and polls are one lemma
(`LateSave`): of a record that is there they do not show, else they are `Recall`, and there is no VM.
The assumptions are needed: with a shared name a delete may be about another sandbox than the one
whose VM it removes, and a delete that overtakes its create may be answered before the VM is made.
The run has no sandbox with a lost record; the theorem covers them.

`Watch`. The two properties are nearly inductive. What is missing is that a publisher about to
publish holds a snapshot (`PublisherShape`), that a create's publishing is over before its task's
begins (`OneAfterTheOther`), that the poller does not forget what it has found (`PollerFinishes`),
and that a stream which is served is subscribed (`SendersSubscribe`). `PublishEffect` says what a
publication does to every stream, and each action is shown to leave every stream with what it had
(`StreamsKept`) and every debt with someone who will pay it (`OwedKept`): a change of an entry is
owed by who made it, a snapshot is of the entry as it is.

The refinement of `StreamContract` needs a second invariant, `Told`, on top of that: whoever is at
work on a sandbox works on one that was created, and a delete removes one that is in the registry
(`WorkIsOnEntries`); a snapshot shows what the sandbox is or was (`SnapshotsWere`); and the
subscribers are the handlers that are sending (`SubscribersSend`), which makes those whom the hub
reaches the open streams of the contract. Each action then has a lemma (`...Maps`) that names the
step of the contract it is. Most of what publishers do is no step at all, since a debt is kept while
anyone will pay it; what is left are changes, which create a debt, and publications, which may settle
one. `ContractSound` is about the contract alone: `Promise` is inductive there, and its proof has one
lemma for each step. `PromiseCorrect` carries it over to `Watch` by the refinement.

`Handover`. When starts do not overlap there is at most one instance between its start and its
SIGTERM (`OneActive`), so only that one can write the marker. `ClearIsUndisturbed` carries
`ReachableOnceClaimed`: no listener but its own is open (`ListenersAreOpen`), and nobody can pass
the comparison of tokens any more, since the marker holds its own. `ExclusiveIsExact` follows the
records through Bootstrap: what is known after the read stays what is on disk, and after the sweep
the VMs are among them, but for those that the sweep has failed to remove.

`StateStore`. The refinement needs that each step belongs to an operation of its kind and that a
save has checked its id (`StepShape`, `SaveShape`), that the file to be renamed is complete, and
that a listing which has not taken the names has read nothing (`ListShape`). A directory without
a valid name never has a record (`RecordsAreValid`), so that the records a listing leaves out are
those there are none of: `ScanNames` maps to a read of all the absent ones at that moment.

`Extractor`. A create at its seed must have found its binary (`Found`), which stays true because
the cache only ever gains entries; that one who extracts has not cached the key before needs
`Filled` (what is not cached was never put there) at the second look, and the mutex afterwards.
`LeaksAreReclaimed` needs that while a process which is alone sweeps, every container is still in
its listing or was spared (`Alone`). One lemma per action shows all conjuncts.

`Provisioning`. The properties speak of a VM, whose parts were settled some steps before. The
invariant says at each step what those before it have left: the configuration is a resolution of the
settings (`Configured`), the request was admitted, on the host as its paths were resolved then
(`Admitted`), the supervisor is one the configuration allows (`Chosen`), the files are written
(`Seeded`), and the VM is the composition of all of these (`Booted`). That the later steps do not
write what the earlier ones left is one lemma per variable (`Frames`). The rest is about the
operators: what the container command reads back from the arguments of a run (`ArgumentsGiven`,
`PairsMakeMap`), which of the layers of the environment a variable comes from (`EnvironmentIs`),
where a mount comes from (`VolumesAre`), and how far rounding goes (`CeilDivCovers`). Functions are
put over each other by an operator of the module's own, `++`, because the provers do not know `@@`.

`Host`. `Progress` is the heart of it: a command gets to a stage by one step, from the stage before,
and keeps what it was asked for and has found out. With it the invariant says what every stage
leaves of the host: `Installed` (what is fetched and verified), `RuntimeKept`, `Addressed` (the
network has the address that the certificate covers, whatever the driver and the runtime do to
networks meanwhile), `Wiring` (file and gateway), `Serving` (after bootstrap every process is of
this job and this binary, because before it there was no process) and `Removed` (what cleanup has
taken away). Each has one lemma, whose proof goes through the few actions that touch its variables
(`Frames`). `UserLinesSurvive` is a conjunct of `Wiring`: a rewriting of what was read keeps the
user's lines, any other loses all of them and says so in `lost` (`Rewritten`). It needs in addition
what `RemoveManagedBlock` does to a file of any length. It works in as many turns as it takes, so
its proof is an induction, which is stated through the least number of turns that would break it
(`Least`, from the well-foundedness of the naturals). What each turn preserves is `Loose`, the lines
outside of all blocks, where a block without an end reaches to the end of the file; how it behaves
when files are put together is `LooseConcat`. No managed line is ever loose (`Wrapped`), which the
edits of the user preserve too, and therefore a file without a marker selects no driver
(`NothingWired`).

Only model-checked: the liveness properties (`PollerConverges`, `CallsReturn`, `ShutdownCompletes`,
`PublishersNeverWait`, `StreamsCatchUp`, `SoleStartServes`), which are out of the prover's reach, as is
ENABLED; and the claims, whose point is a counterexample.

## Not modelled

* Generated code: dispatch and data classes without state.
* The runtime adapter's parsing of JSON output, its log streaming and the kill of a command's process:
  its operations appear by what they do and how they fail. `fake.go` is the tests' runtime.
* In host setup: the repair of the gateway's CLI registrations, the pre-pull of images, the removal
  of the state directory and of images, status's lines on the supervisor image and on sandboxes,
  everything that is printed. The plist and the certificates are written in one step, which may fail;
  the removal of OpenShell's data does not fail.
* On the command line: flag parsing beyond `Parse`, `logs`, the archive formats of a release, and an
  interruption of `sudo install`, which `update` uses where the binary's directory is root's: it
  writes in place, and `ReplaceBinary` is one step.
* Of a create: references that name a digest already (`refWithDigest`, `create.go:356-365`). Names of
  environment variables are in the model, but `AdmittedIsProvisionable` does not count them: they
  are looked at by provisioning alone (`env.go:108-114`).
* Read-only RPCs (Get, List, Validate, GetCapabilities): they copy the registry under its lock.
* Clocks. Durations appear only as the possibility that time is up.

## Plan

Done: `Lifecycle`, `Watch` and `StateStore` with the abstract specifications they implement,
`Handover`, `Extractor`, `Provisioning`, `Host`, and the proofs of all their safety invariants and of
the three refinements.

Open: the contract of a sandbox without unique names, with deletes counted by the sandbox they reach;
a contract for the gateway that listens to a stream and lists every 60 s, which would need a clock.

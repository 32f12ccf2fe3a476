----------------------------- MODULE Provisioning -----------------------------
(* One driver from its flags to a VM: run resolves the configuration and     *)
(* Preflight completes it with what the runtime says of the network;         *)
(* CreateSandbox validates a request and provisionInner turns it into a      *)
(* `container run`. Commands fail, tags move and a new network's address is  *)
(* late in between. How several creates, deletes and restarts interfere is   *)
(* the subject of Lifecycle, how the supervisor is extracted that of         *)
(* Extractor.                                                                *)
EXTENDS Configuration

CONSTANTS
    Settings,           \* the flags and variables a driver may be started with
    Defaults,           \* the defaults of those that have no fixed one
    Requests,           \* the sandboxes it may be asked to create
    Releases,           \* versions of the gateway and with it of the supervisor
    Digests, NoDigest,  \* what a tag may stand for; an image whose digest is not known
    FileSystems         \* what the host's paths may be: the real path of every one that exists

\* Numbers are numbers: the flags of package flag, and resource quantities once they are parsed.
ASSUME NumbersAssumption ==
    /\ Error \notin Int
    /\ {Defaults.cpus, Defaults.memory} \subseteq Int
    /\ \A s \in Settings : {s.cpus.flag, s.cpus.env} \ {NotSet, Malformed} \subseteq Int
    /\ \A r \in Requests :
        /\ \A q \in {r.cpuRequest, r.cpuLimit, r.memoryRequest, r.memoryLimit} \ {Unset, Malformed} :
            q.num \in Int /\ q.den \in Nat \ {0}
        /\ \A q \in {r.memoryRequest, r.memoryLimit} \ {Unset, Malformed} : q.suffix \in MemorySuffixes

\* Why a sandbox may be ProvisioningFailed
Reasons == {"request", "runtime", "disk", "supervisor", "files", "environment"}
ASSUME ReasonsAssumption == Unset \notin Reasons

VARIABLES
    phase,      \* the next step of the driver, or how it ended
    settings,   \* the flags and variables the driver was started with
    cfg,        \* config.Config
    fs,         \* the host's paths at the moment
    resolved,   \* history: those of the moment at which the request was validated
    gateway,    \* the installed gateway's version, Unset if it cannot be read
    runtime,    \* the runtime: is it up, and the networks with their gateway address
    address,    \* the network's address as Preflight has found it
    req,        \* the sandbox of the request
    image,      \* the digest the request's image has on the host, Unset if it is not there
    observed,   \* the digest in the listing of provisionInner
    pinned,     \* ImageDigest of the saved record
    supervisor, \* the release whose supervisor was extracted
    seed,       \* seed[f]: "new", "old" from an earlier create, or Unset
    vm,         \* what the runtime was asked to run, Unset while nothing was
    why         \* why the sandbox is ProvisioningFailed

vars == <<phase, settings, cfg, gateway, runtime, address, fs, resolved,
          req, image, observed, pinned, supervisor, seed, vm, why>>
start == <<settings, cfg, gateway, runtime, address>>
paths == <<fs, resolved>>
create == <<req, image, observed, pinned, supervisor, seed, vm, why>>

SeedFiles ==
    <<"openshell-sandbox", "boot.sh", "tls/ca.crt", "tls/tls.crt", "tls/tls.key", "auth/sandbox.jwt", "policy.yaml">>

Init ==
    /\ phase = "off" /\ settings = Unset /\ cfg = Unset
    /\ gateway \in Releases \cup {Unset}
    /\ runtime \in [up : BOOLEAN, networks : {<<>>}]
    /\ address = Unset
    /\ fs \in FileSystems /\ resolved = Unset
    /\ req = Unset
    /\ image \in Digests \cup {Unset}
    /\ observed = Unset /\ pinned = Unset /\ supervisor = Unset
    /\ seed = [f \in ToSet(SeedFiles) |-> Unset]
    /\ vm = Unset /\ why = Unset

Goto(p) == phase' = p

-----------------------------------------------------------------------------
(* The start: configuration and Preflight.                                   *)

Configure ==
    /\ phase = "off"
    /\ settings' \in Settings
    /\ LET parsed == Parse(settings', Defaults)
       IN IF parsed = Error
          THEN Goto("refused") /\ UNCHANGED cfg
          ELSE Goto("list networks") /\ cfg' = ResolveSupervisorImage(parsed, gateway)
    /\ UNCHANGED <<gateway, runtime, address, paths, create>>

\* A listing of the networks: with ours in it, without it, or none at all.
FindNetwork(absent, failed) ==
    \/ /\ runtime.up
       /\ IF cfg.network \in DOMAIN runtime.networks
          THEN Goto("endpoint") /\ address' = runtime.networks[cfg.network]
          ELSE Goto(absent) /\ UNCHANGED address
    \/ Goto(failed) /\ UNCHANGED address

ListNetworks ==
    /\ phase = "list networks"
    /\ FindNetwork("create network", "start runtime")
    /\ UNCHANGED <<settings, cfg, gateway, runtime, paths, create>>

StartRuntime ==
    /\ phase = "start runtime"
    /\ \/ runtime' = [runtime EXCEPT !.up = TRUE] /\ Goto("list again")
       \/ UNCHANGED runtime /\ Goto("endpoint")
    /\ UNCHANGED <<settings, cfg, gateway, address, paths, create>>

ListAgain ==
    /\ phase = "list again"
    /\ FindNetwork("create network", "endpoint")
    /\ UNCHANGED <<settings, cfg, gateway, runtime, paths, create>>

\* A network that was just created may not have its address yet.
CreateNetwork ==
    /\ phase = "create network"
    /\ \/ \E a \in {Unset, Defaults.address} :
            /\ runtime' = [runtime EXCEPT !.networks = [n \in {cfg.network} |-> a] ++ @]
            /\ Goto("list created")
       \/ UNCHANGED runtime /\ Goto("endpoint")
    /\ UNCHANGED <<settings, cfg, gateway, address, paths, create>>

ListCreated ==
    /\ phase = "list created"
    /\ FindNetwork("endpoint", "endpoint")
    /\ UNCHANGED <<settings, cfg, gateway, runtime, paths, create>>

\* The endpoint is the operator's, or else derived from the address; then Bootstrap and Serve.
CompleteEndpoint ==
    /\ phase = "endpoint"
    /\ LET e == IF cfg.endpoint = Unset /\ address # Unset
                THEN [scheme |-> "https", host |-> address]
                ELSE cfg.endpoint
       IN /\ cfg' = [cfg EXCEPT !.endpoint = e]
          /\ Goto(IF e = Unset THEN "serving" ELSE IF UsableEndpoint(e) THEN "serving" ELSE "refused")
    /\ UNCHANGED <<settings, gateway, runtime, address, paths, create>>

-----------------------------------------------------------------------------
(* The request, up to the answer of the gateway.                             *)

\* Defect: only the limits are looked at.
ValidSandboxLimits(real, r) ==
    /\ ~r.gpu /\ r.id # Malformed
    /\ r.driverConfig # Malformed /\ WellFormed(r.driverConfig) /\ Permitted(real, cfg, r.driverConfig)
    /\ r.image # Malformed
    /\ r.command = <<>> \/ Head(r.command) # Unset
    /\ ParseCPUQuantity(r.cpuLimit) # Error
    /\ ParseMemoryQuantityMB(r.memoryLimit) # Error

\* validateSandbox, on a host of these real paths. A driver config with an unknown key and an image with a leading dash are Malformed.
ValidSandbox(real, r) ==
    /\ ~r.gpu /\ r.id # Malformed
    /\ r.driverConfig # Malformed /\ WellFormed(r.driverConfig) /\ Permitted(real, cfg, r.driverConfig)
    /\ r.image # Malformed
    /\ r.command = <<>> \/ Head(r.command) # Unset
    /\ \A q \in {r.cpuRequest, r.cpuLimit} : ParseCPUQuantity(q) # Error
    /\ \A q \in {r.memoryRequest, r.memoryLimit} : ParseMemoryQuantityMB(q) # Error

\* A sandbox directory without a readable record is not adopted, and its seed is still there.
CreateSandbox ==
    /\ phase = "serving"
    /\ \E r \in Requests :
        /\ req' = r /\ resolved' = fs
        /\ Goto(IF ~ValidSandbox(fs, r) THEN "invalid" ELSE IF cfg.endpoint = Unset THEN "precondition" ELSE "inspect")
    /\ \E content \in {"old", Unset} : seed' = [f \in DOMAIN seed |-> content]
    /\ UNCHANGED <<start, fs, image, observed, pinned, supervisor, vm, why>>

-----------------------------------------------------------------------------
(* provisionInner, in its order.                                             *)

ImageRef == IF req.image = Unset THEN cfg.defaultImage ELSE req.image

Fail(reason) == phase' = "failed" /\ why' = reason
Proceed(p) == phase' = p /\ UNCHANGED why

InspectImage(p, absent) ==
    /\ phase = p
    /\ \/ image # Unset /\ observed' = image /\ Proceed("pin")
       \/ image = Unset /\ UNCHANGED observed /\ absent
       \/ UNCHANGED observed /\ Fail("runtime")
    /\ UNCHANGED <<start, paths, req, image, pinned, supervisor, seed, vm>>

\* The driver config is decoded a second time.
FindImage ==
    IF phase = "inspect" /\ ~(req.driverConfig # Malformed /\ WellFormed(req.driverConfig))
    THEN Fail("request") /\ UNCHANGED <<start, paths, req, image, observed, pinned, supervisor, seed, vm>>
    ELSE InspectImage("inspect", Proceed("pull"))

PullImage ==
    /\ phase = "pull"
    /\ \/ image' \in Digests /\ Proceed("inspect again")
       \/ UNCHANGED image /\ Fail("runtime")
    /\ UNCHANGED <<start, paths, req, observed, pinned, supervisor, seed, vm>>

FindPulledImage == InspectImage("inspect again", Fail("runtime"))

PinDigest ==
    /\ phase = "pin"
    /\ \/ pinned' = (IF observed = NoDigest THEN Unset ELSE observed) /\ Proceed("supervisor")
       \/ observed # NoDigest /\ UNCHANGED pinned /\ Fail("disk")
    /\ UNCHANGED <<start, paths, req, image, observed, supervisor, seed, vm>>

\* Any image may turn out unusable; the pinned release stands in unless the operator chose one.
EnsureSupervisor ==
    /\ phase = "supervisor"
    /\ \/ /\ supervisor' \in ({cfg.supervisorImage} \cup (IF cfg.explicit THEN {} ELSE {Defaults.pinned})) \ {Unset}
          /\ Proceed("seed")
       \/ UNCHANGED supervisor /\ Fail("supervisor")
    /\ UNCHANGED <<start, paths, req, image, observed, pinned, seed, vm>>

\* The files Write writes
ToWrite ==
    {f \in ToSet(SeedFiles) :
        /\ f = "auth/sandbox.jwt" => req.token # Unset
        /\ f = "policy.yaml" => cfg.policyFile # Unset}

Written(files) == [f \in DOMAIN seed |-> IF f \in files THEN "new" ELSE seed[f]]

\* Defect: the token is taken to be in the seed already.
WriteSeedWithoutToken ==
    /\ phase = "seed"
    /\ seed' = Written(ToWrite \ {"auth/sandbox.jwt"})
    /\ Proceed("run spec")
    /\ UNCHANGED <<start, paths, req, image, observed, pinned, supervisor, vm>>

\* The files are written in their order, and the copy of each may fail. The policy file is looked
\* for before the first.
WriteSeed ==
    /\ phase = "seed"
    /\ \/ seed' = Written(ToWrite) /\ Proceed("run spec")
       \/ /\ \E k \in DOMAIN SeedFiles :
                SeedFiles[k] \in ToWrite /\ seed' = Written(ToWrite \cap ToSet(SubSeq(SeedFiles, 1, k - 1)))
          /\ Fail("files")
    /\ UNCHANGED <<start, paths, req, image, observed, pinned, supervisor, vm>>

-----------------------------------------------------------------------------
(* The run.                                                                  *)

DriverLabels == {"managed-by", "sandbox-id", "sandbox-name", "sandbox-namespace", "sandbox-workspace"}

\* The driver's labels come last, over the template's.
Labels == [l \in DriverLabels |-> "driver"] ++ req.labels

\* The host's path of the sandbox's seed
SeedDir == Absolute(<<"state", "sandboxes", "s", "seed">>)

\* The driver's own mount of the seed, then the volumes of the request, read-only unless it says not.
Volumes ==
    {[source |-> SeedDir, target |-> GuestSeedDir, readOnly |-> TRUE]} \cup
    {[source |-> m.source, target |-> m.target, readOnly |-> m.readOnly # FALSE] :
        m \in {x \in ToSet(req.driverConfig.mounts) : x.type = "volume"}}

Tmpfs == {m.target : m \in {x \in ToSet(req.driverConfig.mounts) : x.type = "tmpfs"}}

\* The sizing of provisionInner: a limit before a request, and the driver's default for neither.
Sized(limit, request, default) ==
    LET n == FirstQuantity(limit, request) IN IF n = 0 THEN default ELSE n

CPUs == Sized(ParseCPUQuantity(req.cpuLimit), ParseCPUQuantity(req.cpuRequest), cfg.cpus)
Memory == Sized(ParseMemoryQuantityMB(req.memoryLimit), ParseMemoryQuantityMB(req.memoryRequest), cfg.memory)

Override(own, general) == IF own # Unset THEN own ELSE general

\* Defect: the digest is recorded, and the VM is run from the tag.
RunSpecByTag ==
    [image |-> [ref |-> ImageRef, digest |-> Unset],
     network |-> Override(req.driverConfig.network, cfg.network),
     volumes |-> Volumes, tmpfs |-> Tmpfs,
     env |-> [OPENSHELL_OCI_IMAGE_USER |-> [from |-> "image", value |-> Unset]] ++
             SandboxEnv(cfg, req, req.token # Unset),
     labels |-> Labels, cpus |-> CPUs, memory |-> Memory,
     kernel |-> Override(req.driverConfig.kernel, cfg.kernel), entrypoint |-> "boot.sh"]

\* The RunSpec of provisionInner. refWithDigest puts a digest in the place of the tag.
RunSpec ==
    [image |-> [ref |-> ImageRef, digest |-> pinned],
     network |-> Override(req.driverConfig.network, cfg.network),
     volumes |-> Volumes, tmpfs |-> Tmpfs,
     env |-> [OPENSHELL_OCI_IMAGE_USER |-> [from |-> "image", value |-> Unset]] ++
             SandboxEnv(cfg, req, req.token # Unset),
     labels |-> Labels, cpus |-> CPUs, memory |-> Memory,
     kernel |-> Override(req.driverConfig.kernel, cfg.kernel), entrypoint |-> "boot.sh"]

Option(flag, given, value) == IF given THEN {<<flag, value>>} ELSE {}

\* RunArgs: the options, whose order carries no meaning, and the image as positional argument
RunArgs(s) ==
    {<<"image", s.image>>, <<"--entrypoint", s.entrypoint>>} \cup
    Option("--network", s.network # Unset, s.network) \cup
    {<<"--volume", v>> : v \in s.volumes} \cup
    {<<"--tmpfs", t>> : t \in s.tmpfs} \cup
    {<<"--env", <<n, s.env[n]>>>> : n \in DOMAIN s.env} \cup
    {<<"--label", <<l, s.labels[l]>>>> : l \in DOMAIN s.labels} \cup
    Option("--cpus", s.cpus > 0, s.cpus) \cup Option("--memory", s.memory > 0, s.memory) \cup
    Option("--kernel", s.kernel # Unset, s.kernel)

\* What the container command makes of its arguments.
Given(args, flag) == {a[2] : a \in {x \in args : x[1] = flag}}
GivenOnce(args, flag) == IF Given(args, flag) = {} THEN Unset ELSE CHOOSE v \in Given(args, flag) : TRUE
GivenMap(args, flag) ==
    [n \in {e[1] : e \in Given(args, flag)} |-> (CHOOSE e \in Given(args, flag) : e[1] = n)[2]]

Boots(args, digest) ==
    [digest |-> digest, supervisor |-> supervisor,
     network |-> GivenOnce(args, "--network"),
     volumes |-> Given(args, "--volume"), tmpfs |-> Given(args, "--tmpfs"),
     env |-> GivenMap(args, "--env"), labels |-> GivenMap(args, "--label"),
     cpus |-> GivenOnce(args, "--cpus"), memory |-> GivenOnce(args, "--memory"),
     kernel |-> GivenOnce(args, "--kernel"), entrypoint |-> GivenOnce(args, "--entrypoint")]

\* The environment, the sizes and a stat of the kernel, which are looked at in this order; then
\* a leftover VM of the sandbox's name is removed.
PrepareRun ==
    /\ phase = "run spec"
    /\ IF ~ValidUserEnv(req) THEN Fail("environment")
       ELSE IF Error \in {CPUs, Memory} THEN Fail("request")
       ELSE \/ Proceed("run")
            \/ RunSpec.kernel # Unset /\ Fail("files")
            \/ Fail("runtime")
    /\ UNCHANGED <<start, paths, req, image, observed, pinned, supervisor, seed, vm>>

\* A digest names one content, a tag what it stands for by now; the run fails if that is gone.
Run ==
    /\ phase = "run"
    /\ \/ \E d \in IF RunSpec.image.digest # Unset THEN {RunSpec.image.digest} ELSE {image} \ {Unset} :
            vm' = Boots(RunArgs(RunSpec), d) /\ Proceed("booted")
       \/ UNCHANGED vm /\ Fail("runtime")
    /\ UNCHANGED <<start, paths, req, image, observed, pinned, supervisor, seed>>

-----------------------------------------------------------------------------
(* What happens on the host meanwhile.                                       *)

\* Somebody pulls the image again, or removes it, before the steps that may depend on it.
MoveTag ==
    /\ phase \in {"inspect again", "pin", "run"}
    /\ image' \in Digests \cup {Unset}
    /\ UNCHANGED <<phase, start, paths, req, observed, pinned, supervisor, seed, vm, why>>

AssignAddress ==
    /\ phase \in {"list created", "endpoint"}
    /\ cfg.network \in DOMAIN runtime.networks /\ runtime.networks[cfg.network] = Unset
    /\ runtime' = [runtime EXCEPT !.networks[cfg.network] = Defaults.address]
    /\ UNCHANGED <<phase, settings, cfg, gateway, address, paths, create>>

\* A directory or a link on the host is replaced by another, before a VM is run: the mounts are
\* of the paths as they are then, which nobody resolves again.
Relink ==
    /\ phase = "run"
    /\ fs' \in FileSystems
    /\ UNCHANGED <<phase, start, resolved, create>>

-----------------------------------------------------------------------------

Preflight ==
    \/ ListNetworks \/ StartRuntime \/ ListAgain \/ CreateNetwork \/ ListCreated \/ CompleteEndpoint

ProvisionInner ==
    \/ FindImage \/ PullImage \/ FindPulledImage \/ PinDigest \/ EnsureSupervisor
    \/ WriteSeed \/ PrepareRun \/ Run

Next ==
    \/ Configure \/ Preflight \/ CreateSandbox \/ ProvisionInner
    \/ MoveTag \/ AssignAddress \/ Relink

Spec == Init /\ [][Next]_vars

-----------------------------------------------------------------------------

\* Whatever file the environment of a guest names is in the seed, and of this create; so is what
\* the guest starts from, and nothing is mounted over the seed or writes to it. What is mounted,
\* what is copied and what is named are decided in three places.
GuestFindsItsMaterial ==
    vm # Unset =>
        /\ \A n \in DOMAIN vm.env \cap DOMAIN GuestFiles : seed[vm.env[n].value] = "new"
        /\ {seed[vm.entrypoint], seed["openshell-sandbox"]} = {"new"}
        /\ cfg.endpoint.scheme = "https" => DOMAIN TLSFiles \subseteq DOMAIN vm.env
        /\ \A v \in vm.volumes : PathWithin(GuestSeedDir, v.target) => v.source = SeedDir /\ v.readOnly
        /\ \E v \in vm.volumes : v.target = GuestSeedDir
        /\ \A t \in vm.tmpfs : ~PathWithin(GuestSeedDir, t)

\* No variable that the driver owns and no label of its own is the user's, who gets every other
\* variable, the spec's before the template's.
IdentityIsTheDrivers ==
    vm # Unset =>
        /\ \A n \in DriverOwnedEnv \cap DOMAIN vm.env : vm.env[n].from # "user"
        /\ \A l \in DriverLabels : vm.labels[l] = "driver"
        /\ \A n \in DOMAIN req.specEnv \ DriverOwnedEnv : vm.env[n].value = req.specEnv[n]
        /\ \A n \in DOMAIN req.templateEnv \ (DriverOwnedEnv \cup DOMAIN req.specEnv) :
                vm.env[n].value = req.templateEnv[n]

\* A VM is on a network of the operator's and mounts what the operator admits: host directories
\* only where mounts are allowed, and such as were really under the root when the request was
\* validated (what they are when the VM is run is looked at by nobody); and never over what the
\* driver or the supervisor keep in the guest. Read-only is what a volume is unless the request
\* says not.
MountsArePermitted ==
    vm # Unset =>
        /\ vm.network \in {cfg.network} \cup ToSet(cfg.allowedNetworks)
        /\ \A v \in vm.volumes : v.source # SeedDir =>
                /\ cfg.allowHostMounts
                /\ cfg.hostMountRoot # Unset => SourceWithinRoot(resolved, cfg.hostMountRoot, v.source)
                /\ ~v.readOnly => \E m \in ToSet(req.driverConfig.mounts) : m.target = v.target /\ m.readOnly = FALSE
        /\ \A t \in {v.target : v \in {x \in vm.volumes : x.source # SeedDir}} \cup vm.tmpfs :
                \A r \in ReservedMountTargets : ~PathWithin(r, t)

\* A request that was admitted does not fail for what admission has checked: validateSandbox sees
\* all that provisionInner decodes and parses again.
AdmittedIsProvisionable == why # "request"

\* The content of a VM's image is the one its record names, however tags move between the
\* inspection, the save and the run.
RunsWhatItRecords == vm # Unset /\ pinned # Unset => vm.digest = pinned

\* A supervisor that the operator names, by flag or by variable, is the one that runs; without
\* that it is the release of the gateway that was installed at the start, or the pinned one.
SupervisorIsChosen ==
    vm # Unset =>
        LET s == settings.supervisorImage
        IN IF s.flag # NotSet THEN vm.supervisor = s.flag
           ELSE IF s.env # NotSet THEN vm.supervisor = s.env
           ELSE vm.supervisor \in {gateway, Defaults.pinned} \ {Unset}

\* A quantity covers what was asked, by less than one CPU or one MiB, or is the largest there is.
Covers(n, num, den) == n = MaxInt \/ (n * den >= num /\ (n - 1) * den < num)

\* The size of a VM is the limit, else the request, else the driver's default.
SizedAsAsked ==
    vm # Unset =>
        /\ \A q \in {req.cpuLimit} \ {Unset} : q.num > 0 =>
                Covers(vm.cpus, q.num, q.den * (IF q.suffix = "m" THEN Kilo ELSE 1))
        /\ \A q \in {req.memoryLimit} \ {Unset} : q.num > 0 => Covers(vm.memory, q.num * Factor(q.suffix), q.den * Mi)
        /\ req.memoryLimit = Unset =>
                \A q \in {req.memoryRequest} \ {Unset} : q.num > 0 =>
                    Covers(vm.memory, q.num * Factor(q.suffix), q.den * Mi)
        /\ {req.cpuLimit, req.cpuRequest} = {Unset} => vm.cpus = (IF cfg.cpus > 0 THEN cfg.cpus ELSE Unset)
=============================================================================

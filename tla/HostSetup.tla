------------------------------ MODULE HostSetup ------------------------------
(* The commands that put the driver on a host, and what they put there:      *)
(* setup and cleanup (internal/hostsetup) with their subject, the container  *)
(* runtime, the gateway's service and certificates, the user's gateway.env,  *)
(* and the launchd agent whose process is the driver. One command runs at a  *)
(* time; it may be killed, or fail, between any two of its steps. launchd,   *)
(* the driver and a reboot do not wait for it; the user's own changes do.    *)
EXTENDS ManagedBlock, FiniteSets

CONSTANTS
    None, Pending,      \* nothing; the address of a network that has none yet
    DriverNetwork,      \* the default network, the one the agent's driver uses
    OptNetworks,        \* the networks that setup is asked for
    OptTLSDirs,         \* the values of --tls-dir, None for its absence
    Addresses,          \* the host's addresses on the networks
    Builds,             \* releases of the driver
    Casks,              \* is the driver a Homebrew cask?
    MaxActs             \* bound: commands, changes of the user and reboots

VARIABLES
    runtime,    \* apple/container: "absent", "stopped" or "running"
    kernel,     \* is there a default guest kernel?
    networks,   \* the vmnet networks with the host's address on each
    certs,      \* certs[d]: the address the certificate of bundle d covers; "bare", "absent"
    openshell,  \* the gateway: installed? up? the bundle the service was started with
    envFile,    \* gateway.env, <<>> if there is none
    binary,     \* the installed driver: its build, is it executable, is it a cask
    plist,      \* the agent's plist: the program and the bundle it names
    job,        \* what launchd has loaded of it: "absent", "loaded", "leaving"
    proc,       \* the driver's process
    socket,     \* does the driver's socket exist?
    step, cmd,  \* the next step of the command and what it has found out
    mine,       \* history: the lines the user has put in gateway.env
    lost,       \* history: have they been lost since?
    acts

platform == <<runtime, kernel, networks, certs>>
gatewayVars == <<openshell, envFile, mine, lost>>
service == <<plist, job, proc, socket>>
command == <<step, cmd>>
vars == <<platform, gatewayVars, binary, service, command, acts>>

Bundles == {"brew", "xdg", "own"}

ASSUME NoneAssumption ==
    None \notin Addresses \cup Builds \cup Bundles \cup [bin : {"launch"}, tls : Bundles]
ASSUME AddressesAssumption == {Pending, "absent", "bare"} \cap Addresses = {} /\ Pending # None
ASSUME OptionsAssumption == OptTLSDirs \subseteq Bundles \cup {None}
ASSUME BuildsAssumption == Builds # {}

NoCommand ==
    [op |-> "none", network |-> None, tlsDir |-> None, deleteData |-> FALSE, all |-> FALSE, setup |-> FALSE,
     want |-> None, archive |-> None, ip |-> None, tls |-> None, tries |-> 0,
     warned |-> FALSE, ok |-> FALSE, wasUp |-> FALSE, rebooted |-> FALSE, kept |-> {}]

\* The lines outside every block, which are the user's: a block without an end never ends.
Inside(lines, k) == \E b \in 1 .. k - 1 : lines[b] = Begin /\ \A j \in b + 1 .. k - 1 : lines[j] # End
Outside(lines) == {lines[k][2] : k \in {k \in DOMAIN lines : lines[k][1] = "user" /\ ~Inside(lines, k)}}

\* The bundle that the gateway's service reads from the file: the wrapper sources all of it.
WiredTo(lines) ==
    LET at == {k \in DOMAIN lines : lines[k][1] = "managed"}
    IN IF at = {} THEN None ELSE lines[CHOOSE k \in at : \A j \in at : j <= k][2]

NoProcess == [phase |-> "none", build |-> None, tls |-> None, endpoint |-> None]
NoJob == [state |-> "absent", bin |-> None, tls |-> None]

Init ==
    /\ runtime = "stopped" /\ kernel = FALSE /\ networks = <<>>
    /\ openshell \in [installed : BOOLEAN, up : {FALSE}, wired : {None}]
    /\ certs = [d \in Bundles |-> IF d = "brew" /\ openshell.installed THEN "bare" ELSE "absent"]
    /\ envFile = <<User("a")>> /\ mine = Outside(envFile) /\ lost = FALSE
    /\ binary \in [build : {CHOOSE b \in Builds : TRUE}, exec : {TRUE}, cask : Casks]
    /\ plist = None /\ job = NoJob /\ proc = NoProcess /\ socket = FALSE
    /\ step = "idle" /\ cmd = NoCommand /\ acts = 0

Resting == step \in {"idle", "done"}

At(here) == step = here
GoTo(there) == step' = there /\ UNCHANGED cmd
Fail == step' = "idle" /\ cmd' = NoCommand
Finish(c) == step' = "done" /\ cmd' = [c EXCEPT !.ok = TRUE, !.deleteData = FALSE, !.all = FALSE]
Warned == [cmd EXCEPT !.warned = TRUE]

\* A failure that is not even a warning: what should have gone is left where it is.
Keep(what) == cmd' = [cmd EXCEPT !.kept = @ \cup {what}]

-----------------------------------------------------------------------------
(* What a binary is launched as.                                             *)

\* A path is "launch", the one the user runs, or that of a build which a cask has staged.
EvalSymlinks == IF binary.cask THEN binary.build ELSE "launch"
HomebrewCask(path) == path \in Builds
Exists(path) == path = "launch" \/ (binary.cask /\ path = binary.build)

\* Defect: a symlink is always resolved.
ResolvedBinPath == EvalSymlinks

\* resolveBinPath: the symlink of a cask is kept, it outlives the version it leads to.
ResolveBinPath == IF HomebrewCask(EvalSymlinks) THEN "launch" ELSE EvalSymlinks

DefaultGuestTLSDir == IF certs["brew"] # "absent" THEN "brew" ELSE "xdg"
RenderLaunchAgent(bin, tls) == [bin |-> bin, tls |-> tls]

-----------------------------------------------------------------------------
(* setup, in the order of Run.                                               *)

StartSetup ==
    /\ Resting /\ acts < MaxActs /\ acts' = acts + 1
    /\ \E n \in OptNetworks, d \in OptTLSDirs :
         cmd' = [NoCommand EXCEPT !.op = "setup", !.network = n, !.tlsDir = d]
    /\ step' = "runtime"
    /\ UNCHANGED <<platform, gatewayVars, binary, service>>

EnsureRuntime ==
    /\ At("runtime")
    /\ \/ runtime = "running" /\ GoTo("kernel") /\ UNCHANGED runtime
       \/ runtime = "stopped" /\ runtime' = "running" /\ GoTo("kernel")
       \/ runtime # "running" /\ Fail /\ UNCHANGED runtime
    /\ UNCHANGED <<kernel, networks, certs, gatewayVars, binary, service, acts>>

\* ensureKernel: without one no VM boots, but the rest is repaired all the same.
EnsureKernel ==
    /\ At("kernel")
    /\ step' = "network"
    /\ \/ kernel' = TRUE /\ UNCHANGED cmd
       \/ ~kernel /\ cmd' = Warned /\ UNCHANGED kernel
    /\ UNCHANGED <<runtime, networks, certs, gatewayVars, binary, service, acts>>

Assigned == {networks[n] : n \in DOMAIN networks} \ {Pending}
NewAddresses == {Pending} \cup (Addresses \ Assigned)

\* A network without an address is created, and refused if it is there.
EnsureNetwork ==
    /\ At("network")
    /\ LET n == cmd.network
           known == IF n \in DOMAIN networks THEN networks[n] ELSE None
       IN \/ /\ runtime = "running" /\ known \in Addresses
             /\ step' = "certificate" /\ cmd' = [cmd EXCEPT !.ip = known]
             /\ UNCHANGED networks
          \/ /\ runtime = "running" /\ known = None
             /\ \E a \in NewAddresses : networks' = [m \in DOMAIN networks \cup {n} |-> IF m = n THEN a ELSE networks[m]]
             /\ GoTo("address")
          \/ Fail /\ UNCHANGED networks
    /\ UNCHANGED <<runtime, kernel, certs, gatewayVars, binary, service, acts>>

\* It is polled for its address, but not for ever.
AwaitAddress ==
    /\ At("address")
    /\ IF cmd.network \in DOMAIN networks /\ networks[cmd.network] \in Addresses
       THEN step' = "certificate" /\ cmd' = [cmd EXCEPT !.ip = networks[cmd.network]]
       ELSE Fail
    /\ UNCHANGED <<platform, gatewayVars, binary, service, acts>>

\* Defect: a certificate that is there is good enough.
EnsureCertificateOnce ==
    /\ At("certificate")
    /\ LET tls == IF cmd.tlsDir = None THEN DefaultGuestTLSDir ELSE cmd.tlsDir
       IN \/ /\ step' = "env" /\ cmd' = [cmd EXCEPT !.tls = tls, !.ip = None]
             /\ certs' = [certs EXCEPT ![tls] = IF @ \in {"absent", "bare"} THEN cmd.ip ELSE @]
          \/ Fail /\ UNCHANGED certs
    /\ UNCHANGED <<runtime, kernel, networks, gatewayVars, binary, service, acts>>

\* ensureCertSAN: a certificate is made for this address alone, by the gateway's own program.
EnsureCertSAN ==
    /\ At("certificate")
    /\ LET tls == IF cmd.tlsDir = None THEN DefaultGuestTLSDir ELSE cmd.tlsDir
       IN \/ /\ certs[tls] = cmd.ip \/ openshell.installed
             /\ step' = "env" /\ cmd' = [cmd EXCEPT !.tls = tls, !.ip = None]
             /\ certs' = [certs EXCEPT ![tls] = cmd.ip]
          \/ Fail /\ UNCHANGED certs
    /\ UNCHANGED <<runtime, kernel, networks, gatewayVars, binary, service, acts>>

\* os.WriteFile: the file is cut off before it is written, and stays so when the command is
\* killed there or the disk is full, which ends it.
Overwrite(lines) == envFile' = lines /\ UNCHANGED lost
Replace(lines) == envFile' = lines /\ lost' = (lost \/ Outside(envFile) # {})
CutShort == Replace(<<>>) /\ Fail

\* upsertFileBlock: a file that cannot be read counts as empty.
WriteBlock ==
    /\ At("env")
    /\ \/ Overwrite(UpsertManagedBlock(envFile, cmd.tls)) /\ GoTo("plist")
       \/ /\ envFile # <<>>
          /\ Replace(UpsertManagedBlock(<<>>, cmd.tls))
          /\ GoTo("plist")
       \/ CutShort
    /\ UNCHANGED <<platform, openshell, mine, binary, service, acts>>

-----------------------------------------------------------------------------
(* setup: installAgent.                                                      *)

WritePlist ==
    /\ At("plist")
    /\ plist' = RenderLaunchAgent(ResolveBinPath, cmd.tls)
    /\ GoTo("bootout")
    /\ UNCHANGED <<platform, gatewayVars, binary, job, proc, socket, acts>>

\* launchctl bootout: a driver that serves is asked to drain, any other process is gone. That
\* it fails is logged for debugging only.
Unload ==
    /\ job' = IF proc.phase \in {"serving", "draining", "closed"} THEN [job EXCEPT !.state = "leaving"] ELSE NoJob
    /\ proc' = IF proc.phase = "serving" THEN [proc EXCEPT !.phase = "draining"]
               ELSE IF proc.phase = "starting" THEN NoProcess ELSE proc

Bootout ==
    /\ At("bootout")
    /\ Unload \/ UNCHANGED <<job, proc>>
    /\ step' = "unload" /\ cmd' = [cmd EXCEPT !.tries = 1]
    /\ UNCHANGED <<platform, gatewayVars, binary, plist, socket, acts>>

\* Up to 15 s for the label to go; then bootstrap is tried in any case.
AwaitUnload ==
    /\ At("unload")
    /\ GoTo("bootstrap")
    /\ UNCHANGED <<platform, gatewayVars, binary, service, acts>>

\* Defect: a label that is still there counts as loaded.
BootstrapOrLoaded ==
    /\ At("bootstrap")
    /\ \/ job.state = "absent" /\ GoTo("socket") /\ job' = [state |-> "loaded", bin |-> plist.bin, tls |-> plist.tls]
       \/ job.state # "absent" /\ GoTo("socket") /\ UNCHANGED job
    /\ UNCHANGED <<platform, gatewayVars, binary, plist, proc, socket, acts>>

\* launchctl bootstrap fails over a label that is still registered; three attempts.
Bootstrap ==
    /\ At("bootstrap")
    /\ \/ /\ job.state = "absent"
          /\ job' = [state |-> "loaded", bin |-> plist.bin, tls |-> plist.tls]
          /\ step' = "socket" /\ cmd' = [cmd EXCEPT !.tries = 0]
       \/ /\ UNCHANGED job
          /\ IF cmd.tries < 3 THEN step' = "unload" /\ cmd' = [cmd EXCEPT !.tries = @ + 1] ELSE Fail
    /\ UNCHANGED <<platform, gatewayVars, binary, plist, proc, socket, acts>>

AwaitSocket ==
    /\ At("socket")
    /\ GoTo(IF socket THEN "gateway" ELSE "kickstart")
    /\ UNCHANGED <<platform, gatewayVars, binary, service, acts>>

\* launchctl kickstart -k kills what runs, if it succeeds; launchd starts it again.
Kickstart ==
    /\ At("kickstart")
    /\ proc' \in {proc, NoProcess}
    /\ GoTo("confirm")
    /\ UNCHANGED <<platform, gatewayVars, binary, plist, job, socket, acts>>

ConfirmSocket ==
    /\ At("confirm")
    /\ IF socket THEN GoTo("gateway") ELSE Fail
    /\ UNCHANGED <<platform, gatewayVars, binary, service, acts>>

\* restartGatewayService, which can only warn
RestartGateway ==
    /\ At("gateway")
    /\ \/ /\ openshell.installed
          /\ openshell' = [openshell EXCEPT !.up = TRUE, !.wired = WiredTo(envFile)]
          /\ Finish(cmd)
       \/ /\ Finish(Warned)
          /\ openshell' \in {openshell, [openshell EXCEPT !.up = FALSE, !.wired = None]}
    /\ UNCHANGED <<platform, envFile, mine, lost, binary, service, acts>>

Setup ==
    \/ EnsureRuntime \/ EnsureKernel \/ EnsureNetwork \/ AwaitAddress \/ EnsureCertSAN
    \/ WriteBlock \/ WritePlist \/ Bootout \/ AwaitUnload \/ Bootstrap \/ AwaitSocket \/ Kickstart
    \/ ConfirmSocket \/ RestartGateway

-----------------------------------------------------------------------------
(* cleanup, in the order of Cleanup.                                         *)

StartCleanup ==
    /\ Resting /\ acts < MaxActs /\ acts' = acts + 1
    /\ \E d, a \in BOOLEAN : cmd' = [NoCommand EXCEPT !.op = "cleanup", !.deleteData = d, !.all = a]
    /\ step' = "remove agent"
    /\ UNCHANGED <<platform, gatewayVars, binary, service>>

RemoveAgent ==
    /\ At("remove agent")
    /\ step' = "remove plist"
    /\ \/ Unload /\ UNCHANGED cmd
       \/ job.state # "absent" /\ Keep("agent") /\ UNCHANGED <<job, proc>>
    /\ UNCHANGED <<platform, gatewayVars, binary, plist, socket, acts>>

RemovePlist ==
    /\ At("remove plist")
    /\ plist' = None
    /\ GoTo("remove block")
    /\ UNCHANGED <<platform, gatewayVars, binary, job, proc, socket, acts>>

\* A file that holds nothing else is removed. One that cannot be read, or removed, is left.
RemoveBlock ==
    /\ At("remove block")
    /\ LET rest == RemoveManagedBlock(envFile)
           left == IF rest = <<Blank>> THEN <<>> ELSE rest
       IN \/ Overwrite(left) /\ GoTo("stop gateway")
          \/ Begin \in ToSet(envFile) /\ Keep("block") /\ step' = "stop gateway" /\ UNCHANGED <<envFile, lost>>
          \/ left # <<>> /\ CutShort
    /\ UNCHANGED <<platform, openshell, mine, binary, service, acts>>

StopGateway ==
    /\ At("stop gateway")
    /\ step' = IF cmd.deleteData THEN "remove socket" ELSE IF cmd.all THEN "remove openshell" ELSE "cleaned"
    /\ \/ openshell' = [openshell EXCEPT !.up = FALSE, !.wired = None] /\ UNCHANGED cmd
       \/ openshell.installed /\ cmd' = Warned /\ UNCHANGED openshell
    /\ UNCHANGED <<platform, envFile, mine, lost, binary, service, acts>>

\* deleteDriverData, without the state directory and the images.
RemoveSocketDir ==
    /\ At("remove socket")
    /\ socket' = FALSE
    /\ GoTo("remove network")
    /\ UNCHANGED <<platform, gatewayVars, binary, plist, job, proc, acts>>

\* It is not an error if this fails.
RemoveNetwork ==
    /\ At("remove network")
    /\ \/ runtime = "running" /\ networks' = [n \in DOMAIN networks \ {DriverNetwork} |-> networks[n]]
       \/ UNCHANGED networks
    /\ GoTo(IF cmd.all THEN "remove openshell" ELSE "cleaned")
    /\ UNCHANGED <<runtime, kernel, certs, gatewayVars, binary, service, acts>>

\* brew uninstall leaves the bundle and gateway.env; these go with the data only, the user's
\* lines included. That os.RemoveAll fails, which would spare them, is left out.
RemoveOpenShell ==
    /\ At("remove openshell")
    /\ openshell' \in {openshell, [installed |-> FALSE, up |-> FALSE, wired |-> None]}
    /\ IF cmd.deleteData
       THEN Replace(<<>>) /\ certs' = [certs EXCEPT !["brew"] = "absent"]
       ELSE UNCHANGED <<envFile, lost, certs>>
    /\ GoTo("stop runtime")
    /\ UNCHANGED <<runtime, kernel, networks, mine, binary, service, acts>>

StopRuntime ==
    /\ At("stop runtime")
    /\ runtime' \in {runtime, IF runtime = "running" THEN "stopped" ELSE runtime}
    /\ GoTo("remove runtime")
    /\ UNCHANGED <<kernel, networks, certs, gatewayVars, binary, service, acts>>

\* apple/container's uninstaller refuses a runtime that is up; -d takes its data along.
RemoveRuntime ==
    /\ At("remove runtime")
    /\ \/ /\ runtime = "stopped" /\ runtime' = "absent"
          /\ kernel' = (kernel /\ ~cmd.deleteData)
          /\ networks' = IF cmd.deleteData THEN <<>> ELSE networks
       \/ UNCHANGED <<runtime, kernel, networks>>
    /\ GoTo("cleaned")
    /\ UNCHANGED <<certs, gatewayVars, binary, service, acts>>

EndCleanup ==
    /\ At("cleaned")
    /\ Finish(cmd)
    /\ UNCHANGED <<platform, gatewayVars, binary, service, acts>>

Cleanup ==
    \/ RemoveAgent \/ RemovePlist \/ RemoveBlock \/ StopGateway \/ RemoveSocketDir \/ RemoveNetwork
    \/ RemoveOpenShell \/ StopRuntime \/ RemoveRuntime \/ EndCleanup

\* A command is killed, or fails on a file or a program that its step needs.
Interrupt ==
    /\ ~Resting
    /\ Fail
    /\ UNCHANGED <<platform, gatewayVars, binary, service, acts>>

-----------------------------------------------------------------------------
(* launchd and the driver, as far as setup can see them.                     *)

LaunchProcess ==
    /\ job.state = "loaded" /\ proc = NoProcess
    /\ Exists(job.bin) /\ binary.exec
    /\ proc' = [phase |-> "starting", build |-> binary.build, tls |-> job.tls, endpoint |-> None]
    /\ UNCHANGED <<platform, gatewayVars, binary, plist, job, socket, command, acts>>

\* Preflight starts the runtime, makes the network and derives the endpoint, where it can; then
\* the driver takes the socket over.
DriverListens ==
    /\ proc.phase = "starting"
    /\ runtime' \in {runtime, IF runtime = "stopped" THEN "running" ELSE runtime}
    /\ \/ UNCHANGED networks
       \/ /\ runtime' = "running" /\ DriverNetwork \notin DOMAIN networks
          /\ \E a \in NewAddresses :
               networks' = [m \in DOMAIN networks \cup {DriverNetwork} |-> IF m = DriverNetwork THEN a ELSE networks[m]]
    /\ \E e \in {None} \cup (IF runtime' = "running" /\ DriverNetwork \in DOMAIN networks'
                             THEN {networks'[DriverNetwork]} \ {Pending} ELSE {}) :
         proc' = [proc EXCEPT !.phase = "serving", !.endpoint = e]
    /\ socket' = TRUE
    /\ UNCHANGED <<kernel, certs, gatewayVars, binary, plist, job, command, acts>>

\* The drain begins with the listener, whose socket goes at once.
DriverDrains ==
    /\ proc.phase = "draining"
    /\ proc' = [proc EXCEPT !.phase = "closed"] /\ socket' = FALSE
    /\ UNCHANGED <<platform, gatewayVars, binary, plist, job, command, acts>>

\* A crash, or the end of a drain. A crash leaves the socket; launchd forgets a label that leaves.
DriverEnds ==
    /\ proc.phase # "none"
    /\ proc' = NoProcess
    /\ job' = IF job.state = "leaving" THEN NoJob ELSE job
    /\ UNCHANGED <<platform, gatewayVars, binary, plist, socket, command, acts>>

AssignAddress ==
    /\ \E n \in DOMAIN networks :
         /\ networks[n] = Pending
         /\ \E a \in Addresses \ Assigned : networks' = [networks EXCEPT ![n] = a]
    /\ UNCHANGED <<runtime, kernel, certs, gatewayVars, binary, service, command, acts>>

\* The agent, and the gateway's service if it was up, are started again; the runtime is not.
Reboot ==
    /\ Resting /\ acts < MaxActs /\ acts' = acts + 1
    /\ runtime' = IF runtime = "running" THEN "stopped" ELSE runtime
    /\ proc' = NoProcess /\ socket' = FALSE
    /\ job' = IF plist = None THEN NoJob ELSE [state |-> "loaded", bin |-> plist.bin, tls |-> plist.tls]
    /\ openshell' = [openshell EXCEPT !.wired = IF openshell.up THEN WiredTo(envFile) ELSE None]
    /\ cmd' = [cmd EXCEPT !.rebooted = TRUE] /\ step' = step
    /\ UNCHANGED <<kernel, networks, certs, envFile, mine, lost, binary, plist>>

Environment == LaunchProcess \/ DriverListens \/ DriverDrains \/ DriverEnds \/ AssignAddress \/ Reboot

-----------------------------------------------------------------------------
(* The user, between two commands.                                           *)

Acts == Resting /\ acts < MaxActs /\ acts' = acts + 1 /\ step' = "idle" /\ cmd' = NoCommand

InstallOpenShell ==
    /\ Acts /\ ~openshell.installed
    /\ openshell' = [installed |-> TRUE, up |-> FALSE, wired |-> None]
    /\ certs' = [certs EXCEPT !["brew"] = IF @ = "absent" THEN "bare" ELSE @]
    /\ UNCHANGED <<runtime, kernel, networks, envFile, mine, lost, binary, service>>

DropNetwork ==
    /\ Acts /\ DriverNetwork \in DOMAIN networks
    /\ networks' = [n \in DOMAIN networks \ {DriverNetwork} |-> networks[n]]
    /\ UNCHANGED <<runtime, kernel, certs, gatewayVars, binary, service>>

\* A line before or after the rest, a block twice, a block that has lost its end.
EditGatewayEnv ==
    /\ Acts
    /\ \/ envFile' = <<User("b")>> \o envFile
       \/ envFile' = envFile \o <<User("c")>>
       \/ Begin \in ToSet(envFile) /\ envFile' = envFile \o envFile
       \/ \E k \in DOMAIN envFile : envFile[k] = End /\ envFile' = RemoveAt(envFile, k)
    /\ Len(envFile') <= 8
    /\ mine' = Outside(envFile') /\ lost' = FALSE
    /\ UNCHANGED <<platform, openshell, binary, service>>

UserActs == InstallOpenShell \/ DropNetwork \/ EditGatewayEnv
=============================================================================

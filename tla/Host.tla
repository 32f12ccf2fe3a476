--------------------------------- MODULE Host ---------------------------------
(* A host under all the commands that change it: HostSetup with update, which *)
(* replaces the driver and what it needs, and status, which only looks.       *)
EXTENDS HostSetup, Compat

CONSTANTS
    Corrupt,            \* the digest of a download that is no release
    Latest,             \* the latest release of the driver
    ContainerVersions, OpenShellVersions,   \* releases of apple/container and of OpenShell
    Upgrades            \* the pairs of them that an update may find

ASSUME LatestAssumption == Latest \in Builds
ASSUME VersionsAssumption ==
    \A v \in (ContainerVersions \cup OpenShellVersions) \ {Unreadable} : v \in Nat \X (0 .. 999) \X (0 .. 999)

VARIABLE versions       \* the installed ones of both

allVars == <<vars, versions>>

-----------------------------------------------------------------------------
(* update, in the order of runUpdate.                                        *)

\* A cask is at the version of its tap; a release can be asked for elsewhere only.
StartUpdate ==
    /\ Resting /\ acts < MaxActs /\ acts' = acts + 1
    /\ \E want \in Builds \cup {None}, a, s \in BOOLEAN :
         IF binary.cask /\ want # None
         THEN Fail
         ELSE /\ cmd' = [NoCommand EXCEPT !.op = "update", !.network = DriverNetwork, !.want = want,
                                          !.all = a, !.setup = s, !.wasUp = (runtime = "running")]
              /\ step' = IF binary.cask THEN "brew" ELSE "release"
    /\ UNCHANGED <<platform, gatewayVars, binary, service, versions>>

\* Homebrew stages the new version, drops the old one and unloads the agent, or does nothing.
BrewUpgrade ==
    /\ At("brew")
    /\ \/ binary.build # Latest /\ binary' = [binary EXCEPT !.build = Latest] /\ Unload
       \/ UNCHANGED <<binary, job, proc>>
    /\ GoTo("prerequisites")
    /\ UNCHANGED <<platform, gatewayVars, plist, socket, acts, versions>>

ChooseRelease ==
    /\ At("release")
    /\ LET want == IF cmd.want = None THEN Latest ELSE cmd.want
       IN IF want = binary.build
          THEN step' = "prerequisites" /\ cmd' = [cmd EXCEPT !.want = None]
          ELSE step' = "download" /\ cmd' = [cmd EXCEPT !.want = want]
    /\ UNCHANGED <<platform, gatewayVars, binary, service, acts, versions>>

Download ==
    /\ At("download")
    /\ \E got \in {cmd.want, Corrupt} : cmd' = [cmd EXCEPT !.archive = got]
    /\ step' = "verify"
    /\ UNCHANGED <<platform, gatewayVars, binary, service, acts, versions>>

\* Defect: an archive that is not listed is taken as it is.
VerifyListed(archive, listed) == listed = None \/ archive = listed

\* verifyChecksum, a build and what it is called being one
VerifyChecksum(archive, listed) == listed # None /\ archive = listed

VerifyDownload ==
    /\ At("verify")
    /\ \E listed \in {cmd.want, None} :
         IF VerifyChecksum(cmd.archive, listed) THEN GoTo("replace") ELSE Fail
    /\ UNCHANGED <<platform, gatewayVars, binary, service, acts, versions>>

\* replaceBinary: a rename within the directory, or else `sudo install`; both leave it executable.
ReplaceBinary ==
    /\ At("replace")
    /\ \/ /\ binary' = [binary EXCEPT !.build = cmd.archive, !.exec = TRUE]
          /\ step' = "prerequisites" /\ cmd' = [cmd EXCEPT !.want = None, !.archive = None]
       \/ Fail /\ UNCHANGED binary
    /\ UNCHANGED <<platform, gatewayVars, service, acts, versions>>

\* updatePrerequisites: brew, or the installer for a pinned release; nothing here is fatal.
UpgradeOpenShell ==
    /\ At("prerequisites")
    /\ IF cmd.all
       THEN /\ GoTo("stop for update")
            /\ \E v \in {u.openshell : u \in Upgrades} : versions' = [versions EXCEPT !.openshell = v]
            /\ \/ UNCHANGED <<openshell, certs>>
               \/ /\ ~openshell.installed
                  /\ openshell' = [openshell EXCEPT !.installed = TRUE]
                  /\ certs' = [certs EXCEPT !["brew"] = IF @ = "absent" THEN "bare" ELSE @]
       ELSE GoTo("updated") /\ UNCHANGED <<openshell, certs, versions>>
    /\ UNCHANGED <<runtime, kernel, networks, envFile, mine, lost, binary, service, acts>>

StopForUpdate ==
    /\ At("stop for update")
    /\ IF runtime = "absent" THEN GoTo("updated") ELSE GoTo("update runtime")
    /\ runtime' \in {runtime, IF runtime = "running" THEN "stopped" ELSE runtime}
    /\ UNCHANGED <<kernel, networks, certs, gatewayVars, binary, service, acts, versions>>

\* The updater refuses a runtime that is up.
UpdateRuntime ==
    /\ At("update runtime")
    /\ \/ /\ runtime = "stopped"
          /\ \E v \in {u.container : u \in Upgrades} : versions' = [versions EXCEPT !.container = v]
       \/ UNCHANGED versions
    /\ GoTo("start again")
    /\ UNCHANGED <<platform, gatewayVars, binary, service, acts>>

\* Defect: it is left to setup.
StartAgainUnlessSetup ==
    /\ At("start again")
    /\ GoTo("updated")
    /\ UNCHANGED <<platform, gatewayVars, binary, service, acts, versions>>

StartAgain ==
    /\ At("start again")
    /\ step' = "updated"
    /\ \/ runtime' = "running" /\ UNCHANGED cmd
       \/ cmd' = Warned /\ UNCHANGED runtime
    /\ UNCHANGED <<kernel, networks, certs, gatewayVars, binary, service, acts, versions>>

\* setup is run anew, by the binary that is installed now.
RunSetup ==
    /\ At("updated")
    /\ IF cmd.setup THEN GoTo("runtime") ELSE Finish(cmd)
    /\ UNCHANGED <<platform, gatewayVars, binary, service, acts, versions>>

Update ==
    \/ StartUpdate \/ BrewUpgrade \/ ChooseRelease \/ Download \/ VerifyDownload \/ ReplaceBinary
    \/ UpgradeOpenShell \/ StopForUpdate \/ UpdateRuntime \/ StartAgain \/ RunSetup

-----------------------------------------------------------------------------
(* status, a set of lines: what each is about, its level, and whether it     *)
(* tells the user to run setup.                                              *)

Line(name, level, repair) == [name |-> name, level |-> level, repair |-> repair]
MapLevel(level) == IF level = "error" THEN "fail" ELSE level

Verdicts(name, levels) == {Line(name, MapLevel(l), FALSE) : l \in levels \ {"ok"}}

RuntimeLines ==
    IF runtime = "absent" THEN {Line("apple/container", "fail", FALSE)}
    ELSE {Line("apple/container", IF runtime = "running" THEN "ok" ELSE "fail", runtime # "running")}
         \cup Verdicts("apple/container", CheckAppleContainer(versions.container))
         \cup {Line("guest kernel", IF kernel THEN "ok" ELSE "fail", ~kernel)}

GatewayIP(network) ==
    IF runtime = "running" /\ network \in DOMAIN networks /\ networks[network] # Pending THEN networks[network] ELSE None

NetworkLines(network) ==
    IF runtime # "running" THEN {}
    ELSE LET bad == GatewayIP(network) = None IN {Line("vmnet network", IF bad THEN "fail" ELSE "ok", bad)}

GatewayLines ==
    IF ~openshell.installed THEN {Line("OpenShell gateway", "fail", FALSE)}
    ELSE Verdicts("OpenShell gateway", CheckOpenShell(versions.openshell))
         \cup {Line("OpenShell gateway", IF openshell.up THEN "ok" ELSE "fail", ~openshell.up)}

WiringLines ==
    LET wired == Begin \in ToSet(envFile) /\ WiredTo(envFile) # None
    IN {Line("gateway wiring", IF wired THEN "ok" ELSE "fail", ~wired)}

CertificateLines(network, tlsDir) ==
    LET cert == certs[IF tlsDir = None THEN DefaultGuestTLSDir ELSE tlsDir]
        ip == GatewayIP(network)
        level == IF cert = "absent" THEN "fail"
                 ELSE IF ip = None THEN "warn"
                 ELSE IF cert = ip THEN "ok" ELSE "fail"
    IN {Line("gateway certificate", level, level = "fail")}

ServiceLines ==
    IF plist = None \/ job.state = "absent" THEN {Line("driver service", "fail", TRUE)}
    ELSE {Line("driver service", IF proc = NoProcess THEN "fail" ELSE "ok", FALSE)}

SocketLines ==
    IF ~(socket /\ proc.phase = "serving") THEN {Line("driver socket", "fail", TRUE)}
    ELSE LET old == proc.build # binary.build IN {Line("driver socket", IF old THEN "warn" ELSE "ok", old)}

Status(network, tlsDir) ==
    RuntimeLines \cup NetworkLines(network) \cup GatewayLines \cup WiringLines
        \cup CertificateLines(network, tlsDir) \cup ServiceLines \cup SocketLines

\* runStatus has no flags for the two, whatever setup was given.
StatusPrinted == Status(DriverNetwork, None)

-----------------------------------------------------------------------------

HostInit ==
    /\ Init
    /\ versions = [container |-> AppleContainerMin, openshell |-> OpenShellMin]

HostNext ==
    \/ (StartSetup \/ Setup \/ StartCleanup \/ Cleanup \/ Interrupt \/ Environment \/ UserActs) /\ UNCHANGED versions
    \/ Update

Spec == HostInit /\ [][HostNext]_allVars

-----------------------------------------------------------------------------
(* Properties.                                                               *)

Ended(op) == step = "done" /\ cmd.op = op /\ cmd.ok
SetUp == Ended("setup") \/ (Ended("update") /\ cmd.setup)

\* Setup repairs what status says it does: after it status tells no one to run setup, but
\* where setup has warned or the host was booted since, and but for the socket, which setup
\* confirms by its file only. Of the network and the bundle that holds for the defaults:
\* status looks at these, also when setup was told to use others.
SetupRepairs ==
    SetUp => \A l \in StatusPrinted :
        l.level = "fail" /\ l.repair =>
            \/ l.name = "driver socket"
            \/ l.name \in {"guest kernel", "OpenShell gateway"} /\ cmd.warned
            \/ l.name = "apple/container" /\ cmd.rebooted
            \/ l.name \in {"vmnet network", "gateway certificate"} /\ cmd.network # DriverNetwork
            \/ l.name = "gateway certificate" /\ cmd.tlsDir # None

\* After setup, and through crashes and reboots, the address that the driver hands to guests is
\* the one that the gateway's certificate covers, and both use the same bundle.
GuestsCanVerifyTheGateway ==
    SetUp => /\ proc.phase = "serving" => /\ proc.endpoint \in {None, certs[cmd.tls]}
                                          /\ proc.tls = cmd.tls
             /\ openshell.up /\ ~cmd.warned => openshell.wired = cmd.tls

\* However often setup and cleanup rewrite gateway.env, and whatever has become of its markers,
\* the lines outside of them are those the user has put there. Only three things can cost some
\* of them: a rewriting that is cut short, a file that setup cannot read, and the removal of
\* OpenShell with its data.
UserLinesSurvive == Outside(envFile) = IF lost THEN {} ELSE mine

\* After cleanup nothing of the driver is started or selected again, by a reboot either. What it
\* cannot unload or cannot read it leaves without a word, and then only the plist is sure to go.
CleanupIsThorough ==
    Ended("cleanup") =>
        /\ plist = None
        /\ "agent" \notin cmd.kept => job.state # "loaded"
        /\ "block" \notin cmd.kept => WiredTo(envFile) = None
        /\ ~cmd.warned => ~openshell.up

\* The agent's plist names a program that exists, through upgrades by Homebrew too.
PlistNeverDangles == plist # None => Exists(plist.bin)

\* No download becomes the installed driver that is not the release it was asked for.
OnlyReleasesAreInstalled == binary.build \in Builds /\ binary.exec

\* After an update with setup, no process of the replaced build is left.
UpdateReachesTheService ==
    Ended("update") /\ cmd.setup /\ proc.phase # "none" => proc.build = binary.build

\* An update that is not to run setup leaves the runtime as it was, unless it has warned.
RuntimeIsStartedAgain ==
    Ended("update") /\ cmd.wasUp /\ ~cmd.warned /\ ~cmd.rebooted => runtime = "running"

\* The verdict on a version follows the order of the versions, whatever is installed (which is
\* looked at on a host that nothing was done to).
Rank(v) == (v[1] * 1000 + v[2]) * 1000 + v[3]
Between(v, low, high) == Rank(v) \in Rank(low) .. Rank(high)
VerdictsFollowTheOrder ==
    acts = 0 =>
        /\ \A v \in ContainerVersions \ {Unreadable} :
             LET levels == CheckAppleContainer(v)
             IN /\ "error" \in levels <=> Rank(v) < Rank(AppleContainerMin)
                /\ levels = {"ok"} <=> Between(v, AppleContainerMinSafe, AppleContainerMax)
        /\ \A v \in OpenShellVersions \ {Unreadable} :
             LET levels == CheckOpenShell(v)
             IN /\ levels = {"error"} <=> Rank(v) < Rank(OpenShellMin)
                /\ levels = {"ok"} <=> Between(v, OpenShellMin, OpenShellMax)
=============================================================================

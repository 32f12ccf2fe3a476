---------------------------- MODULE Configuration ----------------------------
(* What flags, environment variables and a request become: the resolution of *)
(* settings (internal/config), the mount and network policy (driverconfig),  *)
(* quantities (quantity) and the guest's environment (env). Pure operators;  *)
(* Provisioning puts them in the order in which a driver uses them.          *)
(*                                                                           *)
(* A path is its list of components and whether it is absolute; a number is  *)
(* a fraction; an endpoint is a scheme and a host.                           *)
EXTENDS Integers, Sequences, SequencesExt

CONSTANTS
    NotSet,             \* a flag or variable that is not given
    Unset,              \* a field that is not given, an empty string
    Malformed,          \* one that does not parse
    Error,              \* the result of what fails
    Kibi, Kilo,         \* 1024 and 1000, or smaller bases in the same relation
    MaxInt              \* the largest int64, or a smaller one

ASSUME Bases == {Kibi, Kilo, MaxInt} \subseteq Nat \ {0} /\ Kilo < Kibi

\* The entries of f, and those of g for what f has none for
f ++ g == [x \in DOMAIN f \cup DOMAIN g |-> IF x \in DOMAIN f THEN f[x] ELSE g[x]]

-----------------------------------------------------------------------------
(* Settings: a flag wins over a variable, a variable over the default.       *)

StringSetting(s, default) ==
    IF s.flag # NotSet THEN s.flag ELSE IF s.env # NotSet THEN s.env ELSE default

\* A number or Boolean that does not parse: the variable is passed over, the flag is an error.
ParsedSetting(s, default) ==
    IF s.flag # NotSet THEN s.flag ELSE IF s.env \notin {NotSet, Malformed} THEN s.env ELSE default

\* The entries of a comma-separated list, blanks left out.
SplitList(entries) == SelectSeq(entries, LAMBDA e : e # Unset)

\* Defect: only a flag counts as the operator's choice of the supervisor.
ParseFlagsOnly(s, defaults) ==
    LET cfg == [socket |-> StringSetting(s.socket, defaults.socket),
                network |-> StringSetting(s.network, defaults.network),
                allowedNetworks |-> SplitList(StringSetting(s.allowedNetworks, <<>>)),
                defaultImage |-> defaults.image,
                supervisorImage |-> StringSetting(s.supervisorImage, defaults.pinned),
                explicit |-> s.supervisorImage.flag # NotSet,
                endpoint |-> StringSetting(s.endpoint, Unset),
                cpus |-> ParsedSetting(s.cpus, defaults.cpus),
                memory |-> defaults.memory,
                kernel |-> Unset,
                allowHostMounts |-> ParsedSetting(s.allowHostMounts, FALSE),
                hostMountRoot |-> StringSetting(s.hostMountRoot, Unset),
                policyFile |-> StringSetting(s.policyFile, Unset)]
    IN IF \/ Malformed \in {s.cpus.flag, s.allowHostMounts.flag}
          \/ cfg.socket = Unset
          \/ \E p \in {cfg.hostMountRoot, cfg.policyFile} : p # Unset /\ ~p.abs
       THEN Error ELSE cfg

\* Parse: the configuration for the settings s, or Error.
Parse(s, defaults) ==
    LET cfg == [socket |-> StringSetting(s.socket, defaults.socket),
                network |-> StringSetting(s.network, defaults.network),
                allowedNetworks |-> SplitList(StringSetting(s.allowedNetworks, <<>>)),
                defaultImage |-> defaults.image,
                supervisorImage |-> StringSetting(s.supervisorImage, defaults.pinned),
                explicit |-> {s.supervisorImage.flag, s.supervisorImage.env} # {NotSet},
                endpoint |-> StringSetting(s.endpoint, Unset),
                cpus |-> ParsedSetting(s.cpus, defaults.cpus),
                memory |-> defaults.memory,
                kernel |-> Unset,
                allowHostMounts |-> ParsedSetting(s.allowHostMounts, FALSE),
                hostMountRoot |-> StringSetting(s.hostMountRoot, Unset),
                policyFile |-> StringSetting(s.policyFile, Unset)]
    IN IF \/ Malformed \in {s.cpus.flag, s.allowHostMounts.flag}
          \/ cfg.socket = Unset
          \/ \E p \in {cfg.hostMountRoot, cfg.policyFile} : p # Unset /\ ~p.abs
       THEN Error ELSE cfg

\* ResolveSupervisorImage: the release of the installed gateway, Unset if that cannot be read.
ResolveSupervisorImage(cfg, gateway) ==
    IF cfg.explicit \/ gateway = Unset THEN cfg ELSE [cfg EXCEPT !.supervisorImage = gateway]

-----------------------------------------------------------------------------
(* The endpoint guests dial.                                                 *)

\* isLoopbackHost: by name in any case, or as an address that no guest can route to.
LoopbackHost(h) == h \in {"localhost", "LOCALHOST", "127.0.0.1", "::1", "0.0.0.0", "::"}

\* The checks of Preflight, which take schemes in lower case only.
UsableEndpoint(e) ==
    /\ e.scheme \in {"http", "https"}
    /\ e.host # ""
    /\ ~LoopbackHost(e.host)

-----------------------------------------------------------------------------
(* The driver config of a request: what is well formed, what is permitted.   *)

\* path.Clean leaves the absolute path as it is.
Normalized(p) == p.abs /\ \A k \in DOMAIN p.parts : p.parts[k] \notin {"", ".", ".."}

\* pathWithin: q is p or lies under it.
PathWithin(p, q) == IsPrefix(p.parts, q.parts)

Absolute(parts) == [abs |-> TRUE, parts |-> parts]

GuestSeedDir == Absolute(<<"openshell-seed">>)

ReservedMountTargets ==
    {GuestSeedDir} \cup
    {Absolute(p) : p \in {<<"opt", "openshell">>, <<"etc", "openshell">>, <<"etc", "openshell-tls">>,
                          <<"run", "netns">>, <<"sandbox">>}}

\* validateMountTarget
ValidMountTarget(t) ==
    /\ Normalized(t)
    /\ t.parts # <<>>
    /\ \A r \in ReservedMountTargets : ~PathWithin(r, t)

\* driverConfig.validate, of a config all of whose keys are known
WellFormed(d) ==
    /\ \A k \in DOMAIN d.mounts :
        LET m == d.mounts[k]
        IN /\ ValidMountTarget(m.target)
           /\ \A j \in 1 .. k - 1 : d.mounts[j].target # m.target
           /\ \/ m.type = "volume" /\ m.source # Unset /\ m.source.abs
              \/ m.type = "tmpfs" /\ m.source = Unset
    /\ d.network # Malformed                     \* white space in a name
    /\ d.kernel = Unset \/ d.kernel.abs

\* checkSourceWithinRoot: both are resolved through symbolic links, and must exist.
SourceWithinRoot(fs, root, source) ==
    /\ {root, source} \subseteq DOMAIN fs
    /\ PathWithin(fs[root], fs[source])

NetworkAllowed(cfg, n) == n = cfg.network \/ n \in ToSet(cfg.allowedNetworks)

\* Defect: a root is thought to allow the mounts under it, whatever the operator says.
PermittedByRoot(fs, cfg, d) ==
    /\ \A k \in DOMAIN d.mounts :
        d.mounts[k].type = "volume" =>
            \/ cfg.allowHostMounts
            \/ cfg.hostMountRoot # Unset /\ SourceWithinRoot(fs, cfg.hostMountRoot, d.mounts[k].source)
    /\ d.network = Unset \/ NetworkAllowed(cfg, d.network)

\* checkDriverConfigPolicy
Permitted(fs, cfg, d) ==
    /\ \A k \in DOMAIN d.mounts :
        d.mounts[k].type = "volume" =>
            /\ cfg.allowHostMounts
            /\ cfg.hostMountRoot # Unset => SourceWithinRoot(fs, cfg.hostMountRoot, d.mounts[k].source)
    /\ d.network = Unset \/ NetworkAllowed(cfg, d.network)

-----------------------------------------------------------------------------
(* Quantities: num / den units of a suffix, Unset or Malformed. Floating     *)
(* point is taken to be exact; what no int64 holds saturates, as it does on  *)
(* the one platform that is built for, arm64.                                *)

CeilDiv(a, b) == (a + b - 1) \div b
Saturate(n) == IF n > MaxInt THEN MaxInt ELSE n

\* ParseCPUQuantity: whole CPUs of a number of cores or millicores
ParseCPUQuantity(q) ==
    IF q = Unset THEN 0
    ELSE IF q = Malformed THEN Error
    ELSE IF q.num < 0 THEN Error
    ELSE Saturate(CeilDiv(q.num, q.den * (IF q.suffix = "m" THEN Kilo ELSE 1)))

Mi == Kibi * Kibi

MemorySuffixes == {"", "Ki", "Mi", "Gi", "Ti", "K", "M", "G", "T"}

\* memorySuffixes
Factor(suffix) ==
    CASE suffix = "" -> 1
      [] suffix = "Ki" -> Kibi [] suffix = "Mi" -> Mi [] suffix = "Gi" -> Mi * Kibi [] suffix = "Ti" -> Mi * Mi
      [] suffix = "K" -> Kilo [] suffix = "M" -> Kilo * Kilo [] suffix = "G" -> Kilo * Kilo * Kilo
      [] suffix = "T" -> Kilo * Kilo * Kilo * Kilo

\* Defect: the quotient is rounded down.
ParseMemoryQuantityDown(q) ==
    IF q = Unset THEN 0
    ELSE IF q = Malformed THEN Error
    ELSE IF q.num < 0 THEN Error
    ELSE Saturate((q.num * Factor(q.suffix)) \div (q.den * Mi))

\* ParseMemoryQuantityMB
ParseMemoryQuantityMB(q) ==
    IF q = Unset THEN 0
    ELSE IF q = Malformed THEN Error
    ELSE IF q.num < 0 THEN Error
    ELSE Saturate(CeilDiv(q.num * Factor(q.suffix), q.den * Mi))

\* firstQuantity: the first of two quantities that is not zero
FirstQuantity(a, b) == IF a # 0 THEN a ELSE b

-----------------------------------------------------------------------------
(* The environment of the guest. A value carries where it comes from.        *)

\* What the driver sets whatever the request says ...
AlwaysSet ==
    {"OPENSHELL_ENDPOINT", "OPENSHELL_SANDBOX_ID", "OPENSHELL_SANDBOX", "OPENSHELL_SSH_SOCKET_PATH",
     "OPENSHELL_MAIN_PROCESS_SPEC", "OPENSHELL_LOG_LEVEL", "OPENSHELL_TELEMETRY_ENABLED",
     "OPENSHELL_NETWORK_RUNTIME_CAPABILITIES", "OPENSHELL_SANDBOX_UID", "OPENSHELL_SANDBOX_GID"}

\* ... and the variables that name a file in the seed.
TLSFiles ==
    [OPENSHELL_TLS_CA |-> "tls/ca.crt", OPENSHELL_TLS_CERT |-> "tls/tls.crt", OPENSHELL_TLS_KEY |-> "tls/tls.key"]
TokenFile == [OPENSHELL_SANDBOX_TOKEN_FILE |-> "auth/sandbox.jwt"]
GuestFiles == TLSFiles ++ TokenFile

\* driverOwnedEnv
DriverOwnedEnv ==
    AlwaysSet \cup DOMAIN GuestFiles \cup
    {"PATH", "OPENSHELL_USER_ENVIRONMENT", "OPENSHELL_GATEWAY_TLS_SERVER_NAME", "OPENSHELL_SANDBOX_TOKEN",
     "OPENSHELL_OCI_IMAGE_USER"}

Values(names, from) == [n \in names |-> [from |-> from, value |-> Unset]]
Files(files) == [n \in DOMAIN files |-> [from |-> "driver", value |-> files[n]]]

\* The user's variables: the template's, and over them those of the spec.
UserEnv(req) == req.specEnv ++ req.templateEnv

\* Names that are blank or hold a "=", values that hold a NUL
ValidUserEnv(req) == \A n \in DOMAIN UserEnv(req) : n \notin {"", "A=B"} /\ UserEnv(req)[n] # Malformed

\* What is left of the user's variables, which goes into the guest one by one and as a whole.
KeptEnv(req) == [n \in DOMAIN UserEnv(req) \ DriverOwnedEnv |-> [from |-> "user", value |-> UserEnv(req)[n]]]

\* Defect: the user's variables come last.
SandboxEnvUserLast(cfg, req, hasToken) ==
    [n \in DOMAIN UserEnv(req) |-> [from |-> "user", value |-> UserEnv(req)[n]]] ++
    (IF cfg.endpoint.scheme = "https" THEN Files(TLSFiles) ELSE <<>>) ++
    (IF hasToken THEN Files(TokenFile) ELSE <<>>) ++
    Values(AlwaysSet, "driver") ++ Values({"HOME", "PATH", "TERM"}, "base")

\* sandboxEnv, of valid variables
SandboxEnv(cfg, req, hasToken) ==
    (IF cfg.endpoint.scheme = "https" THEN Files(TLSFiles) ELSE <<>>) ++
    (IF hasToken THEN Files(TokenFile) ELSE <<>>) ++
    Values(AlwaysSet, "driver") ++
    (IF KeptEnv(req) # <<>> THEN Values({"OPENSHELL_USER_ENVIRONMENT"}, "driver") ELSE <<>>) ++
    KeptEnv(req) ++
    Values({"HOME", "PATH", "TERM"}, "base")
=============================================================================

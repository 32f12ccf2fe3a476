-------------------------- MODULE ProvisioningProofs --------------------------
(* Proofs about Provisioning. All its invariants speak of a VM that was      *)
(* booted, from a configuration, a request and a seed that were settled some *)
(* steps before; the inductive invariant says what each of these steps has   *)
(* left for those after it.                                                  *)
EXTENDS Provisioning, TLAPS

AtWork == {"inspect", "pull", "inspect again", "pin", "supervisor", "seed", "run spec", "run", "booted"}

\* From the first step on, the configuration is a resolution of the settings.
ConfiguredFor ==
    /\ settings \in Settings
    /\ {"endpoint", "supervisorImage", "explicit", "cpus", "memory"} \subseteq DOMAIN cfg
    /\ cfg.cpus \in Int /\ cfg.memory \in Int
    /\ cfg.explicit <=> {settings.supervisorImage.flag, settings.supervisorImage.env} # {NotSet}
    /\ cfg.supervisorImage =
            IF cfg.explicit
            THEN StringSetting(settings.supervisorImage, Defaults.pinned)
            ELSE IF gateway = Unset THEN Defaults.pinned ELSE gateway
Configured == phase \notin {"off", "refused"} => ConfiguredFor

\* A request that provisionInner is at work on was admitted, on the host as it was then.
Admitted == phase \in AtWork => req \in Requests /\ ValidSandbox(resolved, req)

\* The supervisor that was extracted is one of those the configuration admits.
Chosen ==
    phase \in {"seed", "run spec", "run", "booted"} =>
        supervisor \in ({cfg.supervisorImage} \cup (IF cfg.explicit THEN {} ELSE {Defaults.pinned})) \ {Unset}

\* Every file that is to be written has been, once the seed was written.
Seeded ==
    /\ DOMAIN seed = ToSet(SeedFiles)
    /\ phase \in {"run spec", "run", "booted"} => \A f \in ToWrite : seed[f] = "new"

\* A VM runs what provisionInner has composed, from the digest in the record if there is one.
Booted ==
    IF phase = "booted"
    THEN vm = Boots(RunArgs(RunSpec), vm.digest) /\ (pinned # Unset => vm.digest = pinned)
    ELSE vm = Unset

IInv == Configured /\ Admitted /\ Chosen /\ Seeded /\ Booted /\ AdmittedIsProvisionable

-----------------------------------------------------------------------------
(* Functions, quantities and arguments.                                      *)

\* What one function has over another: its own entries, and the other's for the rest.
LEMMA Overrides ==
    ASSUME NEW f, NEW g
    PROVE /\ DOMAIN (f ++ g) = DOMAIN f \cup DOMAIN g
          /\ \A x \in DOMAIN f : (f ++ g)[x] = f[x]
          /\ \A x \in DOMAIN g \ DOMAIN f : (f ++ g)[x] = g[x]
  BY DEF ++

\* A quotient that is rounded up covers its dividend, and by less than one divisor.
LEMMA CeilDivCovers ==
    ASSUME NEW a \in Nat, NEW b \in Nat \ {0}
    PROVE /\ CeilDiv(a, b) \in Nat
          /\ Covers(Saturate(CeilDiv(a, b)), a, b)
          /\ a > 0 => Saturate(CeilDiv(a, b)) > 0
          /\ Saturate(CeilDiv(a, b)) \in Int
<1>1. CeilDiv(a, b) \in Nat /\ CeilDiv(a, b) * b >= a /\ (CeilDiv(a, b) - 1) * b < a
  BY DEF CeilDiv
<1>2. a > 0 => CeilDiv(a, b) > 0
  BY <1>1
<1>3. QED
  BY <1>1, <1>2, Bases DEF Covers, Saturate

\* An option among the arguments is found under its own flag and under no other.
LEMMA GivenMember ==
    ASSUME NEW args, NEW flag, NEW v
    PROVE v \in Given(args, flag) <=> \E a \in args : a[1] = flag /\ a[2] = v
  BY DEF Given

\* The arguments of a run carry each part of its specification under a flag of its own.
LEMMA ArgumentsGiven ==
    ASSUME NEW s
    PROVE /\ Given(RunArgs(s), "--volume") = s.volumes
          /\ Given(RunArgs(s), "--tmpfs") = s.tmpfs
          /\ Given(RunArgs(s), "--entrypoint") = {s.entrypoint}
          /\ Given(RunArgs(s), "--network") = IF s.network # Unset THEN {s.network} ELSE {}
          /\ Given(RunArgs(s), "--cpus") = IF s.cpus > 0 THEN {s.cpus} ELSE {}
          /\ Given(RunArgs(s), "--memory") = IF s.memory > 0 THEN {s.memory} ELSE {}
          /\ Given(RunArgs(s), "--env") = {<<n, s.env[n]>> : n \in DOMAIN s.env}
          /\ Given(RunArgs(s), "--label") = {<<l, s.labels[l]>> : l \in DOMAIN s.labels}
<1> DEFINE Is(x, flag, v) == x[1] = flag /\ x[2] = v
           Limit(n) == n > 0
<1>1. ASSUME NEW x
      PROVE x \in RunArgs(s) =>
                \/ Is(x, "image", s.image)
                \/ Is(x, "--entrypoint", s.entrypoint)
                \/ Is(x, "--network", s.network) /\ s.network # Unset
                \/ \E v \in s.volumes : Is(x, "--volume", v)
                \/ \E v \in s.tmpfs : Is(x, "--tmpfs", v)
                \/ \E n \in DOMAIN s.env : Is(x, "--env", <<n, s.env[n]>>)
                \/ \E n \in DOMAIN s.labels : Is(x, "--label", <<n, s.labels[n]>>)
                \/ Is(x, "--cpus", s.cpus) /\ Limit(s.cpus)
                \/ Is(x, "--memory", s.memory) /\ Limit(s.memory)
                \/ Is(x, "--kernel", s.kernel) /\ s.kernel # Unset
  BY DEF RunArgs, Option
<1>2. /\ <<"--entrypoint", s.entrypoint>> \in RunArgs(s)
      /\ s.network # Unset => <<"--network", s.network>> \in RunArgs(s)
      /\ \A v \in s.volumes : <<"--volume", v>> \in RunArgs(s)
      /\ \A v \in s.tmpfs : <<"--tmpfs", v>> \in RunArgs(s)
      /\ \A n \in DOMAIN s.env : <<"--env", <<n, s.env[n]>>>> \in RunArgs(s)
      /\ \A n \in DOMAIN s.labels : <<"--label", <<n, s.labels[n]>>>> \in RunArgs(s)
      /\ Limit(s.cpus) => <<"--cpus", s.cpus>> \in RunArgs(s)
      /\ Limit(s.memory) => <<"--memory", s.memory>> \in RunArgs(s)
  BY DEF RunArgs, Option
<1>3. ASSUME NEW flag, NEW v PROVE <<flag, v>> \in RunArgs(s) => v \in Given(RunArgs(s), flag)
  BY GivenMember
<1>4. ASSUME NEW flag, NEW v, v \in Given(RunArgs(s), flag) PROVE \E x \in RunArgs(s) : Is(x, flag, v)
  BY <1>4, GivenMember
<1> HIDE DEF Limit
<1>5. Given(RunArgs(s), "--volume") = s.volumes /\ Given(RunArgs(s), "--tmpfs") = s.tmpfs
  <2>1. s.volumes \subseteq Given(RunArgs(s), "--volume") /\ s.tmpfs \subseteq Given(RunArgs(s), "--tmpfs")
    BY <1>2, <1>3
  <2>2. Given(RunArgs(s), "--volume") \subseteq s.volumes
    BY <1>1, <1>4
  <2>3. Given(RunArgs(s), "--tmpfs") \subseteq s.tmpfs
    BY <1>1, <1>4
  <2>4. QED
    BY <2>1, <2>2, <2>3
<1>6. Given(RunArgs(s), "--entrypoint") = {s.entrypoint}
  BY <1>1, <1>2, <1>3, <1>4
<1>7. Given(RunArgs(s), "--network") = IF s.network # Unset THEN {s.network} ELSE {}
  BY <1>1, <1>2, <1>3, <1>4
<1>8. /\ Given(RunArgs(s), "--cpus") = IF Limit(s.cpus) THEN {s.cpus} ELSE {}
      /\ Given(RunArgs(s), "--memory") = IF Limit(s.memory) THEN {s.memory} ELSE {}
  BY <1>1, <1>2, <1>3, <1>4
<1>9. /\ Given(RunArgs(s), "--env") = {<<n, s.env[n]>> : n \in DOMAIN s.env}
      /\ Given(RunArgs(s), "--label") = {<<l, s.labels[l]>> : l \in DOMAIN s.labels}
  <2>1. /\ {<<n, s.env[n]>> : n \in DOMAIN s.env} \subseteq Given(RunArgs(s), "--env")
        /\ {<<l, s.labels[l]>> : l \in DOMAIN s.labels} \subseteq Given(RunArgs(s), "--label")
    BY <1>2, <1>3
  <2>2. ASSUME NEW v \in Given(RunArgs(s), "--env") PROVE \E n \in DOMAIN s.env : v = <<n, s.env[n]>>
    <3>1. PICK x \in RunArgs(s) : Is(x, "--env", v)
      BY <1>4
    <3>2. QED
      BY <1>1, <3>1
  <2>3. ASSUME NEW v \in Given(RunArgs(s), "--label") PROVE \E n \in DOMAIN s.labels : v = <<n, s.labels[n]>>
    <3>1. PICK x \in RunArgs(s) : Is(x, "--label", v)
      BY <1>4
    <3>2. QED
      BY <1>1, <3>1
  <2>4. QED
    BY <2>1, <2>2, <2>3
<1>10. QED
  BY <1>5, <1>6, <1>7, <1>8, <1>9 DEF Limit

\* The container command reads a map of names back from the pairs it is given one by one.
LEMMA PairsMakeMap ==
    ASSUME NEW args, NEW flag, NEW f, Given(args, flag) = {<<n, f[n]>> : n \in DOMAIN f}
    PROVE /\ DOMAIN GivenMap(args, flag) = DOMAIN f
          /\ \A n \in DOMAIN f : GivenMap(args, flag)[n] = f[n]
<1>1. {e[1] : e \in Given(args, flag)} = DOMAIN f
  <2>1. ASSUME NEW n \in DOMAIN f PROVE n \in {e[1] : e \in Given(args, flag)}
    <3>1. <<n, f[n]>> \in Given(args, flag) /\ <<n, f[n]>>[1] = n
      OBVIOUS
    <3>2. QED
      BY <3>1
  <2>2. ASSUME NEW e \in Given(args, flag) PROVE e[1] \in DOMAIN f
    <3>1. PICK n \in DOMAIN f : e = <<n, f[n]>>
      OBVIOUS
    <3>2. QED
      BY <3>1
  <2>3. QED
    BY <2>1, <2>2
<1>2. ASSUME NEW n \in DOMAIN f PROVE (CHOOSE e \in Given(args, flag) : e[1] = n)[2] = f[n]
  <2>1. <<n, f[n]>> \in Given(args, flag) /\ <<n, f[n]>>[1] = n
    OBVIOUS
  <2>2. ASSUME NEW e \in Given(args, flag), e[1] = n PROVE e[2] = f[n]
    BY <2>2
  <2>3. QED
    BY <2>1, <2>2
<1>3. QED
  BY <1>1, <1>2 DEF GivenMap

\* What the VM is, of what provisionInner has composed.
LEMMA BootedFields ==
    ASSUME NEW s, NEW d
    PROVE LET b == Boots(RunArgs(s), d)
          IN /\ b.supervisor = supervisor
             /\ b.network = s.network
             /\ b.volumes = s.volumes /\ b.tmpfs = s.tmpfs
             /\ b.entrypoint = s.entrypoint
             /\ b.cpus = IF s.cpus > 0 THEN s.cpus ELSE Unset
             /\ b.memory = IF s.memory > 0 THEN s.memory ELSE Unset
             /\ DOMAIN b.env = DOMAIN s.env /\ \A n \in DOMAIN s.env : b.env[n] = s.env[n]
             /\ DOMAIN b.labels = DOMAIN s.labels /\ \A l \in DOMAIN s.labels : b.labels[l] = s.labels[l]
<1>1. DOMAIN GivenMap(RunArgs(s), "--env") = DOMAIN s.env
      /\ \A n \in DOMAIN s.env : GivenMap(RunArgs(s), "--env")[n] = s.env[n]
  BY ArgumentsGiven, PairsMakeMap
<1>2. DOMAIN GivenMap(RunArgs(s), "--label") = DOMAIN s.labels
      /\ \A l \in DOMAIN s.labels : GivenMap(RunArgs(s), "--label")[l] = s.labels[l]
  BY ArgumentsGiven, PairsMakeMap
<1>3. ASSUME NEW f, NEW c, NEW v, Given(RunArgs(s), f) = IF c THEN {v} ELSE {}
      PROVE GivenOnce(RunArgs(s), f) = IF c THEN v ELSE Unset
  BY <1>3 DEF GivenOnce
<1>4. /\ GivenOnce(RunArgs(s), "--network") = s.network
      /\ GivenOnce(RunArgs(s), "--entrypoint") = s.entrypoint
      /\ GivenOnce(RunArgs(s), "--cpus") = IF s.cpus > 0 THEN s.cpus ELSE Unset
      /\ GivenOnce(RunArgs(s), "--memory") = IF s.memory > 0 THEN s.memory ELSE Unset
  <2>1. Given(RunArgs(s), "--entrypoint") = IF TRUE THEN {s.entrypoint} ELSE {}
    BY ArgumentsGiven
  <2>2. QED
    BY <1>3, <2>1, ArgumentsGiven, Zenon
<1>5. QED
  BY <1>1, <1>2, <1>4, ArgumentsGiven DEF Boots

-----------------------------------------------------------------------------
(* The environment, the labels and the mounts of a run.                      *)

\* The parts of the environment are functions; what each has for its names.
LEMMA GuestFilesAre ==
    /\ DOMAIN TLSFiles = {"OPENSHELL_TLS_CA", "OPENSHELL_TLS_CERT", "OPENSHELL_TLS_KEY"}
    /\ DOMAIN TokenFile = {"OPENSHELL_SANDBOX_TOKEN_FILE"}
    /\ DOMAIN GuestFiles = DOMAIN TLSFiles \cup DOMAIN TokenFile
    /\ \A n \in DOMAIN TLSFiles : GuestFiles[n] = TLSFiles[n]
    /\ \A n \in DOMAIN TokenFile : GuestFiles[n] = TokenFile[n]
<1>1. /\ DOMAIN TLSFiles = {"OPENSHELL_TLS_CA", "OPENSHELL_TLS_CERT", "OPENSHELL_TLS_KEY"}
      /\ DOMAIN TokenFile = {"OPENSHELL_SANDBOX_TOKEN_FILE"}
  BY DEF TLSFiles, TokenFile
<1>2. DOMAIN TLSFiles \cap DOMAIN TokenFile = {}
  BY <1>1
<1>3. QED
  BY <1>1, <1>2 DEF GuestFiles, ++

\* The environment is what comes first of the driver's own variables, the user's and the base's.
LEMMA EnvironmentIs ==
    LET own == DriverOwnedEnv
        user == UserEnv(req)
        env == RunSpec.env
    IN /\ \A n \in own \cap DOMAIN env : env[n].from # "user"
       /\ \A n \in DOMAIN user \ own : n \in DOMAIN env /\ env[n].value = user[n]
       /\ \A n \in DOMAIN env \cap DOMAIN GuestFiles :
            /\ env[n].value = GuestFiles[n]
            /\ n \in DOMAIN TokenFile => req.token # Unset
       /\ cfg.endpoint.scheme = "https" => DOMAIN TLSFiles \subseteq DOMAIN env
<1> DEFINE ofImage == [OPENSHELL_OCI_IMAGE_USER |-> [from |-> "image", value |-> Unset]]
           tls == IF cfg.endpoint.scheme = "https" THEN Files(TLSFiles) ELSE <<>>
           token == IF req.token # Unset THEN Files(TokenFile) ELSE <<>>
           always == Values(AlwaysSet, "driver")
           whole == IF KeptEnv(req) # <<>> THEN Values({"OPENSHELL_USER_ENVIRONMENT"}, "driver") ELSE <<>>
           kept == KeptEnv(req)
           base == Values({"HOME", "PATH", "TERM"}, "base")
<1>1. RunSpec.env = ofImage ++ (tls ++ token ++ always ++ whole ++ kept ++ base)
  BY DEF RunSpec, SandboxEnv
<1>2. DOMAIN ofImage = {"OPENSHELL_OCI_IMAGE_USER"} /\ ofImage["OPENSHELL_OCI_IMAGE_USER"].from = "image"
  OBVIOUS
<1>3. DOMAIN <<>> = {}
  OBVIOUS
<1>4. /\ DOMAIN tls \subseteq DOMAIN TLSFiles
      /\ cfg.endpoint.scheme = "https" => DOMAIN tls = DOMAIN TLSFiles
      /\ \A n \in DOMAIN tls : tls[n].from = "driver" /\ tls[n].value = TLSFiles[n]
  BY <1>3 DEF Files
<1>5. /\ DOMAIN token \subseteq DOMAIN TokenFile
      /\ DOMAIN token # {} => req.token # Unset
      /\ \A n \in DOMAIN token : token[n].from = "driver" /\ token[n].value = TokenFile[n]
  BY <1>3 DEF Files
<1>6. DOMAIN always = AlwaysSet /\ \A n \in AlwaysSet : always[n].from = "driver"
  BY DEF Values
<1>7. /\ DOMAIN whole \subseteq {"OPENSHELL_USER_ENVIRONMENT"}
      /\ \A n \in DOMAIN whole : whole[n].from = "driver"
  BY <1>3 DEF Values
<1>8. /\ DOMAIN kept = DOMAIN UserEnv(req) \ DriverOwnedEnv
      /\ \A n \in DOMAIN kept : kept[n].value = UserEnv(req)[n]
  BY DEF KeptEnv
<1>9. DOMAIN base = {"HOME", "PATH", "TERM"} /\ \A n \in DOMAIN base : base[n].from = "base"
  BY DEF Values
<1>10. /\ DOMAIN GuestFiles \subseteq DriverOwnedEnv /\ AlwaysSet \subseteq DriverOwnedEnv
       /\ {"OPENSHELL_OCI_IMAGE_USER", "OPENSHELL_USER_ENVIRONMENT"} \subseteq DriverOwnedEnv
       /\ DOMAIN GuestFiles \cap AlwaysSet = {}
       /\ DOMAIN GuestFiles \cap {"OPENSHELL_OCI_IMAGE_USER", "OPENSHELL_USER_ENVIRONMENT"} = {}
       /\ DOMAIN GuestFiles \cap {"HOME", "PATH", "TERM"} = {}
  BY GuestFilesAre DEF DriverOwnedEnv, AlwaysSet
<1> HIDE DEF ofImage, tls, token, always, whole, kept, base
<1>11. \A n \in DOMAIN RunSpec.env :
          \/ n \in DOMAIN ofImage /\ RunSpec.env[n] = ofImage[n]
          \/ n \in DOMAIN tls /\ RunSpec.env[n] = tls[n]
          \/ n \in DOMAIN token /\ RunSpec.env[n] = token[n]
          \/ n \in DOMAIN always /\ RunSpec.env[n] = always[n]
          \/ n \in DOMAIN whole /\ RunSpec.env[n] = whole[n]
          \/ n \in DOMAIN kept /\ RunSpec.env[n] = kept[n]
          \/ n \in DOMAIN base /\ RunSpec.env[n] = base[n]
  <2> DEFINE Of(f, n, v) == n \in DOMAIN f /\ v = f[n]
  <2>1. ASSUME NEW f, NEW g, NEW n, NEW v, Of(f ++ g, n, v) PROVE Of(f, n, v) \/ Of(g, n, v)
    <3>1. /\ n \in DOMAIN f \cup DOMAIN g
          /\ v = IF n \in DOMAIN f THEN f[n] ELSE g[n]
      BY <2>1 DEF ++
    <3>2. QED
      BY <3>1
  <2>2. ASSUME NEW n \in DOMAIN RunSpec.env
        PROVE Of(ofImage ++ (tls ++ token ++ always ++ whole ++ kept ++ base), n, RunSpec.env[n])
    BY <1>1
  <2> HIDE DEF Of
  <2>3. ASSUME NEW n \in DOMAIN RunSpec.env
        PROVE \E f \in {ofImage, tls, token, always, whole, kept, base} : Of(f, n, RunSpec.env[n])
    BY <2>1, <2>2
  <2>4. QED
    BY <2>3 DEF Of
<1>12. DOMAIN RunSpec.env = DOMAIN ofImage \cup DOMAIN tls \cup DOMAIN token \cup DOMAIN always
                             \cup DOMAIN whole \cup DOMAIN kept \cup DOMAIN base
  BY <1>1 DEF ++
<1>13. \A n \in DOMAIN kept \ DriverOwnedEnv : RunSpec.env[n] = kept[n]
  <2>1. ASSUME NEW n \in DOMAIN kept \ DriverOwnedEnv
        PROVE n \notin DOMAIN ofImage \cup DOMAIN tls \cup DOMAIN token \cup DOMAIN always \cup DOMAIN whole
    BY <1>2, <1>4, <1>5, <1>6, <1>7, <1>10, GuestFilesAre
  <2>2. QED
    BY <1>1, <2>1 DEF ++
<1>14. \A n \in DriverOwnedEnv \cap DOMAIN RunSpec.env : RunSpec.env[n].from # "user"
  BY <1>2, <1>4, <1>5, <1>6, <1>7, <1>8, <1>9, <1>11
<1>15. \A n \in DOMAIN UserEnv(req) \ DriverOwnedEnv :
            n \in DOMAIN RunSpec.env /\ RunSpec.env[n].value = UserEnv(req)[n]
  BY <1>8, <1>12, <1>13
<1>16. \A n \in DOMAIN RunSpec.env \cap DOMAIN GuestFiles :
            /\ RunSpec.env[n].value = GuestFiles[n]
            /\ n \in DOMAIN TokenFile => req.token # Unset
  <2>1. ASSUME NEW n \in DOMAIN RunSpec.env \cap DOMAIN GuestFiles
        PROVE \/ n \in DOMAIN tls /\ RunSpec.env[n] = tls[n]
              \/ n \in DOMAIN token /\ RunSpec.env[n] = token[n]
    BY <1>2, <1>6, <1>7, <1>8, <1>9, <1>10, <1>11
  <2>2. QED
    BY <2>1, <1>4, <1>5, GuestFilesAre
<1>17. QED
  BY <1>4, <1>12, <1>14, <1>15, <1>16

\* The driver's labels are the driver's.
LEMMA LabelsAre ==
    DriverLabels \subseteq DOMAIN RunSpec.labels /\ \A l \in DriverLabels : RunSpec.labels[l] = "driver"
<1>1. RunSpec.labels = [l \in DriverLabels |-> "driver"] ++ req.labels
  BY DEF RunSpec, Labels
<1>2. QED
  BY <1>1 DEF ++

\* A volume of the run is the seed's, or it is one of the request's.
LEMMA VolumesAre ==
    /\ \E v \in RunSpec.volumes : v.target = GuestSeedDir
    /\ \A v \in RunSpec.volumes :
        \/ v.source = SeedDir /\ v.target = GuestSeedDir /\ v.readOnly
        \/ \E m \in ToSet(req.driverConfig.mounts) :
            /\ m.type = "volume" /\ v.source = m.source /\ v.target = m.target
            /\ v.readOnly <=> m.readOnly # FALSE
<1> DEFINE own == [source |-> SeedDir, target |-> GuestSeedDir, readOnly |-> TRUE]
           Of(m) == [source |-> m.source, target |-> m.target, readOnly |-> m.readOnly # FALSE]
           volumes == {m \in ToSet(req.driverConfig.mounts) : m.type = "volume"}
<1>1. RunSpec.volumes = {own} \cup {Of(m) : m \in volumes}
  BY DEF RunSpec, Volumes
<1>2. own.source = SeedDir /\ own.target = GuestSeedDir /\ own.readOnly
  BY Zenon
<1>3. ASSUME NEW m
      PROVE Of(m).source = m.source /\ Of(m).target = m.target /\ (Of(m).readOnly <=> m.readOnly # FALSE)
  BY Zenon
<1>4. \A v \in RunSpec.volumes : v = own \/ \E m \in volumes : v = Of(m)
  BY <1>1
<1>5. own \in RunSpec.volumes
  BY <1>1
<1> HIDE DEF own, Of
<1>6. \A m \in volumes : m \in ToSet(req.driverConfig.mounts) /\ m.type = "volume"
  OBVIOUS
<1> HIDE DEF volumes
<1>7. \A v \in RunSpec.volumes :
        \/ v.source = SeedDir /\ v.target = GuestSeedDir /\ v.readOnly
        \/ \E m \in ToSet(req.driverConfig.mounts) :
            /\ m.type = "volume" /\ v.source = m.source /\ v.target = m.target
            /\ v.readOnly <=> m.readOnly # FALSE
  <2>1. ASSUME NEW v \in RunSpec.volumes, v = own
        PROVE v.source = SeedDir /\ v.target = GuestSeedDir /\ v.readOnly
    BY <1>2, <2>1, Zenon
  <2>2. ASSUME NEW v \in RunSpec.volumes, v # own
        PROVE \E m \in ToSet(req.driverConfig.mounts) :
                /\ m.type = "volume" /\ v.source = m.source /\ v.target = m.target
                /\ v.readOnly <=> m.readOnly # FALSE
    <3>1. PICK m \in volumes : v = Of(m)
      BY <1>4, <2>2, Zenon
    <3>2. /\ m \in ToSet(req.driverConfig.mounts)
          /\ m.type = "volume" /\ v.source = m.source /\ v.target = m.target
          /\ v.readOnly <=> m.readOnly # FALSE
      BY <1>3, <1>6, <3>1, Zenon
    <3>3. QED
      BY <3>2, Zenon
  <2>3. QED
    BY <2>1, <2>2, Zenon
<1>8. QED
  BY <1>2, <1>5, <1>7, Zenon

\* Every tmpfs is one of the request's.
LEMMA TmpfsAre == \A t \in RunSpec.tmpfs : \E m \in ToSet(req.driverConfig.mounts) : t = m.target
  BY DEF RunSpec, Tmpfs

\* What validateSandbox says of the mounts and the network of the request it admits.
LEMMA AdmittedMounts ==
    ASSUME ValidSandbox(resolved, req), NEW m \in ToSet(req.driverConfig.mounts)
    PROVE /\ \A r \in ReservedMountTargets : ~PathWithin(r, m.target)
          /\ m.type = "volume" =>
                /\ cfg.allowHostMounts
                /\ cfg.hostMountRoot # Unset => SourceWithinRoot(resolved, cfg.hostMountRoot, m.source)
<1>1. PICK k \in DOMAIN req.driverConfig.mounts : m = req.driverConfig.mounts[k]
  BY DEF ToSet
<1>2. ValidMountTarget(m.target)
  BY <1>1 DEF ValidSandbox, WellFormed
<1>3. m.type = "volume" =>
        /\ cfg.allowHostMounts
        /\ cfg.hostMountRoot # Unset => SourceWithinRoot(resolved, cfg.hostMountRoot, m.source)
  BY <1>1 DEF ValidSandbox, Permitted
<1>4. QED
  BY <1>2, <1>3 DEF ValidMountTarget

\* The network of a run is the operator's, or one that the operator lets requests name.
LEMMA AdmittedNetwork ==
    ASSUME ValidSandbox(resolved, req)
    PROVE RunSpec.network \in {cfg.network} \cup ToSet(cfg.allowedNetworks)
<1>1. RunSpec.network = IF req.driverConfig.network # Unset THEN req.driverConfig.network ELSE cfg.network
  BY DEF RunSpec, Override
<1>2. QED
  BY <1>1 DEF ValidSandbox, Permitted, NetworkAllowed

-----------------------------------------------------------------------------
(* The size of a run.                                                        *)

\* Every unit of memory is at least one byte.
LEMMA FactorIsPositive == ASSUME NEW x \in MemorySuffixes PROVE Factor(x) \in Nat \ {0}
<1>1. ASSUME NEW a \in Nat \ {0}, NEW b \in Nat \ {0} PROVE a * b \in Nat \ {0}
  OBVIOUS
<1>2. Mi \in Nat \ {0} /\ Kibi \in Nat \ {0} /\ Kilo \in Nat \ {0}
  BY <1>1, Bases DEF Mi
<1>3. /\ Mi * Kibi \in Nat \ {0} /\ Mi * Mi \in Nat \ {0}
      /\ Kilo * Kilo \in Nat \ {0} /\ Kilo * Kilo * Kilo \in Nat \ {0}
      /\ Kilo * Kilo * Kilo * Kilo \in Nat \ {0}
  BY <1>1, <1>2
<1>4. QED
  <2> DEFINE Positive == Nat \ {0}
  <2>1. 1 \in Positive
    OBVIOUS
  <2> HIDE DEF Positive
  <2>2. QED
    BY <1>2, <1>3, <2>1, Zenon DEF Factor, MemorySuffixes, Positive

\* The bytes a memory quantity stands for, and what a CPU is in the units of q, over q's denominator
Size(q) == q.num * Factor(q.suffix)
CPUUnit(q) == q.den * (IF q.suffix = "m" THEN Kilo ELSE 1)

\* What a quantity of an admitted request amounts to.
LEMMA CPUQuantityIs ==
    ASSUME NEW q, q = Unset \/ q = Malformed \/ (q.num \in Int /\ q.den \in Nat \ {0}),
           ParseCPUQuantity(q) # Error
    PROVE /\ q = Unset => ParseCPUQuantity(q) = 0
          /\ q # Unset /\ q.num > 0 => Covers(ParseCPUQuantity(q), q.num, CPUUnit(q)) /\ ParseCPUQuantity(q) > 0
          /\ ParseCPUQuantity(q) \in Int
<1>1. CASE q = Unset
  BY <1>1 DEF ParseCPUQuantity
<1>2. CASE q # Unset
  <2>1. q.num \in Nat /\ q.den \in Nat \ {0} /\ ParseCPUQuantity(q) = Saturate(CeilDiv(q.num, CPUUnit(q)))
    BY <1>2 DEF ParseCPUQuantity, CPUUnit
  <2>2. CPUUnit(q) \in Nat \ {0}
    <3>1. ASSUME NEW a \in Nat \ {0}, NEW b \in Nat \ {0} PROVE a * b \in Nat \ {0}
      OBVIOUS
    <3>2. QED
      BY <2>1, <3>1, Bases DEF CPUUnit
  <2>3. QED
    BY <1>2, <2>1, <2>2, CeilDivCovers
<1>3. QED
  BY <1>1, <1>2

\* The same of memory, in MiB.
LEMMA MemoryQuantityIs ==
    ASSUME NEW q,
           q = Unset \/ q = Malformed \/ (q.num \in Int /\ q.den \in Nat \ {0} /\ q.suffix \in MemorySuffixes),
           ParseMemoryQuantityMB(q) # Error
    PROVE /\ q = Unset => ParseMemoryQuantityMB(q) = 0
          /\ q # Unset /\ q.num > 0 =>
                Covers(ParseMemoryQuantityMB(q), Size(q), q.den * Mi) /\ ParseMemoryQuantityMB(q) > 0
          /\ ParseMemoryQuantityMB(q) \in Int
<1>1. CASE q = Unset
  BY <1>1 DEF ParseMemoryQuantityMB
<1>2. CASE q # Unset
  <2>1. /\ q.num \in Nat /\ q.den \in Nat \ {0} /\ q.suffix \in MemorySuffixes
        /\ ParseMemoryQuantityMB(q) = Saturate(CeilDiv(Size(q), q.den * Mi))
    BY <1>2 DEF ParseMemoryQuantityMB, Size
  <2>2. Size(q) \in Nat /\ q.den * Mi \in Nat \ {0} /\ (q.num > 0 => Size(q) > 0)
    <3>1. ASSUME NEW a \in Nat \ {0}, NEW b \in Nat \ {0} PROVE a * b \in Nat \ {0}
      OBVIOUS
    <3>2. Mi \in Nat \ {0} /\ Factor(q.suffix) \in Nat \ {0}
      BY <2>1, <3>1, FactorIsPositive, Bases DEF Mi
    <3>3. q.den * Mi \in Nat \ {0}
      BY <2>1, <3>1, <3>2
    <3>4. CASE q.num = 0
      BY <3>2, <3>3, <3>4 DEF Size
    <3>5. CASE q.num # 0
      BY <2>1, <3>1, <3>2, <3>3, <3>5 DEF Size
    <3>6. QED
      BY <3>4, <3>5
  <2>3. QED
    BY <1>2, <2>1, <2>2, CeilDivCovers
<1>3. QED
  BY <1>1, <1>2

-----------------------------------------------------------------------------
(* The inductive invariant.                                                  *)

\* What the settings resolve to.
LEMMA Resolved ==
    ASSUME NEW s \in Settings, Parse(s, Defaults) # Error,
           NEW c, c = ResolveSupervisorImage(Parse(s, Defaults), gateway)
    PROVE /\ {"endpoint", "supervisorImage", "explicit", "cpus", "memory"} \subseteq DOMAIN c
          /\ c.cpus \in Int /\ c.memory \in Int
          /\ c.explicit <=> {s.supervisorImage.flag, s.supervisorImage.env} # {NotSet}
          /\ c.supervisorImage =
                IF c.explicit
                THEN StringSetting(s.supervisorImage, Defaults.pinned)
                ELSE IF gateway = Unset THEN Defaults.pinned ELSE gateway
<1> DEFINE p == Parse(s, Defaults)
<1>1. /\ p.cpus = ParsedSetting(s.cpus, Defaults.cpus)
      /\ p.memory = Defaults.memory
      /\ p.supervisorImage = StringSetting(s.supervisorImage, Defaults.pinned)
      /\ {"endpoint", "supervisorImage", "explicit", "cpus", "memory"} \subseteq DOMAIN p
      /\ s.cpus.flag # Malformed
  BY Zenon DEF Parse
<1>2. p.explicit <=> {s.supervisorImage.flag, s.supervisorImage.env} # {NotSet}
  BY Zenon DEF Parse
<1>3. p.cpus \in Int /\ p.memory \in Int
  BY <1>1, NumbersAssumption DEF ParsedSetting
<1> HIDE DEF p
<1>4. CASE p.explicit \/ gateway = Unset
  <2>1. c = p
    BY <1>4 DEF ResolveSupervisorImage, p
  <2>2. ~p.explicit => p.supervisorImage = Defaults.pinned
    BY <1>1, <1>2 DEF StringSetting
  <2>3. QED
    BY <1>1, <1>2, <1>3, <1>4, <2>1, <2>2
<1>5. CASE ~(p.explicit \/ gateway = Unset)
  <2>1. c = [p EXCEPT !.supervisorImage = gateway]
    BY <1>5 DEF ResolveSupervisorImage, p
  <2>2. /\ DOMAIN c = DOMAIN p /\ c.supervisorImage = gateway
        /\ c.cpus = p.cpus /\ c.memory = p.memory /\ c.explicit = p.explicit
    BY <1>1, <2>1
  <2>3. QED
    BY <1>1, <1>2, <1>3, <1>5, <2>2
<1>6. QED
  BY <1>4, <1>5

\* The invariant holds at the start, and every step preserves each part of it.
LEMMA InvariantInit == Init => IInv
<1> SUFFICES ASSUME Init PROVE IInv
  OBVIOUS
<1>1. Configured /\ Admitted /\ Chosen /\ Booted /\ AdmittedIsProvisionable
  BY ReasonsAssumption
  DEF Init, Configured, Admitted, AtWork, Chosen, Booted, AdmittedIsProvisionable, Reasons
<1>2. Seeded
  BY DEF Init, Seeded
<1>3. QED
  BY <1>1, <1>2 DEF IInv

\* Which actions write what: the configuration is settled before there is a request, and what a step
\* of provisionInner leaves behind is not written by those after it.
LEMMA Frames ==
    ASSUME [Next]_vars
    PROVE /\ ~Configure /\ ~CompleteEndpoint =>
                UNCHANGED <<settings, cfg, gateway>> /\ (phase' = phase \/ phase \notin {"off", "refused"})
          /\ ~CreateSandbox =>
                (phase' \in AtWork => phase \in AtWork /\ UNCHANGED <<req, cfg, resolved>>)
          /\ ~EnsureSupervisor =>
                (phase' \in {"seed", "run spec", "run", "booted"} =>
                    phase \in {"seed", "run spec", "run", "booted"} /\ UNCHANGED <<supervisor, cfg>>)
          /\ ~WriteSeed /\ ~CreateSandbox =>
                /\ seed' = seed
                /\ phase' \in {"run spec", "run", "booted"} =>
                        phase \in {"run spec", "run", "booted"} /\ UNCHANGED <<req, cfg>>
          /\ ~Run => vm' = vm /\ (phase' = "booted" <=> phase = "booted")
          /\ phase = "booted" => UNCHANGED <<cfg, req, pinned, supervisor>>
          /\ ~FindImage /\ ~PrepareRun => why' # "request" \/ why' = why
<1> USE DEF Next, vars, start, create, paths, Goto, Fail, Proceed, Configure, Preflight, ListNetworks, StartRuntime,
        ListAgain, CreateNetwork, ListCreated, FindNetwork, CompleteEndpoint, CreateSandbox, ProvisionInner,
        FindImage, PullImage, FindPulledImage, InspectImage, PinDigest, EnsureSupervisor, WriteSeed,
        PrepareRun, Run, MoveTag, AssignAddress, Relink
<1>1. ~Configure /\ ~CompleteEndpoint =>
        UNCHANGED <<settings, cfg, gateway>> /\ (phase' = phase \/ phase \notin {"off", "refused"})
  OBVIOUS
<1>2. ~CreateSandbox => (phase' \in AtWork => phase \in AtWork /\ UNCHANGED <<req, cfg, resolved>>)
  BY DEF AtWork
<1>3. ~EnsureSupervisor =>
        (phase' \in {"seed", "run spec", "run", "booted"} =>
            phase \in {"seed", "run spec", "run", "booted"} /\ UNCHANGED <<supervisor, cfg>>)
  OBVIOUS
<1>4. ~WriteSeed /\ ~CreateSandbox =>
        /\ seed' = seed
        /\ phase' \in {"run spec", "run", "booted"} =>
                phase \in {"run spec", "run", "booted"} /\ UNCHANGED <<req, cfg>>
  OBVIOUS
<1>5. ~Run => vm' = vm /\ (phase' = "booted" <=> phase = "booted")
  OBVIOUS
<1>6. phase = "booted" => UNCHANGED <<cfg, req, pinned, supervisor>>
  OBVIOUS
<1>7. ~FindImage /\ ~PrepareRun => why' # "request" \/ why' = why
  OBVIOUS
<1>8. QED
  BY <1>1, <1>2, <1>3, <1>4, <1>5, <1>6, <1>7

LEMMA ConfiguredStep == IInv /\ [Next]_vars => Configured'
<1> SUFFICES ASSUME IInv, [Next]_vars PROVE Configured'
  OBVIOUS
<1> USE DEF IInv, Configured
<1>1. CASE Configure
  <2>1. CASE Parse(settings', Defaults) = Error
    BY <1>1, <2>1 DEF Configure, Goto
  <2>2. CASE Parse(settings', Defaults) # Error
    <3>1. /\ settings' \in Settings /\ gateway' = gateway
          /\ cfg' = ResolveSupervisorImage(Parse(settings', Defaults), gateway)
      BY <1>1, <2>2 DEF Configure
    <3>2. QED
      BY <2>2, <3>1, Resolved DEF ConfiguredFor
  <2>3. QED
    BY <2>1, <2>2
<1>2. CASE CompleteEndpoint
  <2>1. PICK e : cfg' = [cfg EXCEPT !.endpoint = e]
    BY <1>2 DEF CompleteEndpoint
  <2>2. phase = "endpoint" /\ UNCHANGED <<settings, gateway>>
    BY <1>2 DEF CompleteEndpoint
  <2>3. ConfiguredFor
    BY <2>2
  <2>4. /\ DOMAIN cfg' = DOMAIN cfg /\ cfg'.cpus = cfg.cpus /\ cfg'.memory = cfg.memory
        /\ cfg'.explicit = cfg.explicit /\ cfg'.supervisorImage = cfg.supervisorImage
    BY <2>1, <2>3 DEF ConfiguredFor
  <2>5. QED
    BY <2>2, <2>3, <2>4 DEF ConfiguredFor
<1>3. CASE ~Configure /\ ~CompleteEndpoint
  <2>1. UNCHANGED <<settings, cfg, gateway>> /\ (phase' = phase \/ phase \notin {"off", "refused"})
    BY <1>3, Frames
  <2>2. QED
    BY <2>1 DEF ConfiguredFor
<1>4. QED
  BY <1>1, <1>2, <1>3

LEMMA AdmittedStep == IInv /\ [Next]_vars => Admitted'
<1> SUFFICES ASSUME IInv, [Next]_vars PROVE Admitted'
  OBVIOUS
<1> USE DEF IInv, Admitted
<1>1. CASE CreateSandbox
  <2>1. PICK r \in Requests :
            /\ req' = r /\ resolved' = fs
            /\ phase' = IF ~ValidSandbox(fs, r) THEN "invalid"
                       ELSE IF cfg.endpoint = Unset THEN "precondition" ELSE "inspect"
    BY <1>1 DEF CreateSandbox, Goto
  <2>2. cfg' = cfg
    BY <1>1 DEF CreateSandbox, start
  <2>3. phase' \in AtWork => ValidSandbox(fs, r)
    BY <2>1 DEF AtWork
  <2>4. QED
    BY <2>1, <2>2, <2>3 DEF ValidSandbox
<1>2. CASE ~CreateSandbox
  <2>1. phase' \in AtWork => phase \in AtWork /\ UNCHANGED <<req, cfg, resolved>>
    BY <1>2, Frames
  <2>2. QED
    BY <2>1 DEF ValidSandbox
<1>3. QED
  BY <1>1, <1>2

LEMMA ChosenStep == IInv /\ [Next]_vars => Chosen'
<1> SUFFICES ASSUME IInv, [Next]_vars PROVE Chosen'
  OBVIOUS
<1> USE DEF IInv, Chosen
<1>1. CASE EnsureSupervisor
  BY <1>1 DEF EnsureSupervisor, start, Proceed, Fail
<1>2. CASE ~EnsureSupervisor
  <2> DEFINE Extracted == {"seed", "run spec", "run", "booted"}
  <2>1. phase' \in Extracted => phase \in Extracted /\ UNCHANGED <<supervisor, cfg>>
    BY <1>2, Frames
  <2>2. QED
    BY <2>1
<1>3. QED
  BY <1>1, <1>2

LEMMA SeededStep == IInv /\ [Next]_vars => Seeded'
<1> SUFFICES ASSUME IInv, [Next]_vars PROVE Seeded'
  OBVIOUS
<1> USE DEF IInv, Seeded
<1>1. CASE WriteSeed
  <2>1. ASSUME NEW S PROVE DOMAIN Written(S) = DOMAIN seed /\ \A f \in S \cap DOMAIN seed : Written(S)[f] = "new"
    BY DEF Written
  <2>2. ToWrite' = ToWrite /\ ToWrite \subseteq ToSet(SeedFiles)
    BY <1>1 DEF WriteSeed, start, ToWrite
  <2>3. CASE seed' = Written(ToWrite)
    BY <2>1, <2>2, <2>3
  <2>4. CASE phase' = "failed" /\ \E S : seed' = Written(S)
    BY <2>1, <2>4
  <2>5. QED
    BY <1>1, <2>3, <2>4 DEF WriteSeed, Fail
<1>2. CASE CreateSandbox
  <2>1. phase' \in {"invalid", "precondition", "inspect"} /\ DOMAIN seed' = DOMAIN seed
    BY <1>2 DEF CreateSandbox, Goto
  <2>2. QED
    BY <2>1
<1>3. CASE ~WriteSeed /\ ~CreateSandbox
  <2> DEFINE Ready == {"run spec", "run", "booted"}
  <2>1. seed' = seed /\ (phase' \in Ready => phase \in Ready /\ UNCHANGED <<req, cfg>>)
    BY <1>3, Frames
  <2>2. QED
    BY <2>1 DEF ToWrite
<1>4. QED
  BY <1>1, <1>2, <1>3

\* What is run depends on the configuration, the request and the record alone.
LEMMA RunSpecStays ==
    ASSUME UNCHANGED <<cfg, req, pinned>>
    PROVE RunSpec' = RunSpec
  BY DEF RunSpec, ImageRef, Override, Volumes, SeedDir, Tmpfs, SandboxEnv, KeptEnv, UserEnv, Labels, CPUs, Memory, Sized

LEMMA BootedStep == IInv /\ [Next]_vars => Booted'
<1> SUFFICES ASSUME IInv, [Next]_vars PROVE Booted'
  OBVIOUS
<1> USE DEF IInv, Booted
<1>1. CASE Run
  <2>1. CASE phase' = "failed" /\ vm' = vm
    BY <1>1, <2>1 DEF Run
  <2>2. CASE phase' = "booted"
    <3>1. UNCHANGED <<cfg, req, pinned, supervisor>> /\ phase = "run"
      BY <1>1 DEF Run, start
    <3>2. RunSpec' = RunSpec
      BY <3>1, RunSpecStays
    <3>3. PICK d \in IF RunSpec.image.digest # Unset THEN {RunSpec.image.digest} ELSE {image} \ {Unset} :
                vm' = Boots(RunArgs(RunSpec), d)
      BY <1>1, <2>2 DEF Run, Fail
    <3>4. RunSpec.image.digest = pinned
      BY DEF RunSpec
    <3>5. vm'.digest = d
      BY <3>3 DEF Boots
    <3>6. (vm = Boots(RunArgs(RunSpec), vm.digest))'
      BY <3>1, <3>2, <3>3, <3>5 DEF Boots
    <3>7. (pinned # Unset => vm.digest = pinned)'
      BY <3>1, <3>3, <3>4, <3>5
    <3>8. QED
      BY <2>2, <3>6, <3>7
  <2>3. QED
    BY <1>1, <2>1, <2>2 DEF Run, Fail, Proceed
<1>2. CASE ~Run
  <2>1. vm' = vm /\ (phase' = "booted" <=> phase = "booted")
    BY <1>2, Frames
  <2>2. phase = "booted" => UNCHANGED <<cfg, req, pinned, supervisor>>
    BY <1>2, Frames
  <2>3. CASE phase = "booted"
    <3>1. RunSpec' = RunSpec /\ UNCHANGED <<vm, pinned, supervisor>>
      BY <2>1, <2>2, <2>3, RunSpecStays
    <3>2. QED
      BY <2>1, <2>3, <3>1 DEF Boots
  <2>4. QED
    BY <2>1, <2>3
<1>3. QED
  BY <1>1, <1>2

\* The numbers of an admitted request parse, and are numbers.
LEMMA AdmittedNumbers ==
    ASSUME req \in Requests, ValidSandbox(resolved, req), ConfiguredFor
    PROVE /\ \A q \in {req.cpuRequest, req.cpuLimit} :
                /\ q = Unset => ParseCPUQuantity(q) = 0
                /\ q # Unset /\ q.num > 0 =>
                    Covers(ParseCPUQuantity(q), q.num, CPUUnit(q)) /\ ParseCPUQuantity(q) > 0
                /\ ParseCPUQuantity(q) \in Int
          /\ \A q \in {req.memoryRequest, req.memoryLimit} :
                /\ q = Unset => ParseMemoryQuantityMB(q) = 0
                /\ q # Unset /\ q.num > 0 =>
                    Covers(ParseMemoryQuantityMB(q), Size(q), q.den * Mi) /\ ParseMemoryQuantityMB(q) > 0
                /\ ParseMemoryQuantityMB(q) \in Int
          /\ CPUs \in Int /\ Memory \in Int
<1>1. ASSUME NEW q \in {req.cpuRequest, req.cpuLimit}
      PROVE (q = Unset \/ q = Malformed \/ (q.num \in Int /\ q.den \in Nat \ {0})) /\ ParseCPUQuantity(q) # Error
  BY NumbersAssumption DEF ValidSandbox
<1>2. ASSUME NEW q \in {req.memoryRequest, req.memoryLimit}
      PROVE /\ q = Unset \/ q = Malformed \/ (q.num \in Int /\ q.den \in Nat \ {0} /\ q.suffix \in MemorySuffixes)
            /\ ParseMemoryQuantityMB(q) # Error
  BY NumbersAssumption DEF ValidSandbox
<1>3. ASSUME NEW q \in {req.cpuRequest, req.cpuLimit}
      PROVE /\ q = Unset => ParseCPUQuantity(q) = 0
            /\ q # Unset /\ q.num > 0 =>
                    Covers(ParseCPUQuantity(q), q.num, CPUUnit(q)) /\ ParseCPUQuantity(q) > 0
            /\ ParseCPUQuantity(q) \in Int
  BY <1>1, CPUQuantityIs
<1>4. ASSUME NEW q \in {req.memoryRequest, req.memoryLimit}
      PROVE /\ q = Unset => ParseMemoryQuantityMB(q) = 0
            /\ q # Unset /\ q.num > 0 =>
                    Covers(ParseMemoryQuantityMB(q), Size(q), q.den * Mi) /\ ParseMemoryQuantityMB(q) > 0
            /\ ParseMemoryQuantityMB(q) \in Int
  BY <1>2, MemoryQuantityIs
<1>5. CPUs \in Int /\ Memory \in Int
  BY <1>3, <1>4 DEF CPUs, Memory, Sized, FirstQuantity, ConfiguredFor
<1>6. QED
  BY <1>3, <1>4, <1>5

LEMMA AdmittedIsProvisionableStep == IInv /\ [Next]_vars => AdmittedIsProvisionable'
<1> SUFFICES ASSUME IInv, [Next]_vars PROVE AdmittedIsProvisionable'
  OBVIOUS
<1> USE DEF IInv, AdmittedIsProvisionable
<1>1. CASE FindImage
  <2>1. phase \in {"inspect"} => ValidSandbox(resolved, req)
    BY DEF Admitted, AtWork
  <2>2. ~(phase = "inspect" /\ ~(req.driverConfig # Malformed /\ WellFormed(req.driverConfig)))
    BY <2>1 DEF ValidSandbox
  <2>3. QED
    BY <1>1, <2>2 DEF FindImage, InspectImage, Proceed, Fail
<1>2. CASE PrepareRun
  <2>1. req \in Requests /\ ValidSandbox(resolved, req) /\ ConfiguredFor
    BY <1>2 DEF PrepareRun, Admitted, AtWork, Configured
  <2>2. Error \notin {CPUs, Memory}
    BY <2>1, AdmittedNumbers, NumbersAssumption
  <2>3. QED
    BY <1>2, <2>2 DEF PrepareRun, Proceed, Fail
<1>3. CASE ~FindImage /\ ~PrepareRun
  BY <1>3, Frames
<1>4. QED
  BY <1>1, <1>2, <1>3

\* The inductive invariant holds throughout.
THEOREM Invariant == Spec => []IInv
<1>1. IInv /\ [Next]_vars => IInv'
  BY ConfiguredStep, AdmittedStep, ChosenStep, SeededStep, BootedStep, AdmittedIsProvisionableStep DEF IInv
<1>2. QED
  BY <1>1, InvariantInit, PTL DEF Spec

-----------------------------------------------------------------------------
(* What it says of a VM.                                                     *)

\* A VM was composed from an admitted request, and what it is are the parts of that composition.
LEMMA VmIs ==
    ASSUME IInv, vm # Unset
    PROVE /\ req \in Requests /\ ValidSandbox(resolved, req) /\ ConfiguredFor
          /\ vm.supervisor \in ({cfg.supervisorImage} \cup (IF cfg.explicit THEN {} ELSE {Defaults.pinned})) \ {Unset}
          /\ DOMAIN seed = ToSet(SeedFiles) /\ \A f \in ToWrite : seed[f] = "new"
          /\ vm.network = RunSpec.network
          /\ vm.volumes = RunSpec.volumes /\ vm.tmpfs = RunSpec.tmpfs
          /\ vm.entrypoint = "boot.sh"
          /\ vm.cpus = IF CPUs > 0 THEN CPUs ELSE Unset
          /\ vm.memory = IF Memory > 0 THEN Memory ELSE Unset
          /\ DOMAIN vm.env = DOMAIN RunSpec.env /\ \A n \in DOMAIN vm.env : vm.env[n] = RunSpec.env[n]
          /\ DOMAIN vm.labels = DOMAIN RunSpec.labels
          /\ \A l \in DOMAIN vm.labels : vm.labels[l] = RunSpec.labels[l]
<1>1. phase = "booted" /\ vm = Boots(RunArgs(RunSpec), vm.digest)
  BY DEF IInv, Booted
<1>2. /\ req \in Requests /\ ValidSandbox(resolved, req) /\ ConfiguredFor
      /\ supervisor \in ({cfg.supervisorImage} \cup (IF cfg.explicit THEN {} ELSE {Defaults.pinned})) \ {Unset}
      /\ DOMAIN seed = ToSet(SeedFiles) /\ \A f \in ToWrite : seed[f] = "new"
  BY <1>1 DEF IInv, Configured, Admitted, AtWork, Chosen, Seeded
<1>3. PICK s : s = RunSpec
  OBVIOUS
<1>4. s.entrypoint = "boot.sh" /\ s.cpus = CPUs /\ s.memory = Memory
  BY <1>3 DEF RunSpec
<1>5. vm = Boots(RunArgs(s), vm.digest)
  BY <1>1, <1>3
<1>6. QED
  BY <1>2, <1>3, <1>4, <1>5, BootedFields

\* The content of a VM is what its record names, for any images, tags and interleaving.
THEOREM RunsWhatItRecordsCorrect == Spec => []RunsWhatItRecords
<1>1. IInv => RunsWhatItRecords
  BY DEF IInv, Booted, RunsWhatItRecords
<1>2. QED
  BY <1>1, Invariant, PTL

\* Nothing that validateSandbox admits is refused by provisionInner as malformed.
THEOREM AdmittedIsProvisionableCorrect == Spec => []AdmittedIsProvisionable
<1>1. IInv => AdmittedIsProvisionable
  BY DEF IInv
<1>2. QED
  BY <1>1, Invariant, PTL

\* The supervisor of a VM is the operator's choice, or else the gateway's release or the pinned one.
THEOREM SupervisorIsChosenCorrect == Spec => []SupervisorIsChosen
<1>1. ASSUME IInv PROVE SupervisorIsChosen
  <2> SUFFICES ASSUME vm # Unset
               PROVE LET s == settings.supervisorImage
                     IN IF s.flag # NotSet THEN vm.supervisor = s.flag
                        ELSE IF s.env # NotSet THEN vm.supervisor = s.env
                        ELSE vm.supervisor \in {gateway, Defaults.pinned} \ {Unset}
    BY DEF SupervisorIsChosen
  <2>1. /\ ConfiguredFor
        /\ vm.supervisor \in ({cfg.supervisorImage} \cup (IF cfg.explicit THEN {} ELSE {Defaults.pinned})) \ {Unset}
    BY <1>1, VmIs
  <2>2. QED
    BY <2>1 DEF ConfiguredFor, StringSetting
<1>2. QED
  BY <1>1, Invariant, PTL

\* No request takes a variable or a label of the driver's, and each keeps all its other variables.
THEOREM IdentityIsTheDriversCorrect == Spec => []IdentityIsTheDrivers
<1>1. ASSUME IInv PROVE IdentityIsTheDrivers
  <2> SUFFICES ASSUME vm # Unset
               PROVE /\ \A n \in DriverOwnedEnv \cap DOMAIN vm.env : vm.env[n].from # "user"
                     /\ \A l \in DriverLabels : vm.labels[l] = "driver"
                     /\ \A n \in DOMAIN UserEnv(req) \ DriverOwnedEnv : vm.env[n].value = UserEnv(req)[n]
    BY DEF IdentityIsTheDrivers, UserEnv, ++
  <2>1. \A n \in DriverOwnedEnv \cap DOMAIN vm.env : vm.env[n].from # "user"
    BY <1>1, VmIs, EnvironmentIs
  <2>2. \A l \in DriverLabels : vm.labels[l] = "driver"
    BY <1>1, VmIs, LabelsAre
  <2>3. \A n \in DOMAIN UserEnv(req) \ DriverOwnedEnv : vm.env[n].value = UserEnv(req)[n]
    BY <1>1, VmIs, EnvironmentIs
  <2>4. QED
    BY <2>1, <2>2, <2>3
<1>2. QED
  BY <1>1, Invariant, PTL

\* A VM mounts and joins only what the operator admits, whatever the request and the host's links
\* are: of a path that is what it led to when the request was validated.
THEOREM MountsArePermittedCorrect == Spec => []MountsArePermitted
<1>1. ASSUME IInv, vm # Unset
      PROVE /\ vm.network \in {cfg.network} \cup ToSet(cfg.allowedNetworks)
            /\ \A v \in vm.volumes : v.source # SeedDir =>
                /\ cfg.allowHostMounts
                /\ cfg.hostMountRoot # Unset => SourceWithinRoot(resolved, cfg.hostMountRoot, v.source)
                /\ ~v.readOnly => \E m \in ToSet(req.driverConfig.mounts) : m.target = v.target /\ m.readOnly = FALSE
            /\ \A t \in {v.target : v \in {x \in vm.volumes : x.source # SeedDir}} \cup vm.tmpfs :
                \A r \in ReservedMountTargets : ~PathWithin(r, t)
  <2>1. /\ ValidSandbox(resolved, req)
        /\ vm.network = RunSpec.network /\ vm.volumes = RunSpec.volumes /\ vm.tmpfs = RunSpec.tmpfs
    BY <1>1, VmIs
  <2>2. ASSUME NEW v \in vm.volumes, v.source # SeedDir
        PROVE \E m \in ToSet(req.driverConfig.mounts) :
                /\ m.type = "volume" /\ v.source = m.source /\ v.target = m.target
                /\ v.readOnly <=> m.readOnly # FALSE
    BY <2>1, <2>2, VolumesAre, Zenon
  <2>3. ASSUME NEW v \in vm.volumes, v.source # SeedDir
        PROVE /\ cfg.allowHostMounts
              /\ cfg.hostMountRoot # Unset => SourceWithinRoot(resolved, cfg.hostMountRoot, v.source)
              /\ ~v.readOnly => \E m \in ToSet(req.driverConfig.mounts) : m.target = v.target /\ m.readOnly = FALSE
              /\ \A r \in ReservedMountTargets : ~PathWithin(r, v.target)
    <3>1. PICK m \in ToSet(req.driverConfig.mounts) :
            /\ m.type = "volume" /\ v.source = m.source /\ v.target = m.target
            /\ v.readOnly <=> m.readOnly # FALSE
      BY <2>2, <2>3, Zenon
    <3>2. /\ cfg.allowHostMounts
          /\ cfg.hostMountRoot # Unset => SourceWithinRoot(resolved, cfg.hostMountRoot, m.source)
          /\ \A r \in ReservedMountTargets : ~PathWithin(r, m.target)
      BY <2>1, <3>1, AdmittedMounts, Zenon
    <3>3. ~v.readOnly => m.target = v.target /\ m.readOnly = FALSE
      BY <3>1, Zenon
    <3>4. QED
      BY <3>1, <3>2, <3>3, Zenon
  <2>4. ASSUME NEW t \in vm.tmpfs PROVE \A r \in ReservedMountTargets : ~PathWithin(r, t)
    BY <2>1, TmpfsAre, AdmittedMounts
  <2>5. vm.network \in {cfg.network} \cup ToSet(cfg.allowedNetworks)
    BY <2>1, AdmittedNetwork
  <2>6. QED
    BY <2>3, <2>4, <2>5
<1>2. IInv => MountsArePermitted
  BY <1>1 DEF MountsArePermitted
<1>3. QED
  BY <1>2, Invariant, PTL

\* Every file that the environment of a guest names was written for it, and nothing is mounted over it.
THEOREM GuestFindsItsMaterialCorrect == Spec => []GuestFindsItsMaterial
<1>1. ASSUME IInv, vm # Unset
      PROVE /\ \A n \in DOMAIN vm.env \cap DOMAIN GuestFiles : seed[vm.env[n].value] = "new"
            /\ {seed[vm.entrypoint], seed["openshell-sandbox"]} = {"new"}
            /\ cfg.endpoint.scheme = "https" => DOMAIN TLSFiles \subseteq DOMAIN vm.env
            /\ \A v \in vm.volumes : PathWithin(GuestSeedDir, v.target) => v.source = SeedDir /\ v.readOnly
            /\ \E v \in vm.volumes : v.target = GuestSeedDir
            /\ \A t \in vm.tmpfs : ~PathWithin(GuestSeedDir, t)
  <2>1. /\ ValidSandbox(resolved, req) /\ \A f \in ToWrite : seed[f] = "new"
        /\ vm.volumes = RunSpec.volumes /\ vm.tmpfs = RunSpec.tmpfs /\ vm.entrypoint = "boot.sh"
        /\ DOMAIN vm.env = DOMAIN RunSpec.env /\ \A n \in DOMAIN vm.env : vm.env[n] = RunSpec.env[n]
    BY <1>1, VmIs
  <2>2. ToSet(SeedFiles) = {"openshell-sandbox", "boot.sh", "tls/ca.crt", "tls/tls.crt", "tls/tls.key",
                            "auth/sandbox.jwt", "policy.yaml"}
    BY DEF SeedFiles, ToSet
  <2>3. /\ {"openshell-sandbox", "boot.sh", "tls/ca.crt", "tls/tls.crt", "tls/tls.key"} \subseteq ToWrite
        /\ req.token # Unset => "auth/sandbox.jwt" \in ToWrite
    BY <2>2 DEF ToWrite
  <2>4. ASSUME NEW n \in DOMAIN vm.env \cap DOMAIN GuestFiles PROVE seed[vm.env[n].value] = "new"
    <3>1. vm.env[n].value = GuestFiles[n] /\ (n \in DOMAIN TokenFile => req.token # Unset)
      BY <2>1, EnvironmentIs
    <3>2. GuestFiles[n] \in ToWrite
      <4>1. CASE n \in DOMAIN TLSFiles
        <5>1. TLSFiles[n] \in {"tls/ca.crt", "tls/tls.crt", "tls/tls.key"}
          BY <4>1 DEF TLSFiles
        <5>2. QED
          BY <2>3, <4>1, <5>1, GuestFilesAre
      <4>2. CASE n \in DOMAIN TokenFile
        <5>1. TokenFile[n] = "auth/sandbox.jwt"
          BY <4>2 DEF TokenFile
        <5>2. QED
          BY <2>3, <3>1, <4>2, <5>1, GuestFilesAre
      <4>3. QED
        BY <4>1, <4>2, GuestFilesAre
    <3>3. QED
      BY <2>1, <3>1, <3>2
  <2>5. {seed[vm.entrypoint], seed["openshell-sandbox"]} = {"new"}
    BY <2>1, <2>3
  <2>6. cfg.endpoint.scheme = "https" => DOMAIN TLSFiles \subseteq DOMAIN vm.env
    BY <2>1, EnvironmentIs
  <2>7. GuestSeedDir \in ReservedMountTargets
    BY DEF ReservedMountTargets
  <2>8. ASSUME NEW v \in vm.volumes, PathWithin(GuestSeedDir, v.target) PROVE v.source = SeedDir /\ v.readOnly
    <3>1. ASSUME NEW m \in ToSet(req.driverConfig.mounts) PROVE v.target # m.target
      BY <2>1, <2>7, <2>8, AdmittedMounts, Zenon
    <3>2. v \in RunSpec.volumes
      BY <2>1
    <3>3. \/ v.source = SeedDir /\ v.target = GuestSeedDir /\ v.readOnly
          \/ \E m \in ToSet(req.driverConfig.mounts) : v.target = m.target
      BY <3>2, VolumesAre, Zenon
    <3>4. QED
      BY <3>1, <3>3, Zenon
  <2>9. \E v \in vm.volumes : v.target = GuestSeedDir
    BY <2>1, VolumesAre, Zenon
  <2>10. \A t \in vm.tmpfs : ~PathWithin(GuestSeedDir, t)
    BY <2>1, <2>7, TmpfsAre, AdmittedMounts
  <2>11. QED
    BY <2>4, <2>5, <2>6, <2>8, <2>9, <2>10
<1>2. IInv => GuestFindsItsMaterial
  BY <1>1 DEF GuestFindsItsMaterial
<1>3. QED
  BY <1>2, Invariant, PTL

\* The size of a VM covers what was asked by less than one unit, a limit before a request and a
\* request before the default, for quantities of any value and unit.
THEOREM SizedAsAskedCorrect == Spec => []SizedAsAsked
<1>1. ASSUME IInv, vm # Unset
      PROVE /\ \A q \in {req.cpuLimit} \ {Unset} : q.num > 0 => Covers(vm.cpus, q.num, CPUUnit(q))
            /\ \A q \in {req.memoryLimit} \ {Unset} : q.num > 0 => Covers(vm.memory, Size(q), q.den * Mi)
            /\ req.memoryLimit = Unset =>
                \A q \in {req.memoryRequest} \ {Unset} : q.num > 0 => Covers(vm.memory, Size(q), q.den * Mi)
            /\ {req.cpuLimit, req.cpuRequest} = {Unset} => vm.cpus = (IF cfg.cpus > 0 THEN cfg.cpus ELSE Unset)
  <2>1. /\ req \in Requests /\ ValidSandbox(resolved, req) /\ ConfiguredFor
        /\ vm.cpus = IF CPUs > 0 THEN CPUs ELSE Unset
        /\ vm.memory = IF Memory > 0 THEN Memory ELSE Unset
    BY <1>1, VmIs
  <2>2. ASSUME req.cpuLimit # Unset, req.cpuLimit.num > 0
        PROVE Covers(vm.cpus, req.cpuLimit.num, CPUUnit(req.cpuLimit))
    <3>1. CPUs = ParseCPUQuantity(req.cpuLimit) /\ CPUs > 0
      BY <2>1, <2>2, AdmittedNumbers DEF CPUs, Sized, FirstQuantity
    <3>2. QED
      BY <2>1, <2>2, <3>1, AdmittedNumbers
  <2>3. ASSUME req.memoryLimit # Unset, req.memoryLimit.num > 0
        PROVE Covers(vm.memory, Size(req.memoryLimit), req.memoryLimit.den * Mi)
    <3>1. Memory = ParseMemoryQuantityMB(req.memoryLimit) /\ Memory > 0
      BY <2>1, <2>3, AdmittedNumbers DEF Memory, Sized, FirstQuantity
    <3>2. QED
      BY <2>1, <2>3, <3>1, AdmittedNumbers
  <2>4. ASSUME req.memoryLimit = Unset, req.memoryRequest # Unset, req.memoryRequest.num > 0
        PROVE Covers(vm.memory, Size(req.memoryRequest), req.memoryRequest.den * Mi)
    <3>1. Memory = ParseMemoryQuantityMB(req.memoryRequest) /\ Memory > 0
      BY <2>1, <2>4, AdmittedNumbers DEF Memory, Sized, FirstQuantity
    <3>2. QED
      BY <2>1, <2>4, <3>1, AdmittedNumbers
  <2>5. ASSUME {req.cpuLimit, req.cpuRequest} = {Unset}
        PROVE vm.cpus = (IF cfg.cpus > 0 THEN cfg.cpus ELSE Unset)
    <3>1. CPUs = cfg.cpus
      BY <2>1, <2>5, AdmittedNumbers DEF CPUs, Sized, FirstQuantity
    <3>2. QED
      BY <2>1, <3>1
  <2>6. QED
    BY <2>2, <2>3, <2>4, <2>5
<1>2. IInv => SizedAsAsked
  BY <1>1 DEF SizedAsAsked, Size, CPUUnit
<1>3. QED
  BY <1>2, Invariant, PTL
===============================================================================

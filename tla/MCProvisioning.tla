---------------------------- MODULE MCProvisioning ----------------------------
(* Instances of Provisioning for TLC: a plain start and a plain request, and *)
(* the ones that differ from them in what one property is about.             *)
EXTENDS Provisioning

Nothing == [flag |-> NotSet, env |-> NotSet]
Flag(v) == [flag |-> v, env |-> NotSet]
Env(v) == [flag |-> NotSet, env |-> v]
Endpoint(scheme, host) == [scheme |-> scheme, host |-> host]

Srv == Absolute(<<"srv">>)
Data == Absolute(<<"srv", "data">>)
Link == Absolute(<<"srv", "link">>)
Home == Absolute(<<"home">>)
Relative == [abs |-> FALSE, parts |-> <<"srv">>]

\* srv/data is a directory or has become a link, like srv/link, that leads out of the root.
MCFileSystems ==
    {(Srv :> Srv) @@ (Data :> data) @@ (Link :> Home) @@ (Home :> Home) : data \in {Data, Home}}

MCDefaults == [socket |-> "driver.sock", network |-> "oshl", image |-> "base", pinned |-> "0.0.96",
               cpus |-> 2, memory |-> 3, address |-> "192.168.65.1"]

PlainStart ==
    [socket |-> Nothing, network |-> Nothing, allowedNetworks |-> Nothing, supervisorImage |-> Nothing,
     endpoint |-> Nothing, cpus |-> Nothing, allowHostMounts |-> Nothing, hostMountRoot |-> Nothing,
     policyFile |-> Nothing]
Mounting == [PlainStart EXCEPT !.allowHostMounts = Flag(TRUE)]

MCSettings ==
    {PlainStart, Mounting,
     [PlainStart EXCEPT !.socket = [flag |-> "d.sock", env |-> Unset], !.network = Env("lab"), !.cpus = Env(Malformed)],
     [PlainStart EXCEPT !.socket = Env(Unset)],
     [PlainStart EXCEPT !.supervisorImage = Env(Unset)],
     [PlainStart EXCEPT !.cpus = Flag(Malformed)],
     [PlainStart EXCEPT !.cpus = [flag |-> 0, env |-> 1]],
     [PlainStart EXCEPT !.supervisorImage = Env("0.0.90")],
     [PlainStart EXCEPT !.supervisorImage = [flag |-> "0.0.91", env |-> "0.0.90"]],
     [PlainStart EXCEPT !.allowedNetworks = Flag(<<"lab", Unset>>), !.network = [flag |-> "oshl", env |-> "lab"]],
     [PlainStart EXCEPT !.policyFile = Flag(Home)],
     [PlainStart EXCEPT !.policyFile = Flag(Relative)],
     [PlainStart EXCEPT !.hostMountRoot = Env(Srv)],
     [Mounting EXCEPT !.hostMountRoot = Env(Srv)],
     [Mounting EXCEPT !.hostMountRoot = Env(Absolute(<<"gone">>))]}
    \cup {[PlainStart EXCEPT !.endpoint = Flag(e)] :
            e \in {Endpoint("http", "gw"), Endpoint("HTTPS", "gw"), Endpoint("https", "LOCALHOST"), Endpoint("https", "")}}

PlainConfig == [mounts |-> <<>>, network |-> Unset, kernel |-> Unset]
PlainRequest ==
    [id |-> "s", gpu |-> FALSE, image |-> Unset, command |-> <<>>, token |-> "jwt", driverConfig |-> PlainConfig,
     templateEnv |-> <<>>, specEnv |-> <<>>, labels |-> <<>>,
     cpuRequest |-> Unset, cpuLimit |-> Unset, memoryRequest |-> Unset, memoryLimit |-> Unset]

Volume(source, target, ro) == [type |-> "volume", source |-> source, target |-> target, readOnly |-> ro]
Scratch(target) == [type |-> "tmpfs", source |-> Unset, target |-> target, readOnly |-> Unset]
Quantity(num, den, suffix) == [num |-> num, den |-> den, suffix |-> suffix]

Mounts ==
    {<<Volume(s, Absolute(<<"data">>), ro)>> : s \in {Data, Link, Srv, Absolute(<<"gone">>)}, ro \in {TRUE, FALSE, Unset}}
    \cup {<<Scratch(t)>> : t \in
            {Absolute(<<"tmp">>), Absolute(<<>>), Absolute(<<"openshell-seed", "tls">>), Absolute(<<"sandbox">>),
             Absolute(<<"sandboxes">>), Absolute(<<"run", "..", "sandbox">>), Relative}}
    \cup {<<Scratch(Absolute(<<"tmp">>)), Volume(Data, Absolute(<<"tmp">>), TRUE)>>,
          <<Volume(Relative, Absolute(<<"data">>), TRUE)>>}

Cores == {Quantity(7, 1, "m"), Quantity(0, 1, ""), Quantity(-1, 1, ""), Quantity(99, 1, "")}
Sizes == {Quantity(1, 1, "G"), Quantity(5, 2, "Mi"), Quantity(1, 1, "Ti"), Malformed}

MCRequests ==
    {PlainRequest,
     [PlainRequest EXCEPT !.gpu = TRUE], [PlainRequest EXCEPT !.id = Malformed],
     [PlainRequest EXCEPT !.image = "own"], [PlainRequest EXCEPT !.image = Malformed],
     [PlainRequest EXCEPT !.token = Unset], [PlainRequest EXCEPT !.command = <<Unset, "x">>],
     [PlainRequest EXCEPT !.driverConfig = Malformed],
     [PlainRequest EXCEPT !.driverConfig.network = "lab"], [PlainRequest EXCEPT !.driverConfig.kernel = Relative],
     [PlainRequest EXCEPT !.driverConfig.kernel = Home],
     [PlainRequest EXCEPT !.labels = ("sandbox-id" :> "user") @@ ("team" :> "user")],
     [PlainRequest EXCEPT !.templateEnv = ("LANG" :> "C") @@ ("PATH" :> "/x") @@ ("HOME" :> "/h"),
                          !.specEnv = ("LANG" :> "de") @@ ("OPENSHELL_TLS_CA" :> "/x")],
     [PlainRequest EXCEPT !.templateEnv = "OPENSHELL_SANDBOX_TOKEN" :> "t"],
     [PlainRequest EXCEPT !.specEnv = "A=B" :> "x"], [PlainRequest EXCEPT !.specEnv = "LANG" :> Malformed]}
    \cup {[PlainRequest EXCEPT !.driverConfig.mounts = m] : m \in Mounts}
    \cup {[PlainRequest EXCEPT !.cpuLimit = l, !.cpuRequest = r] : l, r \in Cores \cup {Unset}}
    \cup {[PlainRequest EXCEPT !.memoryLimit = l, !.memoryRequest = r] : l, r \in Sizes \cup {Unset}}
=============================================================================

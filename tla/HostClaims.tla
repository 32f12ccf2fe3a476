------------------------------ MODULE HostClaims ------------------------------
(* Sentences of the repository about setup that the code does not keep. A    *)
(* run checks the first.                                                     *)
EXTENDS MCHost

\* "one idempotent command that leaves the driver and the OpenShell gateway running as services,
\* correctly wired" (cmd/openshell-driver-applecontainer/setup.go:14): guests of the driver that
\* setup has installed dial an address the certificate covers. The --network it accepts is the
\* one it makes the certificate for, and not passed on to the agent.
SetupWiresTheDriver ==
    SetUp /\ proc.phase = "serving" => proc.endpoint \in {None, certs[cmd.tls]}

\* internal/hostsetup/status.go:30: status uses "the driver defaults (the same ones setup applied)".
\* After `setup --tls-dir` it looks at the default bundle, and asks for setup once more.
StatusKnowsWhatSetupDid ==
    SetUp => \A l \in StatusPrinted : l.name = "gateway certificate" => l.level # "fail"

\* internal/hostsetup/setup.go:278: "unmanaged lines are left in place", by every step but the
\* removal of OpenShell's data, for which the user has asked. os.WriteFile cuts the file off
\* before it writes, and a file that setup cannot read is overwritten.
UnmanagedLinesStay ==
    [][~At("remove openshell") /\ mine' = mine => Outside(envFile) \subseteq Outside(envFile')]_allVars
=============================================================================

--------------------------- MODULE HandoverClaims ---------------------------
(* What the comments and documents say of two instances, and an execution    *)
(* does not keep. A run checks the first.                                    *)
EXTENDS MCHandover

\* "this process's own deferred cleanup must not delete the replacement's live socket out from
\* under it" (main.go:231): an instance that serves is found at the path. The marker is read in
\* one step and the socket removed in a later one, and the replacement binds before it claims.
ReplacementKeepsItsSocket == \A i \in Instance : pc[i] = "serving" => sock = i

\* docs/architecture.md:122-124: containers with the driver's label "without a record are deleted
\* as orphans", and no others. Bootstrap reads the records before it lists the VMs: a sandbox that
\* an older instance creates in between has its VM taken for an orphan.
SweepRemovesOrphansOnly ==
    [][\A i \in Instance : Sweep(i) => vm \ vm' \subseteq Sandbox \ disk]_vars
=============================================================================

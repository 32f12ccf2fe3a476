-------------------------------- MODULE Compat --------------------------------
(* Which upstream versions the driver was verified with (internal/compat). A *)
(* version that was read is a triple, one that could not be is Unreadable.   *)
EXTENDS Integers, Sequences

CONSTANT Unreadable

Version(major, minor, patch) == <<major, minor, patch>>

OpenShellMin == Version(0, 0, 96)
OpenShellMax == Version(0, 0, 116)
AppleContainerMin == Version(1, 2, 0)
AppleContainerMax == Version(1, 4, 1)
AppleContainerMinSafe == Version(1, 3, 1)

\* Defect: a version is less if any of its parts is.
LessInAnyPart(a, b) == \E k \in 1 .. 3 : a[k] < b[k]

\* Less, by the first part in which the two differ
Less(a, b) == \E k \in 1 .. 3 : a[k] < b[k] /\ \A j \in 1 .. k - 1 : a[j] = b[j]

\* CheckAppleContainer: the levels of its findings
CheckAppleContainer(v) ==
    IF v = Unreadable THEN {"warn"}
    ELSE LET advisory == IF Less(v, AppleContainerMinSafe) THEN {"warn"} ELSE {}
             range == IF Less(v, AppleContainerMin) THEN {"error"}
                      ELSE IF Less(AppleContainerMax, v) THEN {"warn"} ELSE {}
         IN IF advisory \cup range = {} THEN {"ok"} ELSE advisory \cup range

\* CheckOpenShell: the level of its finding
CheckOpenShell(v) ==
    IF v = Unreadable THEN {"warn"}
    ELSE IF Less(v, OpenShellMin) THEN {"error"}
    ELSE IF Less(OpenShellMax, v) THEN {"warn"} ELSE {"ok"}
=============================================================================

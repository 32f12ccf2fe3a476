-------------------------------- MODULE MCHost --------------------------------
(* Instances of Host for TLC: releases at the boundaries of the verified     *)
(* ranges, and some whose parts compare differently from the whole.          *)
EXTENDS Host, TLC

\* No property tells one address from another.
AddressSymmetry == Permutations(Addresses)

MCUpgrades == {[container |-> AppleContainerMax, openshell |-> OpenShellMin]}
MCTLSDirs == {None, "own"}
MCContainerVersions ==
    {Unreadable, Version(1, 1, 9), Version(1, 2, 0), Version(1, 3, 0), Version(1, 3, 1), Version(1, 4, 1), Version(2, 0, 0)}
MCOpenShellVersions ==
    {Unreadable, Version(0, 0, 95), Version(0, 0, 96), Version(0, 0, 116), Version(0, 0, 117), Version(0, 1, 0)}
=============================================================================

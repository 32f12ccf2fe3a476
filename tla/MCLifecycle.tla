---------------------------- MODULE MCLifecycle ----------------------------
(* Instances of Lifecycle for TLC. *)
EXTENDS LifecycleClaims, LifecycleInvariants, TLC

CONSTANTS s1, s2

\* Every sandbox has a name of its own.
OwnNames == [i \in Ids |-> i]

\* Two workspaces use one name.
SharedName == [i \in Ids |-> "name"]

IdSymmetry == Permutations(Ids)
CallSymmetry == Permutations(Calls)
=============================================================================

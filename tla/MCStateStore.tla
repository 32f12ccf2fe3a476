---------------------------- MODULE MCStateStore ----------------------------
(* Instances of StateStore for TLC. The callers are interchangeable.         *)
EXTENDS StateStore, TLC

Symmetry == Permutations(Client)
=============================================================================

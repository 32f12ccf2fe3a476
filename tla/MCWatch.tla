------------------------------ MODULE MCWatch ------------------------------
(* Instances of Watch for TLC. *)
EXTENDS Watch

CONSTANTS s1, s2, w1, w2
=============================================================================

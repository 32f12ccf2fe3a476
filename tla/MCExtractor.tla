---------------------------- MODULE MCExtractor ----------------------------
(* Instances of Extractor for TLC: two creates of one process and one of a   *)
(* second, a matching image that is not a binary or moves, and a pinned one. *)
EXTENDS Extractor, TLC

CONSTANTS p1, p2, t1, t2, t3, d1, page

MCProcessOf == (t1 :> p1) @@ (t2 :> p1) @@ (t3 :> p2)
MCPublished == (Matched :> {d1, page}) @@ (Pinned :> {d1})

\* The creates of one process are interchangeable.
Symmetry == Permutations({t1, t2})
=============================================================================

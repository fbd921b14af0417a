----------------------------- MODULE MCImageRows -----------------------------
(* Bounded instances of ImageRows for TLC. *)
EXTENDS ImageRows, TLC

\* Assets, requests and versions are interchangeable.
Symmetry ==
    Permutations(Assets) \cup Permutations(Requests) \cup Permutations(Versions)
=============================================================================

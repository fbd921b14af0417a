---------------------------- MODULE MCModeration ----------------------------
(* Bounded instances of Moderation for TLC. *)
EXTENDS Moderation, TLC

Symmetry == Permutations(Users) \cup Permutations(Artifacts)
            \cup Permutations(Stages) \cup Permutations(Requests)
=============================================================================

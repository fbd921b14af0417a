--------------------------- MODULE MCLegacyAccess ---------------------------
(* Bounded instances of LegacyAccess for TLC. *)
EXTENDS LegacyAccess, TLC

Symmetry == Permutations(Passwords) \cup Permutations(Devices)
            \cup Permutations(Sessions) \cup Permutations(Requests)
=============================================================================

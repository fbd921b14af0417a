------------------------- MODULE MCAccountSecurity -------------------------
(* Bounded instances of AccountSecurity for TLC. *)
EXTENDS AccountSecurity, TLC

Symmetry == Permutations(Sessions) \cup Permutations(Tokens)
            \cup Permutations(Codes) \cup Permutations(Requests)
=============================================================================

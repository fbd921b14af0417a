----------------------------- MODULE MCDeployment -----------------------------
(* Bounded instances of Deployment for TLC. *)
EXTENDS Deployment, TLC

Symmetry == Permutations(Users) \cup Permutations(Emails)
            \cup Permutations(Servers) \cup Permutations(Requests)
            \cup Permutations(Scripts)
===============================================================================

--------------------------- MODULE MCUploadStorage ---------------------------
(* Bounded instances of UploadStorage for TLC. *)
EXTENDS UploadStorage, TLC

\* Requests are interchangeable, and so are names.
Symmetry == Permutations(Requests) \cup Permutations(Names)
=============================================================================

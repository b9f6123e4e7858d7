--------------------------- MODULE MCWorkHandler ---------------------------
(* Instances of WorkHandler for TLC. *)
EXTENDS WorkHandlerRefinement, TLC

(* Requests, queue requests and hashes are interchangeable.                *)
Symmetry ==
    Permutations(Requests) \cup Permutations(Readers) \cup Permutations(Hashes)
=============================================================================

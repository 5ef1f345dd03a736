-------------------------- MODULE MCAuthVersionCache --------------------------
(* Instance of AuthVersionCache for TLC. *)
EXTENDS AuthVersionCache, TLC

(* Isolates are interchangeable, and so are checks. *)
Interchangeable == Permutations(Isolate) \cup Permutations(Check)
=============================================================================

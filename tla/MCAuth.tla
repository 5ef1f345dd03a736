-------------------------------- MODULE MCAuth --------------------------------
(* Instances of AuthAccount for TLC. *)
EXTENDS AuthInvariants, TLC

CONSTANTS s, a, b, c, d

(* Requests other than the seeded sign-in are interchangeable. *)
Interchangeable == Permutations(Req \ Seed)
=============================================================================

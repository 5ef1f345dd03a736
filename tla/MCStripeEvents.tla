---------------------------- MODULE MCStripeEvents ----------------------------
(* Instances of StripeEvents for TLC. *)
EXTENDS StripeEvents, TLC

(* The backoff doubles with each failed attempt. *)
MCDelay == [n \in 1 .. MaxAttempts |-> 2 ^ (n - 1)]

(* Deliveries are interchangeable. *)
Interchangeable == Permutations(Delivery)
=============================================================================

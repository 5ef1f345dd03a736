--------------------------- MODULE MCSubscriptions ---------------------------
(* Subscriptions for TLC. *)
EXTENDS Subscriptions, TLC

Interchangeable == Permutations(Worker) \cup Permutations(Sub)
=============================================================================

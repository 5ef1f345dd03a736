------------------------------ MODULE MCRefunds ------------------------------
(* The refunds of one order for TLC. *)
EXTENDS Refunds, TLC

(* Every refund asks for 2. *)
Two == [k \in Key |-> 2]

Interchangeable ==
  Permutations(Key) \cup Permutations(Admin) \cup Permutations(Worker) \cup Permutations(Hook)
=============================================================================

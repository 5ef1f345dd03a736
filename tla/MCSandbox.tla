------------------------------ MODULE MCSandbox ------------------------------
(* Sandbox for TLC: a site of two pages, of which the entrypoint can be     *)
(* rewritten and the other page removed; a rollback puts either back.       *)
EXTENDS Sandbox, TLC

CONSTANTS index, page, c1, c2

OnePage == [p \in Path |-> c1]

Edits == {<<index, c2>>, <<page, Absent>>}

(* Requests are interchangeable: Init and Next name none of them. *)
Interchangeable == Permutations(Client)

(* All three requests are made under a crash or under a fault; under both,   *)
(* two are: one before and one after the boot, or two that meet.             *)
Budget == crashes + faults > 1 => \E c \in Client : client[c].pc = "new"
=============================================================================

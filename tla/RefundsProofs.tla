---------------------------- MODULE RefundsProofs ----------------------------
(***************************************************************************)
(* The safety properties of Refunds, for any keys, amounts, processes and  *)
(* bounds.                                                                 *)
(***************************************************************************)
EXTENDS Refunds, TLAPS

Local == [pc : Label, key : Key \cup {NoKey}, base : Nat, amount : Nat, target : Nat,
          row : Row, op : Op, n : Nat, tries : 0 .. 2, stamp : Nat, event : Event,
          ans : {"none", "pending", "succeeded", "failed", "rejected", "lost"}]

-----------------------------------------------------------------------------
(* THE INVARIANT *)

Answered == {"pending", "succeeded", "failed"}

(* Stripe has paid the refund k, and the ledger can show it: by a stamp of  *)
(* a webhook, or because the first answer said so.                          *)
Paid(k) == /\ stripe[k].status = "succeeded"
           /\ row[k].stamp > 0 \/ stripe[k].first = "succeeded"

(* Stripe refused, canceled or failed the refund k, or a request for it was *)
(* denied.                                                                  *)
Refused(k) == stripe[k].status \in {"failed", "rejected"} \/ stripe[k].denied

Accounted(k) == refunded >= row[k].target

(* What Stripe has under a key was asked for by the row of that key, and    *)
(* an end it has reached is the one it was first answered with, if that was *)
(* an end.                                                                  *)
StripeFollows(k) ==
  /\ stripe[k].status # "none" => Exists(k) /\ stripe[k].amount = row[k].amount
  /\ stripe[k].status = "none" <=> stripe[k].first = "none"
  /\ stripe[k].first \in {"succeeded", "failed", "rejected"} => stripe[k].status = stripe[k].first
  /\ stripe[k].status = "rejected" => stripe[k].first = "rejected"

(* A refund is claimed on top of no more than Stripe had paid, so with its  *)
(* own payment its target is covered.                                       *)
TargetsCovered(k) ==
  ~Manual => /\ Exists(k) => row[k].target <= row[k].amount + paid
             /\ stripe[k].status = "succeeded" => row[k].target <= paid

(* What the ledger row says happened did happen. *)
RowFollows(k) ==
  /\ row[k].status = "succeeded" => Accounted(k)
  /\ row[k].status = "failed" => Refused(k)
  /\ ~Manual /\ row[k].status \in {"provider_succeeded", "succeeded"} => Paid(k)
  /\ ~Manual /\ Terminal(row[k].pstatus)
       => /\ stripe[k].status = row[k].pstatus
          /\ row[k].stamp = 0 => stripe[k].first = row[k].pstatus
  /\ ~Exists(k) => row[k] = NoRow

OpFollows(k) ==
  /\ op[k].status # "none" => Exists(k)
  /\ op[k].status = "succeeded" => Accounted(k)

EventFollows(e) ==
  /\ e.kind = "refund" => /\ e.created > 0
                          /\ Terminal(e.status) => stripe[e.key].status = e.status
  /\ e.kind = "charge" => e.total <= paid

(* A manual order never meets Stripe. *)
ManualAlone ==
  Manual => /\ outbox = {}
            /\ \A k \in Key : /\ stripe[k].status = "none" /\ op[k].status = "none"
                              /\ row[k].pstatus # "failed"

(* The event of a delivery, or of a process that is none, is a charge. *)
Charge(p, l) == p \in Hook /\ l.event.kind = "charge"

BeforeClaim == {"lookup", "claim", "slot", "insert", "recheck"}

(* What a process that holds l at its place has established. *)
Held(p, l) ==
  LET k == l.key IN
  /\ l.pc \notin {"idle", "done"} =>
       IF Charge(p, l) THEN l.pc \in {"total_read", "total_write", "ack"} ELSE k \in Key
  /\ l.pc \notin {"idle", "done"} \cup BeforeClaim /\ ~Charge(p, l)
       => Exists(k) \/ (p \in Hook /\ l.pc \in {"hook_read", "ack"})
  /\ l.pc \in BeforeClaim => p \in Admin
  /\ Manual => /\ l.pc \in {"idle", "done", "revive", "total_read", "total_write", "settle"} \cup BeforeClaim
               /\ p \in Admin \/ l.pc \in {"idle", "done"}
  /\ ~Manual => /\ l.pc = "lookup" => l.base <= paid
                /\ l.pc \in {"claim", "revive", "slot", "insert", "recheck"} => l.target <= l.amount + paid
                /\ l.event.kind = "charge" => l.event.total <= paid
  /\ l.pc \in {"total_read", "total_write", "settle"} /\ ~Charge(p, l) /\ ~Manual => Paid(k)
  /\ l.pc = "total_write" => /\ l.base < l.target
                             /\ l.target = IF Charge(p, l) THEN l.event.total ELSE row[k].target
  /\ l.pc \in {"settle", "close_ok", "complete"} => Accounted(k)
  /\ l.pc = "record" => l.ans \in Answered /\ l.ans = stripe[k].first
  /\ l.pc \in {"hook_read", "hook_write"} => l.stamp > 0
  /\ l.pc \in {"stamp", "hook_read", "hook_write"} =>
       /\ l.ans \in Answered
       /\ Terminal(l.ans) => stripe[k].status = l.ans
  /\ l.pc = "hook_write" /\ Terminal(l.row.pstatus) => l.row.pstatus = l.ans
  /\ l.pc = "op_claim" => p \in Worker
  /\ l.pc = "reject" => Refused(k)
  /\ l.pc = "fail" => stripe[k].status = "failed"
  /\ l.pc \in {"ensure", "call"} => l.row.status # "none"

(* The copy of its row that a process holds was true and is not outdated in *)
(* what matters.                                                            *)
CopyHeld(l) ==
  l.row.status # "none" =>
    /\ l.key \in Key /\ Exists(l.key) /\ l.row.amount = row[l.key].amount
    /\ l.row.status = "succeeded" => Accounted(l.key)
    /\ ~Manual /\ l.row.status \in {"provider_succeeded", "succeeded"} => Paid(l.key)

RowsInv == \A k \in Key : /\ StripeFollows(k) /\ TargetsCovered(k)
                          /\ RowFollows(k) /\ OpFollows(k)

ProcInv == \A p \in Proc : \A l \in {me[p]} : Held(p, l) /\ CopyHeld(l)

RefundsInv ==
  /\ clock > 0
  /\ ~Manual => refunded <= paid
  /\ ManualAlone
  /\ \A e \in outbox : EventFollows(e)
  /\ RowsInv
  /\ ProcInv

Inv == TypeOK /\ RefundsInv

-----------------------------------------------------------------------------
(* WHAT NO STEP UNDOES *)

(* The totals only grow; a ledger row keeps what it was claimed with and    *)
(* its stamp; Stripe keeps its first answer and an end it has reached, and  *)
(* what was denied was denied.                                              *)
Advance ==
  /\ refunded' >= refunded /\ paid' >= paid /\ clock' >= clock
  /\ \A k \in Key :
       /\ Exists(k) => /\ row'[k].status # "none" /\ row'[k].amount = row[k].amount
                       /\ row'[k].target = row[k].target
       /\ row[k].stamp > 0 => row'[k].stamp > 0
       /\ stripe[k].first # "none" => /\ stripe'[k].first = stripe[k].first
                                      /\ stripe'[k].amount = stripe[k].amount
       /\ stripe[k].status \in {"succeeded", "failed", "rejected"}
            => stripe'[k].status = stripe[k].status
       /\ stripe[k].denied => stripe'[k].denied

Keeps == \A k \in Key : Terminal(row[k].pstatus) => row'[k].pstatus = row[k].pstatus

(* What a step leaves: the invariant, and terminal refunds as they were. *)
Good == TypeOK' /\ RefundsInv' /\ Keeps

(* The records a process starts and ends with have the type of its state. *)
LEMMA BlankType == Blank \in Local /\ Finished \in Local
<1>1. NoRow \in Row /\ NoOp \in Op
  BY DEF NoRow, Row, NoOp, Op
<1>2. [kind |-> "charge", total |-> 0] \in Event
  BY DEF Event
<1>3. Blank \in Local
  BY <1>1, <1>2 DEF Blank, Local, Label
<1> QED
  BY <1>3 DEF Finished, Local, Label

(* Moving a process on changes its place and nothing it holds. *)
LEMMA Moved ==
  ASSUME NEW l \in Local, NEW c \in Label
  PROVE  LET m == [l EXCEPT !.pc = c] IN
         /\ m \in Local /\ m.pc = c /\ m.key = l.key /\ m.base = l.base /\ m.amount = l.amount
         /\ m.target = l.target /\ m.row = l.row /\ m.op = l.op /\ m.n = l.n
         /\ m.tries = l.tries /\ m.stamp = l.stamp /\ m.event = l.event /\ m.ans = l.ans
  BY DEF Local

(* A process that ends holds nothing that could be wrong. *)
LEMMA FinishedHeld ==
  ASSUME TypeOK, NEW p PROVE Held(p, Finished) /\ CopyHeld(Finished)
  BY DEF TypeOK, Held, CopyHeld, Finished, Blank, NoRow, Charge, BeforeClaim

(* What is so of a refund stays so. *)
LEMMA FactsKept ==
  ASSUME TypeOK, TypeOK', Advance, NEW k \in Key
  PROVE  /\ Exists(k) => /\ Exists(k)' /\ row'[k].amount = row[k].amount
                         /\ row'[k].target = row[k].target
         /\ Exists(k) /\ Accounted(k) => Accounted(k)'
         /\ Paid(k) => Paid(k)'
         /\ Refused(k) => Refused(k)'
<1>1. row[k].target \in Nat /\ refunded \in Nat /\ refunded' \in Nat
  BY DEF TypeOK, Row
<1> QED
  BY <1>1 DEF Advance, Exists, Accounted, Paid, Refused

(* What a process has established stays established. *)
LEMMA CopyKept ==
  ASSUME TypeOK, TypeOK', Advance, NEW l \in Local, CopyHeld(l) PROVE CopyHeld(l)'
  BY FactsKept DEF CopyHeld

(* What a process has established stays established. *)
LEMMA HeldKept ==
  ASSUME TypeOK, TypeOK', Advance, NEW p \in Proc, NEW l \in Local, Held(p, l), CopyHeld(l)
  PROVE  Held(p, l)' /\ CopyHeld(l)'
<1> DEFINE k == l.key
<1>1. l.pc \notin {"idle", "done"} /\ ~Charge(p, l) => k \in Key
  BY DEF Held
<1>2. /\ l.event.kind = "charge" => l.event.total \in Nat
      /\ l.base \in Nat /\ l.amount \in Nat /\ l.target \in Nat
  BY DEF Local, Event
<1>3. paid \in Nat /\ paid' \in Nat /\ paid' >= paid
  BY DEF TypeOK, Advance
<1>4. /\ l.pc = "lookup" /\ l.base <= paid => l.base <= paid'
      /\ l.target <= l.amount + paid => l.target <= l.amount + paid'
      /\ l.event.kind = "charge" /\ l.event.total <= paid => l.event.total <= paid'
  BY <1>2, <1>3
<1>5. /\ k \in Key => /\ stripe[k].first \in Answered => stripe'[k].first = stripe[k].first
                      /\ stripe[k].status \in {"succeeded", "failed", "rejected"}
                           => stripe'[k].status = stripe[k].status
  BY DEF Advance, Answered
<1>6. Held(p, l)'
  BY <1>1, <1>4, <1>5, FactsKept DEF Held, Charge, BeforeClaim, Terminal, Answered
<1> QED
  BY <1>6, CopyKept

(* What an event reports stays true. *)
LEMMA EventKept ==
  ASSUME TypeOK, TypeOK', Advance, NEW e \in Event, EventFollows(e) PROVE EventFollows(e)'
<1>1. CASE e.kind = "refund"
  <2>1. e.key \in Key
    BY <1>1 DEF Event
  <2> QED
    BY <1>1, <2>1 DEF EventFollows, TypeOK, Advance, Event, Terminal, Refund
<1>2. CASE e.kind = "charge"
  BY <1>2 DEF EventFollows, TypeOK, Advance, Event
<1> QED
  BY <1>1, <1>2 DEF Event

(* The facts about one refund when a step leaves its rows alone. *)
LEMMA RowsKept ==
  ASSUME TypeOK, TypeOK', Advance, NEW k \in Key,
         row'[k] = row[k], op'[k] = op[k], stripe'[k] = stripe[k],
         StripeFollows(k), TargetsCovered(k), RowFollows(k), OpFollows(k)
  PROVE  StripeFollows(k)' /\ TargetsCovered(k)' /\ RowFollows(k)' /\ OpFollows(k)'
  BY DEF TypeOK, Advance, StripeFollows, TargetsCovered, RowFollows, OpFollows, Exists, Accounted,
         Paid, Refused, Row, Refund

(* What a step of a process, or of Stripe's, must show. *)
LEMMA Frame ==
  ASSUME Inv, TypeOK', Advance, NEW p \in Proc, NEW l \in Local, Set(p, l),
         Held(p, l)', CopyHeld(l)', ManualAlone', ~Manual => refunded' <= paid',
         \A e \in outbox' : e \in outbox \/ EventFollows(e)', RowsInv'
  PROVE  RefundsInv'
<1>1. ProcInv'
  <2> SUFFICES ASSUME NEW q \in Proc, NEW m \in {me'[q]} PROVE Held(q, m)' /\ CopyHeld(m)'
    BY DEF ProcInv
  <2>1. CASE q = p
    BY <2>1 DEF Set, Inv, TypeOK, Local
  <2>2. CASE q # p
    <3>1. m \in Local /\ m \in {me[q]}
      BY <2>2 DEF Set, Inv, TypeOK, Local
    <3>2. Held(q, m) /\ CopyHeld(m)
      BY <3>1 DEF Inv, RefundsInv, ProcInv
    <3> QED
      BY <3>1, <3>2, HeldKept DEF Inv
  <2> QED
    BY <2>1, <2>2
<1>2. \A e \in outbox' : EventFollows(e)'
  <2> SUFFICES ASSUME NEW e \in outbox', e \in outbox PROVE EventFollows(e)'
    OBVIOUS
  <2>1. e \in Event /\ EventFollows(e)
    BY DEF Inv, TypeOK, RefundsInv
  <2> QED
    BY <2>1, EventKept DEF Inv
<1>3. clock' > 0
  BY DEF Inv, TypeOK, RefundsInv, Advance
<1> QED
  BY <1>1, <1>2, <1>3 DEF RefundsInv

(* The rows of all refunds when a step changes at most those of k. *)
LEMMA RowsFrame ==
  ASSUME Inv, TypeOK', Advance, NEW k \in Key,
         \A j \in Key \ {k} : row'[j] = row[j] /\ op'[j] = op[j] /\ stripe'[j] = stripe[j],
         StripeFollows(k)', TargetsCovered(k)', RowFollows(k)', OpFollows(k)'
  PROVE  RowsInv'
<1> SUFFICES ASSUME NEW j \in Key
             PROVE  StripeFollows(j)' /\ TargetsCovered(j)' /\ RowFollows(j)' /\ OpFollows(j)'
  BY DEF RowsInv
<1>1. CASE j = k
  BY <1>1
<1>2. CASE j # k
  <2>1. StripeFollows(j) /\ TargetsCovered(j) /\ RowFollows(j) /\ OpFollows(j)
    BY DEF Inv, RefundsInv, RowsInv
  <2> QED
    BY <1>2, <2>1, RowsKept DEF Inv
<1> QED
  BY <1>1, <1>2

(* A step that only moves one process. *)
LEMMA OnlyMe ==
  ASSUME Inv, NEW p \in Proc, NEW l \in Local, Set(p, l), Held(p, l), CopyHeld(l),
         UNCHANGED <<refunded, row, op, stripe, paid, outbox, clock>>, faults' \in Nat
  PROVE  Good
<1>1. TypeOK'
  BY DEF Inv, TypeOK, Set, Local
<1>2. Advance
  BY DEF Advance, Inv, TypeOK, Exists
<1>3. Held(p, l)' /\ CopyHeld(l)'
  BY <1>1, <1>2, HeldKept DEF Inv
<1>4. RowsInv'
  <2> SUFFICES ASSUME NEW k \in Key
               PROVE  StripeFollows(k)' /\ TargetsCovered(k)' /\ RowFollows(k)' /\ OpFollows(k)'
    BY DEF RowsInv
  <2>1. StripeFollows(k) /\ TargetsCovered(k) /\ RowFollows(k) /\ OpFollows(k)
    BY DEF Inv, RefundsInv, RowsInv
  <2> QED
    BY <1>1, <1>2, <2>1, RowsKept DEF Inv
<1>5. ManualAlone'
  BY DEF Inv, RefundsInv, ManualAlone
<1>6. RefundsInv'
  BY <1>1, <1>2, <1>3, <1>4, <1>5, Frame DEF Inv, RefundsInv
<1> QED
  BY <1>1, <1>6 DEF Good, Keeps

(* What a write r to the ledger row k must respect. *)
RowOk(k, r) ==
  /\ r.status # "none"
  /\ Exists(k) => r.amount = row[k].amount /\ r.target = row[k].target
  /\ row[k].stamp > 0 => r.stamp > 0
  /\ r.status = "succeeded" => refunded >= r.target
  /\ r.status = "failed" => Refused(k)
  /\ ~Manual => r.target <= r.amount + paid
  /\ ~Manual /\ r.status \in {"provider_succeeded", "succeeded"}
       => stripe[k].status = "succeeded" /\ (r.stamp > 0 \/ stripe[k].first = "succeeded")
  /\ ~Manual /\ Terminal(r.pstatus)
       => stripe[k].status = r.pstatus /\ (r.stamp = 0 => stripe[k].first = r.pstatus)
  /\ Manual => r.pstatus # "failed"
  /\ Terminal(row[k].pstatus) => r.pstatus = row[k].pstatus

(* A step that writes one ledger row and moves one process. *)
LEMMA RowWritten ==
  ASSUME Inv, NEW p \in Proc, NEW l \in Local, Set(p, l),
         NEW k \in Key, NEW r \in Row, row' = [row EXCEPT ![k] = r], RowOk(k, r),
         UNCHANGED <<refunded, op, stripe, paid, outbox, clock, faults>>,
         (TypeOK' /\ Advance) => Held(p, l)' /\ CopyHeld(l)'
  PROVE  Good
<1>1. TypeOK'
  BY DEF Inv, TypeOK, Set, Local
<1>2. Advance
  BY DEF Advance, Inv, TypeOK, Exists, RowOk
<1>3. row'[k] = r
  BY DEF Inv, TypeOK
<1>4. StripeFollows(k) /\ TargetsCovered(k) /\ RowFollows(k) /\ OpFollows(k)
  BY DEF Inv, RefundsInv, RowsInv
<1>5. StripeFollows(k)' /\ TargetsCovered(k)'
  BY <1>1, <1>3, <1>4 DEF StripeFollows, TargetsCovered, RowOk, Exists, Inv, TypeOK, Row, Refund
<1>6. RowFollows(k)' /\ OpFollows(k)'
  BY <1>1, <1>3, <1>4 DEF RowFollows, OpFollows, RowOk, Exists, Accounted, Paid, Refused, Terminal, Inv, TypeOK, Row, Op
<1>7. RowsInv'
  <2>1. \A j \in Key \ {k} : row'[j] = row[j] /\ op'[j] = op[j] /\ stripe'[j] = stripe[j]
    BY DEF Inv, TypeOK
  <2> QED
    BY <1>1, <1>2, <1>5, <1>6, <2>1, RowsFrame
<1>8. ManualAlone'
  BY DEF Inv, TypeOK, RefundsInv, ManualAlone, RowOk
<1>9. RefundsInv'
  BY <1>1, <1>2, <1>7, <1>8, Frame DEF Inv, RefundsInv
<1> QED
  BY <1>1, <1>9 DEF Good, Keeps, RowOk, Inv, TypeOK

(* A step that writes one operation and moves one process. *)
LEMMA OpWritten ==
  ASSUME Inv, ~Manual, NEW p \in Proc, NEW l \in Local, Set(p, l), Held(p, l), CopyHeld(l),
         NEW k \in Key, NEW o \in Op, op' = [op EXCEPT ![k] = o], Exists(k),
         o.status = "succeeded" => Accounted(k),
         UNCHANGED <<refunded, row, stripe, paid, outbox, clock, faults>>
  PROVE  Good
<1>1. TypeOK'
  BY DEF Inv, TypeOK, Set, Local
<1>2. Advance
  BY DEF Advance, Inv, TypeOK, Exists
<1>3. Held(p, l)' /\ CopyHeld(l)'
  BY <1>1, <1>2, HeldKept DEF Inv
<1>4. StripeFollows(k) /\ TargetsCovered(k) /\ RowFollows(k) /\ OpFollows(k)
  BY DEF Inv, RefundsInv, RowsInv
<1>5. StripeFollows(k)' /\ TargetsCovered(k)' /\ RowFollows(k)'
  BY <1>4 DEF StripeFollows, TargetsCovered, RowFollows, Exists, Accounted, Paid, Refused
<1>6. OpFollows(k)'
  BY <1>1 DEF OpFollows, Exists, Accounted, Inv, TypeOK
<1>7. RowsInv'
  <2>1. \A j \in Key \ {k} : row'[j] = row[j] /\ op'[j] = op[j] /\ stripe'[j] = stripe[j]
    BY DEF Inv, TypeOK
  <2> QED
    BY <1>1, <1>2, <1>5, <1>6, <2>1, RowsFrame
<1>8. RefundsInv'
  BY <1>1, <1>2, <1>3, <1>7, Frame DEF Inv, RefundsInv, ManualAlone
<1> QED
  BY <1>1, <1>8 DEF Good, Keeps

-----------------------------------------------------------------------------
(* THE STEPS OF A PROCESS *)

(* What the invariant says of one process. *)
LEMMA Mine ==
  ASSUME Inv, NEW p \in Proc
  PROVE  me[p] \in Local /\ Held(p, me[p]) /\ CopyHeld(me[p])
  BY DEF Inv, TypeOK, Local, RefundsInv, ProcInv

(* A process ends, perhaps by a fault. *)
LEMMA Ends ==
  ASSUME Inv, NEW p \in Proc, Go(p, "end"), faults' \in Nat,
         UNCHANGED <<refunded, row, op, stripe, paid, outbox, clock>>
  PROVE  Good
  BY BlankType, FinishedHeld, OnlyMe DEF Go, Inv

(* A process moves on, and its new place asks nothing that is not so. *)
LEMMA MovesOn ==
  ASSUME Inv, NEW p \in Proc, NEW c \in Label, Go(p, c), faults' \in Nat,
         UNCHANGED <<refunded, row, op, stripe, paid, outbox, clock>>,
         Held(p, [me[p] EXCEPT !.pc = c])
  PROVE  Good
<1> DEFINE m == [me[p] EXCEPT !.pc = c]
<1>1. m \in Local /\ m.key = me[p].key /\ m.row = me[p].row
  BY Mine, Moved
<1>2. CopyHeld(m)
  BY <1>1, Mine DEF CopyHeld
<1>3. Set(p, m)
  BY DEF Go, Label
<1> QED
  BY <1>1, <1>2, <1>3, OnlyMe

(* A request starts from a total Stripe has paid. *)
LEMMA SubmitStep == ASSUME Inv, NEW p \in Proc, NEW k \in Key, Submit(p, k) PROVE Good
<1> DEFINE m == [Blank EXCEPT !.pc = "lookup", !.key = k, !.base = refunded]
<1>1. m \in Local
  BY BlankType DEF Local, Label, Inv, TypeOK
<1>2. Held(p, m) /\ CopyHeld(m)
  BY ProcAssumption DEF Held, CopyHeld, Blank, NoRow, Charge, BeforeClaim, Submit, Inv, TypeOK, RefundsInv
<1>3. Held(p, Finished) /\ CopyHeld(Finished) /\ Finished \in Local
  BY BlankType, FinishedHeld DEF Inv
<1>4. faults' \in Nat
  BY DEF Submit, Inv, TypeOK
<1>5. CASE Manual /\ refunded >= Total
  BY <1>5, <1>3, <1>4, OnlyMe DEF Submit
<1>6. CASE ~(Manual /\ refunded >= Total)
  BY <1>6, <1>1, <1>2, <1>4, OnlyMe DEF Submit
<1> QED
  BY <1>5, <1>6

(* A request takes over the refund of its key, or prices a new one. *)
LEMMA LookupStep == ASSUME Inv, NEW p \in Proc, Lookup(p) PROVE Good
<1> DEFINE k == me[p].key
           a == IF Asked[k] = 0 THEN Total - me[p].base ELSE Asked[k]
           m(x, t) == [me[p] EXCEPT !.pc = "claim", !.amount = x, !.target = t]
<1>1. me[p] \in Local /\ Held(p, me[p]) /\ CopyHeld(me[p]) /\ me[p].pc = "lookup"
  BY Mine DEF Lookup
<1>2. k \in Key /\ (~Manual => me[p].base <= paid) /\ (Manual => p \in Admin)
  BY <1>1 DEF Held, Charge
<1>3. UNCHANGED <<refunded, row, op, stripe, paid, outbox, clock>> /\ faults' \in Nat
  BY DEF Lookup, Inv, TypeOK
<1>4. ASSUME NEW x \in Nat, NEW t \in Nat, ~Manual => t <= x + paid, Set(p, m(x, t)) PROVE Good
  <2>1. m(x, t) \in Local
    BY <1>1 DEF Local, Label
  <2>2. Held(p, m(x, t)) /\ CopyHeld(m(x, t))
    BY <1>1, <1>2, <1>4 DEF Held, CopyHeld, Local, Charge, BeforeClaim
  <2> QED
    BY <1>3, <1>4, <2>1, <2>2, OnlyMe
<1>5. CASE Exists(k) /\ Set(p, m(row[k].amount, row[k].target))
  <2>1. TargetsCovered(k) /\ row[k] \in Row
    BY <1>2 DEF Inv, TypeOK, RefundsInv, RowsInv
  <2> QED
    BY <1>4, <1>5, <2>1 DEF TargetsCovered, Row
<1>6. CASE me[p].base < Total /\ a <= Total - me[p].base /\ Set(p, m(a, Target(p, a)))
  <2>1. a \in Nat /\ Target(p, a) \in Nat /\ (~Manual => Target(p, a) <= a + paid)
    BY <1>1, <1>2, <1>6, KeyAssumption, TotalAssumption DEF Target, Local, Inv, TypeOK
  <2> QED
    BY <1>4, <1>6, <2>1
<1>7. CASE Go(p, "end")
  BY <1>3, <1>7, Ends
<1> QED
  BY <1>5, <1>6, <1>7 DEF Lookup

(* A claim takes over the row as it stands. *)
LEMMA ClaimedHeld ==
  ASSUME Inv, NEW p \in Proc, me[p].pc \in BeforeClaim, me[p].key \in Key, Exists(me[p].key)
  PROVE  LET m == [me[p] EXCEPT !.pc = IF Manual THEN "total_read" ELSE "ensure",
                                !.row = row[me[p].key]]
         IN  m \in Local /\ Held(p, m) /\ CopyHeld(m)
<1> DEFINE k == me[p].key
           m == [me[p] EXCEPT !.pc = IF Manual THEN "total_read" ELSE "ensure", !.row = row[k]]
<1>1. me[p] \in Local /\ Held(p, me[p]) /\ row[k] \in Row
  BY Mine DEF Inv, TypeOK
<1>2. RowFollows(k)
  BY DEF Inv, RefundsInv, RowsInv
<1>3. m \in Local
  BY <1>1 DEF Local, Label
<1>4. CopyHeld(m)
  BY <1>1, <1>2 DEF CopyHeld, RowFollows, Local
<1>5. Held(p, m)
  BY <1>1 DEF Held, Local, Charge, BeforeClaim, Exists, Inv, TypeOK
<1> QED
  BY <1>3, <1>4, <1>5

(* The claim finds the row of its key, or goes on to make one. *)
LEMMA ClaimStep == ASSUME Inv, NEW p \in Proc, Claim(p) PROVE Good
<1> DEFINE k == me[p].key
<1>1. me[p] \in Local /\ Held(p, me[p]) /\ me[p].pc = "claim" /\ k \in Key
  BY Mine DEF Claim, Held, Charge
<1>2. UNCHANGED <<refunded, row, op, stripe, paid, outbox, clock>> /\ faults' \in Nat
  BY DEF Claim, Inv, TypeOK
<1>3. CASE ~Exists(k) /\ Go(p, "slot")
  <2>1. Held(p, [me[p] EXCEPT !.pc = "slot"])
    BY <1>1 DEF Held, Local, Charge, BeforeClaim
  <2> QED
    BY <1>2, <1>3, <2>1, MovesOn DEF Label
<1>4. CASE Exists(k) /\ Go(p, "revive")
  <2>1. Held(p, [me[p] EXCEPT !.pc = "revive"])
    BY <1>1, <1>4 DEF Held, Local, Charge, BeforeClaim
  <2> QED
    BY <1>2, <1>4, <2>1, MovesOn DEF Label
<1>5. CASE Exists(k) /\ Claimed(p, row[k])
  BY <1>1, <1>2, <1>5, ClaimedHeld, OnlyMe DEF Claimed, BeforeClaim
<1>6. CASE Go(p, "end")
  BY <1>2, <1>6, Ends
<1> QED
  BY <1>3, <1>4, <1>5, <1>6 DEF Claim

(* A failed row made pending again still says nothing that is not so. *)
LEMMA ReviveStep == ASSUME Inv, NEW p \in Proc, Revive(p) PROVE Good
<1> DEFINE k == me[p].key
           r == [row[k] EXCEPT !.status = "pending"]
           m == [me[p] EXCEPT !.pc = IF Manual THEN "total_read" ELSE "ensure", !.row = r]
<1>1. me[p] \in Local /\ Held(p, me[p]) /\ me[p].pc = "revive" /\ k \in Key /\ row[k] \in Row
      /\ Exists(k)
  BY Mine DEF Revive, Held, Charge, BeforeClaim, Inv, TypeOK
<1>2. CASE UNCHANGED row /\ Go(p, "end")
  BY <1>2, Ends DEF Revive, Inv, TypeOK
<1>3. CASE row' = [row EXCEPT ![k] = r] /\ Claimed(p, r)
  <2>1. r \in Row /\ m \in Local
    BY <1>1 DEF Row, Local, Label
  <2>2. RowOk(k, r)
    <3>1. RowFollows(k) /\ TargetsCovered(k) /\ ManualAlone
      BY <1>1 DEF Inv, RefundsInv, RowsInv
    <3> QED
      BY <1>1, <3>1 DEF RowOk, RowFollows, TargetsCovered, ManualAlone, Row
  <2>3. Set(p, m) /\ UNCHANGED <<refunded, op, stripe, paid, outbox, clock, faults>>
    BY <1>3 DEF Claimed, Revive
  <2>4. PICK l \in Local : l = m
    BY <2>1
  <2>5. ASSUME TypeOK', Advance PROVE Held(p, l)' /\ CopyHeld(l)'
    <3>1. row'[k] = r /\ r.status = "pending" /\ r.amount = row[k].amount
      BY <1>1, <1>3 DEF Inv, TypeOK, Row
    <3> QED
      BY <1>1, <2>3, <2>4, <3>1, <2>5 DEF Held, CopyHeld, Local, Charge, BeforeClaim, Exists, Inv, TypeOK
  <2> QED
    BY <1>1, <1>3, <2>1, <2>2, <2>3, <2>4, <2>5, RowWritten
<1> QED
  BY <1>2, <1>3 DEF Revive

(* A busy slot ends the request. *)
LEMMA SlotCheckStep == ASSUME Inv, NEW p \in Proc, SlotCheck(p) PROVE Good
<1>1. UNCHANGED <<refunded, row, op, stripe, paid, outbox, clock>> /\ faults' \in Nat
  BY DEF SlotCheck, Inv, TypeOK
<1>2. Held(p, [me[p] EXCEPT !.pc = "insert"])
  BY Mine DEF SlotCheck, Held, Local, Charge, BeforeClaim
<1>3. CASE Go(p, "insert")
  BY <1>1, <1>2, <1>3, MovesOn DEF Label
<1>4. CASE Go(p, "end")
  BY <1>1, <1>4, Ends
<1> QED
  BY <1>3, <1>4 DEF SlotCheck

(* A new row is claimed on top of what Stripe has paid at most. *)
LEMMA InsertStep == ASSUME Inv, NEW p \in Proc, Insert(p) PROVE Good
<1> DEFINE k == me[p].key
           r == [NoRow EXCEPT !.status = "pending", !.amount = me[p].amount, !.target = me[p].target]
           m == [me[p] EXCEPT !.pc = IF Manual THEN "total_read" ELSE "ensure", !.row = r]
<1>1. me[p] \in Local /\ Held(p, me[p]) /\ me[p].pc = "insert" /\ k \in Key /\ row[k] \in Row
  BY Mine DEF Insert, Held, Charge, Inv, TypeOK
<1>2. CASE UNCHANGED row /\ Go(p, "recheck")
  <2>1. Held(p, [me[p] EXCEPT !.pc = "recheck"])
    BY <1>1 DEF Held, Local, Charge, BeforeClaim
  <2> QED
    BY <1>2, <2>1, MovesOn DEF Insert, Label, Inv, TypeOK
<1>3. CASE ~Exists(k) /\ row' = [row EXCEPT ![k] = r] /\ Claimed(p, r)
  <2>1. r \in Row /\ m \in Local
    BY <1>1 DEF Row, NoRow, Local, Label
  <2>2. RowOk(k, r)
    <3>1. RowFollows(k) /\ (~Manual => me[p].target <= me[p].amount + paid)
      BY <1>1 DEF Inv, RefundsInv, RowsInv, Held
    <3> QED
      BY <1>1, <1>3, <3>1 DEF RowOk, RowFollows, Row, NoRow, Terminal
  <2>3. Set(p, m) /\ UNCHANGED <<refunded, op, stripe, paid, outbox, clock, faults>>
    BY <1>3 DEF Claimed, Insert
  <2>4. PICK l \in Local : l = m
    BY <2>1
  <2>5. ASSUME TypeOK', Advance PROVE Held(p, l)' /\ CopyHeld(l)'
    <3>1. row'[k] = r /\ r.status = "pending"
      BY <1>1, <1>3 DEF Inv, TypeOK, NoRow
    <3> QED
      BY <1>1, <2>3, <2>4, <3>1, <2>5 DEF Held, CopyHeld, Local, Charge, BeforeClaim, Exists, Inv, TypeOK
  <2> QED
    BY <1>1, <1>3, <2>1, <2>2, <2>3, <2>4, <2>5, RowWritten
<1> QED
  BY <1>2, <1>3 DEF Insert

(* A lost insert takes over the row that won. *)
LEMMA RecheckStep == ASSUME Inv, NEW p \in Proc, Recheck(p) PROVE Good
<1>1. me[p].pc \in BeforeClaim /\ me[p].key \in Key
  BY Mine DEF Recheck, Held, Charge, BeforeClaim
<1>2. UNCHANGED <<refunded, row, op, stripe, paid, outbox, clock>> /\ faults' \in Nat
  BY DEF Recheck, Inv, TypeOK
<1>3. CASE Exists(me[p].key) /\ Claimed(p, row[me[p].key])
  BY <1>1, <1>2, <1>3, ClaimedHeld, OnlyMe DEF Claimed
<1>4. CASE Go(p, "end")
  BY <1>2, <1>4, Ends
<1> QED
  BY <1>3, <1>4 DEF Recheck

(* A step on the operation of the process's key, however it writes it. *)
LEMMA OpMoves ==
  ASSUME Inv, ~Manual, NEW p \in Proc, me[p].key \in Key, Exists(me[p].key),
         NEW o \in Op, op' = op \/ op' = [op EXCEPT ![me[p].key] = o],
         o.status = "succeeded" => Accounted(me[p].key),
         UNCHANGED <<refunded, row, stripe, paid, outbox, clock, faults>>,
         NEW l \in Local, Set(p, l), Held(p, l), CopyHeld(l)
  PROVE  Good
<1>1. CASE op' = op
  BY <1>1, OnlyMe DEF Inv, TypeOK
<1>2. CASE op' = [op EXCEPT ![me[p].key] = o]
  BY <1>2, OpWritten
<1> QED
  BY <1>1, <1>2

(* The operation is queued, and the request goes where its claim sends it. *)
LEMMA EnsureStep == ASSUME Inv, NEW p \in Proc, Ensure(p) PROVE Good
<1> DEFINE k == me[p].key
           o == [NoOp EXCEPT !.status = "pending"]
           c == CASE me[p].row.status = "succeeded" -> "close_ok"
                  [] me[p].row.status = "provider_succeeded" -> "total_read"
                  [] me[p].row.status = "pending" /\ me[p].row.rid -> "end"
                  [] OTHER -> "call"
           m == [me[p] EXCEPT !.pc = c]
<1>1. me[p] \in Local /\ Held(p, me[p]) /\ CopyHeld(me[p]) /\ me[p].pc = "ensure"
  BY Mine DEF Ensure
<1>2. k \in Key /\ Exists(k) /\ ~Manual /\ ~Charge(p, me[p])
  BY <1>1 DEF Held, BeforeClaim
<1>3. o \in Op
  BY DEF NoOp, Op
<1>4. /\ op' = op \/ op' = [op EXCEPT ![k] = o]
      /\ UNCHANGED <<refunded, row, stripe, paid, outbox, clock, faults>>
  BY DEF Ensure
<1>5. CASE c = "end"
  <2>1. Finished \in Local /\ Held(p, Finished) /\ CopyHeld(Finished) /\ Set(p, Finished)
    BY <1>5, BlankType, FinishedHeld DEF Inv, Ensure, Go
  <2> QED
    BY <1>2, <1>3, <1>4, <2>1, OpMoves DEF NoOp
<1>6. CASE c # "end"
  <2>1. /\ c \in {"close_ok", "total_read", "call"} /\ Set(p, m)
        /\ c = "close_ok" => me[p].row.status = "succeeded"
        /\ c = "total_read" => me[p].row.status = "provider_succeeded"
    BY <1>6 DEF Ensure, Go
  <2> HIDE DEF c
  <2>2. m \in Local /\ m.pc = c /\ m.key = k /\ m.row = me[p].row /\ m.event = me[p].event
    <3>1. c \in Label
      BY <2>1 DEF Label
    <3> QED
      BY <1>1, <3>1, Moved
  <2>3. CopyHeld(m)
    BY <1>1, <2>2 DEF CopyHeld
  <2>4. Held(p, m)
    BY <1>1, <1>2, <2>1, <2>2 DEF Held, CopyHeld, Charge, BeforeClaim, Local
  <2> QED
    BY <1>2, <1>3, <1>4, <2>1, <2>2, <2>3, <2>4, OpMoves DEF NoOp
<1> QED
  BY <1>5, <1>6

(* A listed operation belongs to a row of the ledger. *)
LEMMA OpListStep == ASSUME Inv, NEW p \in Proc, NEW k \in Key, OpList(p, k) PROVE Good
<1> DEFINE m == [Blank EXCEPT !.pc = "op_claim", !.key = k, !.op = op[k]]
<1>1. m \in Local
  BY BlankType DEF Local, Label, Inv, TypeOK
<1>2. Exists(k) /\ ~Manual
  BY DEF OpList, Inv, RefundsInv, RowsInv, OpFollows, ManualAlone
<1>3. Held(p, m) /\ CopyHeld(m)
  BY <1>2, ProcAssumption DEF OpList, Held, CopyHeld, Blank, NoRow, Charge, BeforeClaim, Inv, TypeOK
<1> QED
  BY <1>1, <1>3, OnlyMe DEF OpList, Inv, TypeOK

(* The lease is taken, or the operation dead-lettered, over a known row. *)
LEMMA OpClaimStep == ASSUME Inv, NEW p \in Proc, OpClaim(p) PROVE Good
<1> DEFINE k == me[p].key
           a == me[p].op.attempts
           spent == a + 1 > MaxAttempts
           o == IF spent THEN [NoOp EXCEPT !.status = "dead_letter", !.attempts = op[k].attempts]
                ELSE [status |-> "processing", attempts |-> a + 1, owner |-> p]
           m == [me[p] EXCEPT !.pc = "op_read", !.n = a + 1]
<1>1. me[p] \in Local /\ Held(p, me[p]) /\ CopyHeld(me[p]) /\ me[p].pc = "op_claim"
  BY Mine DEF OpClaim
<1>2. k \in Key /\ Exists(k) /\ ~Manual /\ ~Charge(p, me[p]) /\ p \in Worker
  BY <1>1 DEF Held, BeforeClaim
<1>3. a \in Nat /\ o \in Op /\ o.status # "succeeded"
  <2>1. me[p].op \in Op /\ op[k] \in Op
    BY <1>1, <1>2 DEF Local, Inv, TypeOK
  <2>2. a \in Nat
    BY <2>1 DEF Op
  <2>3. CASE spent
    BY <2>1, <2>3 DEF NoOp, Op
  <2>4. CASE ~spent
    BY <1>2, <2>2, <2>4 DEF Op
  <2> QED
    BY <2>2, <2>3, <2>4
<1>4. /\ op' = op \/ op' = [op EXCEPT ![k] = o]
      /\ UNCHANGED <<refunded, row, stripe, paid, outbox, clock, faults>>
  BY DEF OpClaim
<1>5. CASE Go(p, "end")
  <2>1. Finished \in Local /\ Held(p, Finished) /\ CopyHeld(Finished) /\ Set(p, Finished)
    BY <1>5, BlankType, FinishedHeld DEF Inv, Go
  <2> QED
    BY <1>2, <1>3, <1>4, <2>1, OpMoves
<1>6. CASE Set(p, m)
  <2>1. m \in Local
    <3>1. a + 1 \in Nat
      BY <1>3
    <3> HIDE DEF a
    <3> QED
      BY <1>1, <3>1 DEF Local, Label
  <2>2. Held(p, m) /\ CopyHeld(m)
    BY <1>1, <1>2 DEF Held, CopyHeld, Charge, BeforeClaim, Local
  <2> QED
    BY <1>2, <1>3, <1>4, <1>6, <2>1, <2>2, OpMoves
<1> QED
  BY <1>5, <1>6 DEF OpClaim

(* A worker goes on to complete only a settled refund. *)
LEMMA OpReadStep == ASSUME Inv, NEW p \in Proc, OpRead(p) PROVE Good
<1> DEFINE k == me[p].key
           c == IF row[k].status = "succeeded" THEN "complete" ELSE "call"
           m == [me[p] EXCEPT !.pc = c, !.row = row[k]]
<1>1. me[p] \in Local /\ Held(p, me[p]) /\ me[p].pc = "op_read"
  BY Mine DEF OpRead
<1>2. k \in Key /\ Exists(k) /\ ~Manual /\ ~Charge(p, me[p])
  BY <1>1 DEF Held, BeforeClaim
<1>3. RowFollows(k) /\ row[k] \in Row
  BY <1>2 DEF Inv, TypeOK, RefundsInv, RowsInv
<1>4. m \in Local
  BY <1>1, <1>3 DEF Local, Label
<1>5. Held(p, m)
  BY <1>1, <1>2, <1>3 DEF Held, Charge, BeforeClaim, Local, Exists, RowFollows
<1>6. CopyHeld(m)
  BY <1>1, <1>2, <1>3 DEF CopyHeld, Local, RowFollows
<1> QED
  BY <1>4, <1>5, <1>6, OnlyMe DEF OpRead, Inv, TypeOK

-----------------------------------------------------------------------------
(* STRIPE *)

(* Stripe's refund under k reaches status st, first or later, and reports   *)
(* it.                                                                      *)
LEMMA StripeMoves ==
  ASSUME Inv, ~Manual, NEW k \in Key, Exists(k), NEW a \in Nat, a = row[k].amount,
         NEW st \in {"pending", "succeeded", "failed", "rejected"},
         NEW f \in {"pending", "succeeded", "failed", "rejected"}, Becomes(k, a, f, st),
         \/ stripe[k].status = "none" /\ f = st
         \/ stripe[k].status = "pending" /\ f = stripe[k].first /\ st \in {"succeeded", "failed"}
            /\ a = stripe[k].amount,
         UNCHANGED <<refunded, row, op, clock>>, faults' \in Nat, me' \in [Proc -> Local]
  PROVE  /\ TypeOK' /\ Advance /\ RowsInv' /\ refunded' <= paid' /\ Keeps
         /\ \A e \in outbox' : e \in outbox \/ EventFollows(e)'
<1>1. /\ stripe'[k].status = st /\ stripe'[k].first = f /\ stripe'[k].amount = a
      /\ stripe'[k].denied = stripe[k].denied
      /\ stripe' \in [Key -> Refund] /\ \A j \in Key \ {k} : stripe'[j] = stripe[j]
  BY DEF Becomes, Inv, TypeOK, Refund
<1>2. paid' = (IF st = "succeeded" THEN paid + a ELSE paid) /\ paid' \in Nat /\ paid' >= paid
  BY DEF Becomes, Inv, TypeOK
<1>3. \A e \in outbox' : \/ e \in outbox
                         \/ e = RefundEvent(k, st) /\ st # "rejected"
                         \/ e = [kind |-> "charge", total |-> paid + a] /\ st = "succeeded"
  <2> DEFINE g == CASE st = "succeeded" -> {RefundEvent(k, st), [kind |-> "charge", total |-> paid + a]}
                    [] st = "rejected"  -> {}
                    [] OTHER            -> {RefundEvent(k, st)}
  <2>1. outbox' = outbox \cup g
    BY DEF Becomes
  <2>2. /\ st = "succeeded" => g = {RefundEvent(k, st), [kind |-> "charge", total |-> paid + a]}
        /\ st = "rejected" => g = {}
        /\ st \notin {"succeeded", "rejected"} => g = {RefundEvent(k, st)}
    OBVIOUS
  <2> HIDE DEF g
  <2> QED
    BY <2>1, <2>2
<1>4. /\ st # "rejected" => RefundEvent(k, st) \in Event
      /\ [kind |-> "charge", total |-> paid + a] \in Event
  BY DEF RefundEvent, Event, Inv, TypeOK
<1>5. TypeOK'
  <2>1. outbox' \subseteq Event
    BY <1>3, <1>4 DEF Inv, TypeOK
  <2> QED
    BY <1>1, <1>2, <2>1 DEF Inv, TypeOK, Local
<1>6. StripeFollows(k) /\ TargetsCovered(k) /\ RowFollows(k) /\ OpFollows(k)
  BY DEF Inv, RefundsInv, RowsInv
<1>7. Advance
  BY <1>1, <1>2, <1>6 DEF Advance, Exists, StripeFollows, Inv, TypeOK
<1>8. RowsInv'
  <2>1. StripeFollows(k)'
    BY <1>1, <1>6 DEF StripeFollows, Exists
  <2>2. TargetsCovered(k)'
    BY <1>1, <1>2, <1>6 DEF TargetsCovered, Exists, Inv, TypeOK, Row
  <2>3. RowFollows(k)' /\ OpFollows(k)'
    BY <1>1, <1>6 DEF RowFollows, OpFollows, Exists, Accounted, Paid, Refused, Terminal
  <2> QED
    BY <1>1, <1>5, <1>7, <2>1, <2>2, <2>3, RowsFrame
<1>9. refunded' <= paid'
  BY <1>2 DEF Inv, RefundsInv, TypeOK
<1>10. \A e \in outbox' : e \in outbox \/ EventFollows(e)'
  <2> SUFFICES ASSUME NEW e \in outbox', e \notin outbox PROVE EventFollows(e)'
    OBVIOUS
  <2>1. CASE e = RefundEvent(k, st)
    BY <1>1, <2>1 DEF EventFollows, RefundEvent, Inv, RefundsInv
  <2>2. CASE e = [kind |-> "charge", total |-> paid + a] /\ st = "succeeded"
    BY <1>2, <2>2 DEF EventFollows, Inv, TypeOK
  <2> QED
    BY <1>3, <2>1, <2>2
<1> QED
  BY <1>5, <1>7, <1>8, <1>9, <1>10 DEF Keeps

(* A request is denied: nothing of Stripe's changes but that it was. *)
LEMMA DeniedStep ==
  ASSUME Inv, NEW p \in Proc, me[p].pc = "call", Denied(p), UNCHANGED <<refunded, row, op, clock>>,
         faults' \in Nat
  PROVE  Good
<1>1. me[p] \in Local /\ Held(p, me[p]) /\ CopyHeld(me[p])
  BY Mine
<1>2. PICK k \in Key : k = me[p].key /\ Exists(k) /\ ~Manual /\ ~Charge(p, me[p]) /\ p \notin Worker
  BY <1>1, ProcAssumption DEF Held, CopyHeld, BeforeClaim, Denied
<1>3. PICK l \in Local :
        /\ l = [me[p] EXCEPT !.pc = "reject", !.ans = "rejected"] /\ l.pc = "reject" /\ l.key = k
        /\ l.row = me[p].row /\ l.event = me[p].event
  <2> DEFINE m == [me[p] EXCEPT !.pc = "reject", !.ans = "rejected"]
  <2>1. m \in Local /\ m.pc = "reject" /\ m.key = k /\ m.row = me[p].row /\ m.event = me[p].event
    BY <1>1, <1>2 DEF Local, Label
  <2> QED
    BY <2>1
<1>4. Set(p, l) /\ UNCHANGED <<paid, outbox>> /\ stripe' = [stripe EXCEPT ![k].denied = TRUE]
  BY <1>2, <1>3 DEF Denied, Answer
<1>5. /\ stripe'[k].status = stripe[k].status /\ stripe'[k].first = stripe[k].first
      /\ stripe'[k].amount = stripe[k].amount /\ stripe'[k].denied
      /\ stripe' \in [Key -> Refund] /\ \A j \in Key \ {k} : stripe'[j] = stripe[j]
  <2>1. stripe[k] \in Refund /\ stripe \in [Key -> Refund]
    BY <1>2 DEF Inv, TypeOK
  <2>2. PICK d : d = [stripe[k] EXCEPT !.denied = TRUE]
    OBVIOUS
  <2>3. /\ d \in Refund /\ d.status = stripe[k].status /\ d.first = stripe[k].first
        /\ d.amount = stripe[k].amount /\ d.denied
    BY <2>1, <2>2 DEF Refund
  <2>4. stripe' = [stripe EXCEPT ![k] = d]
    BY <1>4, <2>2
  <2> QED
    BY <2>1, <2>3, <2>4
<1>6. TypeOK'
  <2>1. me' \in [Proc -> Local]
    BY <1>3, <1>4 DEF Set, Inv, TypeOK, Local
  <2> QED
    BY <1>4, <1>5, <2>1 DEF Inv, TypeOK, Local
<1>7. Advance
  BY <1>4, <1>5 DEF Advance, Inv, TypeOK, Exists
<1>8. RowsInv'
  <2>1. StripeFollows(k) /\ TargetsCovered(k) /\ RowFollows(k) /\ OpFollows(k)
    BY <1>2 DEF Inv, RefundsInv, RowsInv
  <2>2. StripeFollows(k)' /\ TargetsCovered(k)' /\ RowFollows(k)' /\ OpFollows(k)'
    BY <1>4, <1>5, <2>1
    DEF StripeFollows, TargetsCovered, RowFollows, OpFollows, Exists, Accounted, Paid, Refused
  <2> QED
    BY <1>4, <1>5, <1>6, <1>7, <2>2, RowsFrame
<1>9. Held(p, l)'
  BY <1>1, <1>2, <1>3, <1>4, <1>5 DEF Held, Charge, BeforeClaim, Exists, Refused
<1>10. CopyHeld(l)'
  <2>1. CopyHeld(l)
    BY <1>1, <1>3 DEF CopyHeld
  <2> QED
    BY <1>3, <1>6, <1>7, <2>1, CopyKept DEF Inv
<1>11. RefundsInv'
  BY <1>2, <1>3, <1>4, <1>6, <1>7, <1>8, <1>9, <1>10, Frame DEF Inv, RefundsInv, ManualAlone
<1> QED
  BY <1>6, <1>11 DEF Good, Keeps

(* Stripe answers what it has under the key, or the answer is lost. *)
LEMMA CallStep == ASSUME Inv, NEW p \in Proc, Call(p) PROVE Good
<1> DEFINE k == me[p].key
           retrieves == me[p].row.rid /\ p \in Worker
           next(x) == CASE x \in {"lost", "rejected"} ->
                             (IF p \in Worker THEN "op_retry" ELSE IF x = "lost" THEN "unsettled" ELSE "reject")
                        [] OTHER -> IF retrieves THEN "stamp" ELSE "record"
           m(x) == [me[p] EXCEPT !.pc = next(x), !.ans = x]
<1>1. me[p] \in Local /\ Held(p, me[p]) /\ CopyHeld(me[p]) /\ me[p].pc = "call"
  BY Mine DEF Call
<1>2. k \in Key /\ Exists(k) /\ ~Manual /\ ~Charge(p, me[p]) /\ me[p].row.amount = row[k].amount
  BY <1>1 DEF Held, CopyHeld, BeforeClaim
<1>3. StripeFollows(k) /\ stripe[k] \in Refund /\ clock > 0
  BY <1>2 DEF Inv, TypeOK, RefundsInv, RowsInv
<1>4. UNCHANGED <<refunded, row, op, clock>> /\ faults' \in Nat
  BY DEF Call, Denied, Fault, Inv, TypeOK
<1>5. ASSUME NEW x \in {"pending", "succeeded", "failed", "rejected", "lost"}
      PROVE  /\ m(x) \in Local /\ CopyHeld(m(x)) /\ m(x).pc = next(x) /\ m(x).ans = x
             /\ m(x).key = k /\ m(x).row = me[p].row /\ m(x).event = me[p].event
  <2>1. next(x) \in Label
    BY <1>5 DEF Label
  <2> HIDE DEF next
  <2>2. /\ m(x) \in Local /\ m(x).pc = next(x) /\ m(x).ans = x
        /\ m(x).key = k /\ m(x).row = me[p].row /\ m(x).event = me[p].event
    BY <1>1, <1>5, <2>1 DEF Local
  <2> QED
    BY <1>1, <2>2 DEF CopyHeld
<1>6. CASE ~retrieves /\ Creates(p) /\ (Answer(p, stripe'[k].first) \/ Answer(p, "lost"))
  <2>1. PICK st \in {"pending", "succeeded", "failed", "rejected"} :
               Becomes(k, me[p].row.amount, st, st) /\ stripe[k].status = "none"
    BY <1>6 DEF Creates
  <2>2. /\ stripe'[k].status = st /\ stripe'[k].first = st /\ stripe'[k].amount = me[p].row.amount
        /\ stripe'[k].denied = stripe[k].denied
    BY <1>2, <2>1 DEF Becomes, Inv, TypeOK
  <2>3. PICK x \in {st, "lost"} : Set(p, m(x))
    BY <1>6, <2>2 DEF Answer
  <2>a. x \in {"pending", "succeeded", "failed", "rejected", "lost"}
    BY <2>1, <2>3
  <2> HIDE DEF m
  <2>4. PICK l \in Local : l = m(x)
    BY <1>5, <2>a
  <2>5. /\ Set(p, l) /\ CopyHeld(l) /\ l.pc = next(x) /\ l.ans = x /\ l.key = k
        /\ l.row = me[p].row /\ l.event = me[p].event
    BY <1>5, <2>3, <2>4, <2>a
  <2>6. me' \in [Proc -> Local] /\ me[p].row.amount \in Nat
    BY <1>2, <2>5 DEF Set, Inv, TypeOK, Local, Row
  <2>7. /\ TypeOK' /\ Advance /\ RowsInv' /\ refunded' <= paid' /\ Keeps
        /\ \A e \in outbox' : e \in outbox \/ EventFollows(e)'
    BY <1>2, <1>4, <2>1, <2>6, StripeMoves
  <2>8. /\ l.pc \in {"op_retry", "unsettled", "reject", "record"}
        /\ l.pc = "reject" => x = st /\ st = "rejected"
        /\ l.pc = "record" => x = st /\ st \in Answered
    BY <1>6, <2>1, <2>3, <2>5 DEF Answered
  <2>9. Held(p, l)'
    <3>1. l.event.kind = "charge" => l.event.total <= paid'
      <4>1. l.event.kind = "charge" => l.event.total <= paid /\ l.event.total \in Nat
        BY <1>1, <1>2, <2>5 DEF Held, Local, Event
      <4> QED
        BY <4>1, <2>7 DEF Advance, Inv, TypeOK
    <3>2. row'[k].status # "none" /\ ~Charge(p, l) /\ l.key \in Key
      BY <1>2, <1>4, <2>5 DEF Exists, Charge
    <3> QED
      BY <1>2, <2>2, <2>5, <2>8, <3>1, <3>2 DEF Held, Charge, BeforeClaim, Exists, Refused
  <2>10. CopyHeld(l)'
    BY <2>5, <2>2, <2>1, <1>4, <1>2 DEF CopyHeld, Exists, Accounted, Paid, Inv, TypeOK
  <2>11. ManualAlone'
    BY <1>2 DEF ManualAlone
  <2>12. RefundsInv'
    BY <2>5, <2>7, <2>9, <2>10, <2>11, Frame
  <2> QED
    BY <2>7, <2>12 DEF Good
<1>7. CASE /\ UNCHANGED <<stripe, paid, outbox>>
           /\ \/ Answer(p, "lost")
              \/ stripe[k].status # "none"
                 /\ Answer(p, IF retrieves THEN stripe[k].status ELSE stripe[k].first)
  <2>1. PICK x \in {"pending", "succeeded", "failed", "rejected", "lost"} :
          /\ Set(p, m(x))
          /\ x = "lost" \/ x = (IF retrieves THEN stripe[k].status ELSE stripe[k].first)
    BY <1>3, <1>7 DEF Answer, StripeFollows, Refund
  <2>2. /\ next(x) \in {"op_retry", "unsettled", "reject", "stamp", "record"}
        /\ next(x) = "reject" => x = "rejected" /\ ~retrieves
        /\ next(x) = "stamp" => x \in Answered /\ retrieves
        /\ next(x) = "record" => x \in Answered /\ ~retrieves
    BY <2>1 DEF Answered
  <2>3. PICK l \in Local : l = m(x)
    BY <1>5
  <2>4. /\ Set(p, l) /\ CopyHeld(l) /\ l.pc = next(x) /\ l.ans = x /\ l.key = k
        /\ l.row = me[p].row /\ l.event = me[p].event
    <3> HIDE DEF m
    <3> QED
      BY <1>5, <2>1, <2>3
  <2>5. Held(p, l)
    <3> HIDE DEF next, m
    <3> QED
      BY <1>1, <1>2, <1>3, <2>1, <2>2, <2>4
      DEF Held, StripeFollows, Charge, BeforeClaim, Answered, Terminal, Local, Refused
  <2> QED
    BY <1>4, <1>7, <2>4, <2>5, OnlyMe
<1>8. CASE Denied(p)
  BY <1>8, DeniedStep, <1>1, <1>4
<1> QED
  BY <1>6, <1>7, <1>8 DEF Call

-----------------------------------------------------------------------------
(* RECORDING THE ANSWER *)

(* A process whose statement failed: it ends, or its worker records a retry. *)
LEMMA Errs ==
  ASSUME Inv, NEW p \in Proc, me[p].pc \notin {"idle", "done"}, Go(p, OnError(p)), faults' \in Nat,
         UNCHANGED <<refunded, row, op, stripe, paid, outbox, clock>>
  PROVE  Good
<1>1. CASE p \in Worker
  <2>1. me[p] \in Local /\ Held(p, me[p])
    BY Mine
  <2>2. Held(p, [me[p] EXCEPT !.pc = "op_retry"])
    BY <1>1, <2>1, ProcAssumption DEF Held, Charge, BeforeClaim, Local
  <2> QED
    BY <1>1, <2>2, MovesOn DEF OnError, Label
<1>2. CASE p \notin Worker
  BY <1>2, Ends DEF OnError
<1> QED
  BY <1>1, <1>2

(* Where Go(p, c) leaves p. *)
At(p, c) == IF c = "end" THEN Finished ELSE [me[p] EXCEPT !.pc = c]

(* A process holds as much at its new place as it held at its old one. *)
LEMMA AtType ==
  ASSUME Inv, NEW p \in Proc, NEW c \in Label \cup {"end"}
  PROVE  At(p, c) \in Local /\ CopyHeld(At(p, c))
<1>1. CASE c = "end"
  BY <1>1, BlankType, FinishedHeld DEF At, Inv
<1>2. CASE c # "end"
  <2> DEFINE m == [me[p] EXCEPT !.pc = c]
  <2>1. m \in Local /\ m.key = me[p].key /\ m.row = me[p].row
    BY <1>2, Mine, Moved
  <2>2. CopyHeld(m)
    BY <2>1, Mine DEF CopyHeld
  <2> QED
    BY <1>2, <2>1, <2>2 DEF At
<1> QED
  BY <1>1, <1>2

(* A write to the ledger row that the index may refuse. *)
LEMMA WriteRowStep ==
  ASSUME Inv, NEW p \in Proc, me[p].pc \notin {"idle", "done"}, me[p].key \in Key,
         NEW r \in Row, RowOk(me[p].key, r), NEW next \in Label \cup {"end"},
         NEW l \in Local, l = At(p, next),
         next # "end" /\ TypeOK' /\ Advance /\ row'[me[p].key] = r => Held(p, l)',
         NEW refused, refused = "end" \/ refused = OnError(p), WriteRow(p, r, next, refused),
         UNCHANGED <<refunded, op, stripe, paid, outbox, clock, faults>>
  PROVE  Good
<1>1. CASE UNCHANGED row /\ Go(p, refused)
  <2>1. faults' \in Nat
    BY DEF Inv, TypeOK
  <2> QED
    BY <1>1, <2>1, Ends, Errs
<1>2. CASE row' = [row EXCEPT ![me[p].key] = r] /\ Go(p, next)
  <2>1. Set(p, l)
    BY <1>2 DEF Go, At
  <2>2. row'[me[p].key] = r
    BY <1>2 DEF Inv, TypeOK
  <2>3. ASSUME TypeOK', Advance PROVE Held(p, l)' /\ CopyHeld(l)'
    <3>1. CopyHeld(l)
      BY AtType
    <3>2. CASE next # "end"
      BY <2>2, <2>3, <3>1, <3>2, CopyKept DEF Inv
    <3>3. CASE next = "end"
      BY <2>3, <3>1, <3>3, FinishedHeld, HeldKept DEF At, Inv
    <3> QED
      BY <3>2, <3>3
  <2> QED
    BY <1>2, <2>1, <2>3, RowWritten
<1> QED
  BY <1>1, <1>2 DEF WriteRow

(* What the invariant says of the rows of one refund. *)
LEMMA RowFacts ==
  ASSUME Inv, NEW k \in Key
  PROVE  /\ row[k] \in Row /\ op[k] \in Op /\ stripe[k] \in Refund
         /\ StripeFollows(k) /\ TargetsCovered(k) /\ RowFollows(k) /\ OpFollows(k)
         /\ Manual => row[k].pstatus # "failed"
  BY DEF Inv, TypeOK, RefundsInv, RowsInv, ManualAlone

(* A row made pending again after a lost answer says nothing that is not so. *)
LEMMA MarkRetryableStep == ASSUME Inv, NEW p \in Proc, MarkRetryable(p) PROVE Good
<1> DEFINE k == me[p].key
           r == [row[k] EXCEPT !.status = "pending"]
<1>1. me[p].pc = "unsettled" /\ k \in Key /\ Exists(k)
  BY Mine DEF MarkRetryable, Held, Charge, BeforeClaim
<1>2. r \in Row /\ RowOk(k, r)
  BY <1>1, RowFacts DEF RowOk, RowFollows, TargetsCovered, Row
<1>3. WriteRow(p, r, "end", "end") /\ UNCHANGED <<refunded, op, stripe, paid, outbox, clock, faults>>
  BY DEF MarkRetryable
<1>4. PICK l \in Local : l = At(p, "end")
  BY AtType
<1> QED
  BY <1>1, <1>2, <1>3, <1>4, WriteRowStep

(* Only a refund Stripe refused or failed, or that was denied, is marked    *)
(* failed.                                                                  *)
LEMMA MarkFailedStep == ASSUME Inv, NEW p \in Proc, MarkFailed(p) PROVE Good
<1> DEFINE k == me[p].key
           r == [row[k] EXCEPT !.status = "failed"]
<1>1. /\ me[p] \in Local /\ Held(p, me[p]) /\ me[p].pc \in {"reject", "fail"}
      /\ k \in Key /\ Exists(k) /\ ~Manual /\ ~Charge(p, me[p])
      /\ Refused(k)
  BY Mine DEF MarkFailed, Held, Charge, BeforeClaim, Refused
<1>2. r \in Row /\ RowOk(k, r)
  BY <1>1, RowFacts DEF RowOk, RowFollows, TargetsCovered, Row
<1>3. WriteRow(p, r, "close_bad", "end") /\ UNCHANGED <<refunded, op, stripe, paid, outbox, clock, faults>>
  BY DEF MarkFailed
<1>4. PICK l \in Local : l = At(p, "close_bad")
  BY AtType DEF Label
<1>5. l = [me[p] EXCEPT !.pc = "close_bad"]
  BY <1>4 DEF At
<1>6. ASSUME Advance PROVE Held(p, l)'
  BY <1>1, <1>3, <1>5, <1>6 DEF Held, Charge, BeforeClaim, Local, Exists, Advance
<1> QED
  BY <1>1, <1>2, <1>3, <1>4, <1>6, WriteRowStep DEF Label

(* Where an answer sends a process. *)
LEMMA AfterAnswerIs ==
  ASSUME NEW p, NEW a \in Answered
  PROVE  LET c == AfterAnswer(p, a) IN
         /\ c \in {"total_read", "fail", "close_bad", "op_retry", "ack", "end"}
         /\ c \in Label \cup {"end"}
         /\ c = "total_read" => a = "succeeded"
         /\ c = "fail" => a = "failed"
  BY DEF AfterAnswer, Answered, Label

(* A process goes on with an answer the ledger already has. *)
LEMMA AnswerGoesOn ==
  ASSUME Inv, NEW p \in Proc, me[p].pc \notin {"idle", "done"}, me[p].key \in Key,
         Exists(me[p].key), ~Manual, ~Charge(p, me[p]), me[p].ans \in Answered,
         Terminal(me[p].ans) => stripe[me[p].key].status = me[p].ans,
         me[p].ans = "succeeded" => Paid(me[p].key),
         Go(p, AfterAnswer(p, me[p].ans)), faults' \in Nat,
         UNCHANGED <<refunded, row, op, stripe, paid, outbox, clock>>
  PROVE  Good
<1> DEFINE c == AfterAnswer(p, me[p].ans)
           m == [me[p] EXCEPT !.pc = c]
<1>1. /\ c \in {"total_read", "fail", "close_bad", "op_retry", "ack", "end"}
      /\ c \in Label \cup {"end"}
      /\ c = "total_read" => me[p].ans = "succeeded"
      /\ c = "fail" => me[p].ans = "failed"
  BY AfterAnswerIs
<1> HIDE DEF c
<1>2. CASE c = "end"
  BY <1>2, Ends DEF c
<1>3. CASE c # "end"
  <2>1. me[p] \in Local /\ Held(p, me[p]) /\ c \in Label
    BY <1>1, <1>3, Mine
  <2>2. m.pc = c /\ m.key = me[p].key /\ m.event = me[p].event /\ m.ans = me[p].ans
    BY <2>1, Moved
  <2>3. Held(p, m)
    BY <1>1, <1>3, <2>1, <2>2 DEF Held, Charge, BeforeClaim, Terminal
  <2> QED
    BY <2>1, <2>3, MovesOn DEF c
<1> QED
  BY <1>2, <1>3

(* A process goes on with an answer it has just written to the ledger. *)
LEMMA AnswerWritten ==
  ASSUME Inv, NEW p \in Proc, me[p].pc \notin {"idle", "done"}, me[p].key \in Key,
         Exists(me[p].key), ~Manual, ~Charge(p, me[p]), me[p].ans \in Answered,
         Terminal(me[p].ans) => stripe[me[p].key].status = me[p].ans,
         NEW r \in Row, RowOk(me[p].key, r),
         me[p].ans = "succeeded" => r.stamp > 0 \/ stripe[me[p].key].first = "succeeded",
         WriteRow(p, r, AfterAnswer(p, me[p].ans), OnError(p)),
         UNCHANGED <<refunded, op, stripe, paid, outbox, clock, faults>>
  PROVE  Good
<1>1. PICK c \in Label \cup {"end"} : c = AfterAnswer(p, me[p].ans)
  BY AfterAnswerIs
<1>2. /\ c \in {"total_read", "fail", "close_bad", "op_retry", "ack", "end"}
      /\ c = "total_read" => me[p].ans = "succeeded"
      /\ c = "fail" => me[p].ans = "failed"
  BY <1>1, AfterAnswerIs
<1>3. PICK l \in Local : l = At(p, c)
  BY AtType
<1>4. ASSUME c # "end", TypeOK', Advance, row'[me[p].key] = r PROVE Held(p, l)'
  <2>1. me[p] \in Local /\ Held(p, me[p]) /\ c \in Label /\ l = [me[p] EXCEPT !.pc = c]
    BY <1>3, <1>4, Mine DEF At
  <2>2. l.pc = c /\ l.key = me[p].key /\ l.event = me[p].event /\ l.ans = me[p].ans
    BY <2>1, Moved
  <2>3. row'[l.key] = r /\ row'[l.key].status # "none"
    BY <1>4, <2>2 DEF RowOk
  <2>4. l.pc = "total_read" => Paid(l.key)'
    BY <1>2, <2>2, <2>3 DEF Paid, Terminal
  <2>5. l.event.kind = "charge" => l.event.total <= paid'
    BY <2>1, <2>2 DEF Held
  <2> QED
    BY <1>2, <1>4, <2>2, <2>3, <2>4, <2>5 DEF Held, Charge, BeforeClaim, Terminal, Exists
<1> QED
  BY <1>1, <1>3, <1>4, WriteRowStep

(* The first answer is recorded only over a row no webhook has stamped. *)
LEMMA RecordStep == ASSUME Inv, NEW p \in Proc, Record(p) PROVE Good
<1> DEFINE k == me[p].key
           r == [row[k] EXCEPT !.rid = TRUE, !.pstatus = me[p].ans, !.status = LedgerStatus(me[p].ans, "none")]
<1>1. /\ me[p].pc = "record" /\ k \in Key /\ Exists(k) /\ ~Manual /\ ~Charge(p, me[p])
      /\ me[p].ans \in Answered /\ me[p].ans = stripe[k].first
  BY Mine DEF Record, Held, Charge, BeforeClaim
<1>2. Terminal(me[p].ans) => stripe[k].status = me[p].ans
  BY <1>1, RowFacts DEF StripeFollows, Terminal
<1>3. UNCHANGED <<refunded, op, stripe, paid, outbox, clock, faults>> /\ faults' \in Nat
  BY DEF Record, Inv, TypeOK
<1>4. CASE row[k].stamp > 0 /\ UNCHANGED row /\ Go(p, AfterAnswer(p, me[p].ans))
  <2>1. me[p].ans = "succeeded" => Paid(k)
    BY <1>2, <1>4 DEF Paid, Terminal
  <2> QED
    BY <1>1, <1>2, <1>3, <1>4, <2>1, AnswerGoesOn
<1>5. CASE ~(row[k].stamp > 0) /\ WriteRow(p, r, AfterAnswer(p, me[p].ans), OnError(p))
  <2>1. LedgerStatus(me[p].ans, "none") =
          CASE me[p].ans = "succeeded" -> "provider_succeeded"
            [] me[p].ans = "failed" -> "failed" [] OTHER -> "pending"
    BY <1>1 DEF LedgerStatus, Answered
  <2>2. r \in Row
    BY <1>1, <2>1, RowFacts DEF Row, Answered
  <2>3. RowOk(k, r)
    <3>1. row[k] \in Row /\ StripeFollows(k) /\ TargetsCovered(k) /\ RowFollows(k)
      BY <1>1, RowFacts
    <3>2. /\ r.status = LedgerStatus(me[p].ans, "none") /\ r.amount = row[k].amount
          /\ r.target = row[k].target /\ r.stamp = row[k].stamp /\ r.pstatus = me[p].ans
          /\ row[k].stamp = 0
      BY <1>5, <3>1 DEF Row
    <3> HIDE DEF r
    <3> QED
      BY <1>1, <1>2, <2>1, <3>1, <3>2 DEF RowOk, TargetsCovered, RowFollows, Refused, Terminal, Answered
  <2> QED
    BY <1>1, <1>2, <1>3, <1>5, <2>2, <2>3, AnswerWritten
<1> QED
  BY <1>4, <1>5 DEF Record

(* A worker stamps what it retrieved. *)
LEMMA StampStep == ASSUME Inv, NEW p \in Proc, Stamp(p) PROVE Good
<1> DEFINE l == [me[p] EXCEPT !.pc = "hook_read", !.stamp = clock]
<1>1. me[p] \in Local /\ Held(p, me[p]) /\ CopyHeld(me[p]) /\ me[p].pc = "stamp"
  BY Mine DEF Stamp
<1>2. clock \in Nat /\ clock > 0
  BY DEF Inv, TypeOK, RefundsInv
<1>3. /\ l \in Local /\ l.pc = "hook_read" /\ l.stamp = clock /\ l.key = me[p].key /\ l.row = me[p].row
      /\ l.event = me[p].event /\ l.ans = me[p].ans
  BY <1>1, <1>2 DEF Local, Label
<1>4. Set(p, l) /\ UNCHANGED <<refunded, row, op, stripe, paid, outbox, clock>> /\ faults' \in Nat
  BY DEF Stamp, Inv, TypeOK
<1> HIDE DEF l
<1>5. Held(p, l) /\ CopyHeld(l)
  BY <1>1, <1>2, <1>3 DEF Held, CopyHeld, Charge, BeforeClaim
<1> QED
  BY <1>3, <1>4, <1>5, OnlyMe

(* A delivery or a worker decides on the row as it reads it. *)
LEMMA HookReadStep == ASSUME Inv, NEW p \in Proc, HookRead(p) PROVE Good
<1> DEFINE k == me[p].key
           r == row[k]
           l == me[p]
           m == [l EXCEPT !.pc = "hook_write", !.row = r]
<1>1. /\ l \in Local /\ Held(p, l) /\ l.pc = "hook_read" /\ k \in Key /\ ~Manual /\ ~Charge(p, l)
      /\ l.ans \in Answered /\ l.stamp > 0
      /\ Terminal(l.ans) => stripe[k].status = l.ans
  BY Mine DEF HookRead, Held, Charge, BeforeClaim
<1>2. UNCHANGED <<refunded, row, op, stripe, paid, outbox, clock>> /\ faults' \in Nat
  BY DEF HookRead, Inv, TypeOK
<1>3. row[k] \in Row /\ RowFollows(k)
  BY <1>1, RowFacts
<1>4. CASE Go(p, "ack")
  <2>1. Held(p, [me[p] EXCEPT !.pc = "ack"])
    BY <1>1 DEF Held, Charge, BeforeClaim, Local
  <2> QED
    BY <1>2, <1>4, <2>1, MovesOn DEF Label
<1>5. CASE r.rid /\ r.stamp >= l.stamp /\ Go(p, AfterAnswer(p, l.ans))
  <2>1. Exists(k) /\ (l.ans = "succeeded" => Paid(k))
    BY <1>1, <1>3, <1>5 DEF RowFollows, NoRow, Paid, Terminal, Row, Local
  <2> QED
    BY <1>1, <1>2, <1>5, <2>1, AnswerGoesOn
<1>6. CASE Go(p, OnError(p))
  BY <1>1, <1>2, <1>6, Errs
<1>7. CASE r.rid /\ Set(p, m) /\ (Terminal(r.pstatus) => r.pstatus = l.ans)
  <2>1. m \in Local /\ Exists(k)
    <3>1. Exists(k)
      BY <1>3, <1>7 DEF RowFollows, NoRow
    <3> QED
      BY <1>1, <1>3, <3>1 DEF Local, Label
  <2>2. Held(p, m)
    BY <1>1, <1>7, <2>1 DEF Held, Charge, BeforeClaim, Local
  <2>3. CopyHeld(m)
    BY <1>1, <1>3, <2>1 DEF CopyHeld, RowFollows, Local
  <2> QED
    BY <1>2, <1>7, <2>1, <2>2, <2>3, OnlyMe
<1>8. \/ Go(p, "ack")
      \/ r.rid /\ r.stamp >= l.stamp /\ Go(p, AfterAnswer(p, l.ans))
      \/ Go(p, OnError(p))
      \/ r.rid /\ Set(p, m) /\ (Terminal(r.pstatus) => r.pstatus = l.ans)
  <2>1. r.stamp \in Nat /\ l.stamp \in Nat
    BY <1>1, <1>3 DEF Row, Local
  <2> DEFINE contradicts == r.pstatus # l.ans /\ Terminal(r.pstatus)
             next == CASE ~r.rid -> "ack"
                       [] r.rid /\ r.stamp > l.stamp -> NotApplied(p)
                       [] r.rid /\ r.stamp = l.stamp /\ contradicts -> NotApplied(p)
                       [] r.rid /\ r.stamp < l.stamp /\ contradicts -> OnError(p)
                       [] OTHER -> "hook_write"
  <2>2. IF next = "hook_write" THEN Set(p, m) ELSE Go(p, next)
    BY DEF HookRead
  <2>3. \/ next = "ack"
        \/ r.rid /\ r.stamp >= l.stamp /\ next = NotApplied(p)
        \/ next = OnError(p)
        \/ next = "hook_write" /\ r.rid /\ (Terminal(r.pstatus) => r.pstatus = l.ans)
    BY <2>1
  <2> HIDE DEF next
  <2>4. NotApplied(p) \in {"ack", AfterAnswer(p, l.ans)} /\ NotApplied(p) # "hook_write"
    BY <1>1, AfterAnswerIs DEF NotApplied
  <2>5. OnError(p) # "hook_write"
    BY DEF OnError
  <2> QED
    BY <2>2, <2>3, <2>4, <2>5
<1> QED
  BY <1>4, <1>5, <1>6, <1>7, <1>8

(* The compare-and-set keeps a terminal status as it is. *)
LEMMA HookWriteStep == ASSUME Inv, NEW p \in Proc, HookWrite(p) PROVE Good
<1> DEFINE k == me[p].key
           l == me[p]
           s == LedgerStatus(l.ans, l.row.status)
           r == [row[k] EXCEPT !.pstatus = l.ans, !.stamp = l.stamp, !.status = s]
           t == l.tries + 1
           m == [l EXCEPT !.pc = "hook_read", !.tries = t]
<1>1. /\ l \in Local /\ Held(p, l) /\ CopyHeld(l) /\ l.pc = "hook_write"
      /\ k \in Key /\ Exists(k) /\ ~Manual /\ ~Charge(p, l)
      /\ l.ans \in Answered /\ l.stamp > 0
      /\ Terminal(l.ans) => stripe[k].status = l.ans
      /\ Terminal(l.row.pstatus) => l.row.pstatus = l.ans
  BY Mine DEF HookWrite, Held, Charge, BeforeClaim
<1>2. UNCHANGED <<refunded, op, stripe, paid, outbox, clock, faults>> /\ faults' \in Nat
  BY DEF HookWrite, Inv, TypeOK
<1>3. CASE row[k].pstatus = l.row.pstatus /\ WriteRow(p, r, AfterAnswer(p, l.ans), OnError(p))
  <2>1. /\ s \in {"succeeded", "provider_succeeded", "failed", "pending"}
        /\ s = "succeeded" => l.row.status = "succeeded"
        /\ s \in {"succeeded", "provider_succeeded"} => l.ans = "succeeded"
        /\ s = "failed" => l.ans = "failed"
    BY <1>1 DEF LedgerStatus, Answered
  <2> HIDE DEF s
  <2>2. row[k] \in Row /\ TargetsCovered(k) /\ l.stamp \in Nat
    BY <1>1, RowFacts DEF Local
  <2>3. r \in Row
    BY <1>1, <2>1, <2>2 DEF Row, Answered
  <2>4. RowOk(k, r)
    <3>1. /\ r.status = s /\ r.amount = row[k].amount /\ r.target = row[k].target
          /\ r.stamp = l.stamp /\ r.pstatus = l.ans
      BY <2>2 DEF Row
    <3>2. s = "succeeded" => Accounted(k)
      BY <1>1, <2>1 DEF CopyHeld
    <3> HIDE DEF r
    <3> QED
      BY <1>1, <1>3, <2>1, <2>2, <3>1, <3>2 DEF RowOk, TargetsCovered, Accounted, Refused, Terminal
  <2>5. l.ans = "succeeded" => r.stamp > 0
    BY <1>1, <2>2 DEF Row
  <2> QED
    BY <1>1, <1>2, <1>3, <2>3, <2>4, <2>5, AnswerWritten
<1>4. CASE UNCHANGED row /\ l.tries < 2 /\ Set(p, m)
  <2>1. t \in 0 .. 2
    BY <1>1, <1>4 DEF Local
  <2> HIDE DEF t
  <2>2. m \in Local
    BY <1>1, <2>1 DEF Local, Label
  <2>3. Held(p, m) /\ CopyHeld(m)
    BY <1>1 DEF Held, CopyHeld, Charge, BeforeClaim, Local
  <2> QED
    BY <1>2, <1>4, <2>2, <2>3, OnlyMe
<1>5. CASE UNCHANGED row /\ Go(p, OnError(p))
  BY <1>1, <1>2, <1>5, Errs
<1> QED
  BY <1>3, <1>4, <1>5 DEF HookWrite

-----------------------------------------------------------------------------
(* THE ORDER'S TOTAL *)

(* A process whose total is reached settles its refund, or acknowledges. *)
LEMMA AfterTotalStep ==
  ASSUME Inv, NEW p \in Proc, me[p].pc \in {"total_read", "total_write"},
         AfterTotal(p) = "settle" => Accounted(me[p].key),
         Go(p, AfterTotal(p)), faults' \in Nat,
         UNCHANGED <<refunded, row, op, stripe, paid, outbox, clock>>
  PROVE  Good
<1>1. me[p] \in Local /\ Held(p, me[p])
  BY Mine
<1>2. CASE Charge(p, me[p])
  <2>1. Held(p, [me[p] EXCEPT !.pc = "ack"])
    BY <1>1, <1>2, ProcAssumption DEF Held, Charge, BeforeClaim, Local
  <2> QED
    BY <1>2, <2>1, MovesOn DEF AfterTotal, Charge, Label
<1>3. CASE ~Charge(p, me[p])
  <2>1. Held(p, [me[p] EXCEPT !.pc = "settle"])
    BY <1>1, <1>3 DEF Held, Charge, BeforeClaim, Local, AfterTotal
  <2> QED
    BY <1>3, <2>1, MovesOn DEF AfterTotal, Charge, Label
<1> QED
  BY <1>2, <1>3

(* The target read is one Stripe has paid. *)
LEMMA TotalReadStep == ASSUME Inv, NEW p \in Proc, TotalRead(p) PROVE Good
<1> DEFINE k == me[p].key
           t == IF AfterTotal(p) = "ack" THEN me[p].event.total ELSE row[k].target
           m == [me[p] EXCEPT !.pc = "total_write", !.base = refunded, !.target = t]
<1>1. me[p] \in Local /\ Held(p, me[p]) /\ CopyHeld(me[p]) /\ me[p].pc = "total_read"
  BY Mine DEF TotalRead
<1>2. AfterTotal(p) = (IF Charge(p, me[p]) THEN "ack" ELSE "settle")
  BY DEF AfterTotal, Charge
<1>3. t \in Nat /\ refunded \in Nat
  <2>1. CASE Charge(p, me[p])
    BY <1>1, <1>2, <2>1 DEF Charge, Local, Event, Inv, TypeOK
  <2>2. CASE ~Charge(p, me[p])
    BY <1>1, <1>2, <2>2, RowFacts DEF Held, Row, Inv, TypeOK
  <2> QED
    BY <2>1, <2>2
<1>4. UNCHANGED <<refunded, row, op, stripe, paid, outbox, clock>> /\ faults' \in Nat
  BY DEF TotalRead, Inv, TypeOK
<1>5. CASE refunded >= t /\ Go(p, AfterTotal(p))
  <2>1. AfterTotal(p) = "settle" => Accounted(k)
    BY <1>5 DEF Accounted
  <2> QED
    BY <1>1, <1>4, <1>5, <2>1, AfterTotalStep
<1>6. CASE ~(refunded >= t) /\ Set(p, m)
  <2>1. m \in Local
    <3> HIDE DEF t
    <3> QED
      BY <1>1, <1>3 DEF Local, Label
  <2>2. CopyHeld(m)
    <3> HIDE DEF t
    <3> QED
      BY <1>1 DEF CopyHeld, Local
  <2>3. /\ m.pc = "total_write" /\ m.key = k /\ m.base < m.target /\ m.event = me[p].event
        /\ m.target = IF Charge(p, m) THEN m.event.total ELSE row[k].target
    <3>1. /\ m.pc = "total_write" /\ m.key = k /\ m.event = me[p].event /\ m.base = refunded
          /\ m.target = t
      BY <1>1 DEF Local
    <3>2. Charge(p, m) <=> Charge(p, me[p])
      BY <3>1 DEF Charge
    <3>3. t = IF Charge(p, me[p]) THEN me[p].event.total ELSE row[k].target
      BY <1>2
    <3> HIDE DEF t, m
    <3> QED
      BY <1>3, <1>6, <3>1, <3>2, <3>3
  <2>4. Held(p, m)
    <3> HIDE DEF m
    <3> QED
      BY <1>1, <2>3 DEF Held, Charge, BeforeClaim
  <2> QED
    BY <1>4, <1>6, <2>1, <2>2, <2>4, OnlyMe
<1> QED
  BY <1>5, <1>6 DEF TotalRead

(* The total grows to a target Stripe has paid, or does not move. *)
LEMMA TotalWriteStep == ASSUME Inv, NEW p \in Proc, TotalWrite(p) PROVE Good
<1> DEFINE k == me[p].key
<1>1. /\ me[p] \in Local /\ Held(p, me[p]) /\ CopyHeld(me[p]) /\ me[p].pc = "total_write"
      /\ me[p].base < me[p].target
      /\ me[p].target = IF Charge(p, me[p]) THEN me[p].event.total ELSE row[k].target
  BY Mine DEF TotalWrite, Held
<1>2. AfterTotal(p) = (IF Charge(p, me[p]) THEN "ack" ELSE "settle")
  BY DEF AfterTotal, Charge
<1>3. UNCHANGED <<row, op, stripe, paid, outbox, clock, faults>> /\ faults' \in Nat
  BY DEF TotalWrite, Inv, TypeOK
<1>4. CASE refunded = me[p].base
  <2>1. refunded' = me[p].target /\ refunded' \in Nat /\ refunded' >= refunded /\ Go(p, AfterTotal(p))
    BY <1>1, <1>4 DEF TotalWrite, Local, Inv, TypeOK
  <2>2. ~Manual => refunded' <= paid'
    <3> SUFFICES ASSUME ~Manual PROVE refunded' <= paid
      BY <1>3
    <3>1. CASE Charge(p, me[p])
      BY <1>1, <2>1, <3>1 DEF Held, Charge
    <3>2. CASE ~Charge(p, me[p])
      <4>1. Paid(k) /\ k \in Key
        BY <1>1, <3>2 DEF Held
      <4>2. TargetsCovered(k)
        BY <4>1, RowFacts
      <4> QED
        BY <1>1, <2>1, <3>2, <4>1, <4>2 DEF TargetsCovered, Paid
    <3> QED
      BY <3>1, <3>2
  <2>3. PICK c \in Label : c = AfterTotal(p)
    BY <1>2 DEF Label
  <2>4. PICK l \in Local : l = At(p, c)
    BY AtType
  <2>5. l = [me[p] EXCEPT !.pc = c] /\ Set(p, l)
    BY <2>1, <2>3, <2>4 DEF At, Go, Label
  <2>6. TypeOK'
    BY <1>3, <2>1, <2>5 DEF Inv, TypeOK, Set, Local
  <2>7. Advance
    BY <1>3, <2>1 DEF Advance, Inv, TypeOK, Exists
  <2>8. CopyHeld(l)'
    BY <2>4, <2>6, <2>7, AtType, CopyKept DEF Inv
  <2>9. Held(p, l)'
    <3>1. /\ l.pc = (IF Charge(p, me[p]) THEN "ack" ELSE "settle") /\ l.key = k
          /\ l.event = me[p].event
      BY <1>1, <1>2, <2>3, <2>5, Moved
    <3>2. ~Charge(p, me[p]) => Accounted(l.key)'
      BY <1>1, <1>3, <2>1, <3>1 DEF Accounted, Inv, TypeOK, Local
    <3>3. /\ ~Manual /\ l.event.kind = "charge" => l.event.total <= paid'
          /\ ~Manual /\ ~Charge(p, me[p]) => Paid(l.key)'
          /\ Manual => p \in Admin
          /\ ~Charge(p, me[p]) => l.key \in Key /\ Exists(l.key)'
      BY <1>1, <1>3, <3>1 DEF Held, Paid, Exists, BeforeClaim
    <3>4. l.event.kind = me[p].event.kind /\ (Charge(p, l) <=> Charge(p, me[p]))
      BY <3>1 DEF Charge
    <3>5. Charge(p, me[p]) => ~Manual
      BY <3>3, ProcAssumption DEF Charge
    <3> QED
      BY <3>1, <3>2, <3>3, <3>4, <3>5 DEF Held, BeforeClaim
  <2>10. RowsInv'
    BY <1>3, <2>6, <2>7, RowsKept DEF Inv, RefundsInv, RowsInv
  <2>11. ManualAlone' /\ \A e \in outbox' : e \in outbox
    BY <1>3 DEF Inv, RefundsInv, ManualAlone
  <2>12. RefundsInv'
    BY <2>2, <2>5, <2>6, <2>7, <2>8, <2>9, <2>10, <2>11, Frame
  <2> QED
    BY <1>3, <2>6, <2>12 DEF Good, Keeps
<1>5. CASE refunded # me[p].base /\ refunded >= me[p].target
  <2>1. AfterTotal(p) = "settle" => Accounted(k)
    BY <1>1, <1>2, <1>5 DEF Accounted
  <2> QED
    BY <1>1, <1>3, <1>5, <2>1, AfterTotalStep DEF TotalWrite
<1>6. CASE refunded # me[p].base /\ ~(refunded >= me[p].target)
  BY <1>1, <1>3, <1>6, Errs DEF TotalWrite
<1> QED
  BY <1>4, <1>5, <1>6

(* A refund is settled after the total has it. *)
LEMMA SettleStep == ASSUME Inv, NEW p \in Proc, Settle(p) PROVE Good
<1> DEFINE k == me[p].key
           r == [row[k] EXCEPT !.status = "succeeded", !.pstatus = "succeeded"]
<1>1. /\ me[p] \in Local /\ Held(p, me[p]) /\ me[p].pc = "settle" /\ k \in Key /\ Exists(k)
      /\ ~Charge(p, me[p]) /\ Accounted(k) /\ (~Manual => Paid(k))
  BY Mine DEF Settle, Held, Charge, BeforeClaim
<1>2. r \in Row /\ RowOk(k, r)
  <2>1. /\ row[k] \in Row /\ TargetsCovered(k) /\ RowFollows(k)
        /\ Manual => row[k].pstatus # "failed"
    BY <1>1, RowFacts
  <2>2. /\ r \in Row /\ r.status = "succeeded" /\ r.pstatus = "succeeded"
        /\ r.amount = row[k].amount /\ r.target = row[k].target /\ r.stamp = row[k].stamp
    BY <2>1 DEF Row
  <2> HIDE DEF r
  <2> QED
    BY <1>1, <2>1, <2>2 DEF RowOk, RowFollows, TargetsCovered, Paid, Accounted, Terminal, Row
<1>3. /\ WriteRow(p, r, AfterSettle(p), OnError(p))
      /\ UNCHANGED <<refunded, op, stripe, paid, outbox, clock, faults>>
  BY DEF Settle
<1>4. PICK c \in Label \cup {"end"} : c = AfterSettle(p)
  BY DEF AfterSettle, Label
<1>5. PICK l \in Local : l = At(p, c)
  BY AtType
<1>6. ASSUME c # "end", Advance, row'[k] = r PROVE Held(p, l)'
  <2>1. l = [me[p] EXCEPT !.pc = c] /\ c \in {"complete", "close_ok"} /\ c \in Label /\ ~Manual
    BY <1>4, <1>5, <1>6 DEF At, AfterSettle
  <2>2. l.pc = c /\ l.key = k /\ l.event = me[p].event
    BY <1>1, <2>1, Moved
  <2>3. row'[k].status # "none" /\ row'[k].target = row[k].target
    BY <1>1, <1>6 DEF Advance, Exists
  <2>4. Accounted(l.key)'
    BY <1>1, <1>3, <2>2, <2>3 DEF Accounted
  <2> QED
    BY <1>1, <1>3, <2>1, <2>2, <2>3, <2>4 DEF Held, Charge, BeforeClaim, Exists
<1> QED
  BY <1>1, <1>2, <1>3, <1>4, <1>5, <1>6, WriteRowStep

-----------------------------------------------------------------------------
(* CLOSING, DELIVERIES AND FAULTS *)

(* An operation is closed or released, and its process ends or, a delivery, *)
(* acknowledges.                                                            *)
LEMMA Closes ==
  ASSUME Inv, NEW p \in Proc, me[p].pc \in {"close_ok", "close_bad", "complete", "op_retry"},
         NEW o \in Op, o.status = "succeeded" => me[p].pc \in {"close_ok", "complete"},
         op' = op \/ op' = [op EXCEPT ![me[p].key] = o],
         Go(p, "end") \/ (p \in Hook /\ Go(p, "ack")),
         UNCHANGED <<refunded, row, stripe, paid, outbox, clock, faults>>
  PROVE  Good
<1> DEFINE k == me[p].key
<1>1. /\ me[p] \in Local /\ Held(p, me[p]) /\ k \in Key /\ Exists(k) /\ ~Manual /\ ~Charge(p, me[p])
      /\ o.status = "succeeded" => Accounted(k)
  BY Mine DEF Held, Charge, BeforeClaim
<1>2. CASE Go(p, "end")
  <2>1. Finished \in Local /\ Held(p, Finished) /\ CopyHeld(Finished) /\ Set(p, Finished)
    BY <1>2, BlankType, FinishedHeld DEF Inv, Go
  <2> QED
    BY <1>1, <2>1, OpMoves
<1>3. CASE p \in Hook /\ Go(p, "ack")
  <2> DEFINE m == [me[p] EXCEPT !.pc = "ack"]
  <2>1. m \in Local /\ CopyHeld(m) /\ Set(p, m)
    BY <1>3, AtType DEF At, Go, Label
  <2>2. Held(p, m)
    BY <1>1, <1>3 DEF Held, Charge, BeforeClaim, Local
  <2> QED
    BY <1>1, <2>1, <2>2, OpMoves
<1> QED
  BY <1>2, <1>3

(* A request or a delivery closes the operation. *)
LEMMA ResolveStep == ASSUME Inv, NEW p \in Proc, Resolve(p) PROVE Good
<1> DEFINE o == [NoOp EXCEPT !.attempts = op[me[p].key].attempts,
                             !.status = IF me[p].pc = "close_ok" THEN "succeeded" ELSE "dead_letter"]
<1>1. op[me[p].key] \in Op
  BY Mine, RowFacts DEF Resolve, Held, Charge
<1>2. o \in Op /\ (o.status = "succeeded" => me[p].pc = "close_ok")
  BY <1>1 DEF NoOp, Op
<1>3. op' = op \/ op' = [op EXCEPT ![me[p].key] = o]
  BY DEF Resolve
<1> QED
  BY <1>2, <1>3, Closes DEF Resolve

(* The worker closes the operation of a settled refund. *)
LEMMA CompleteStep == ASSUME Inv, NEW p \in Proc, Complete(p) PROVE Good
<1> DEFINE o == [NoOp EXCEPT !.attempts = op[me[p].key].attempts, !.status = "succeeded"]
<1>1. op[me[p].key] \in Op
  BY Mine, RowFacts DEF Complete, Held, Charge
<1>2. o \in Op
  BY <1>1 DEF NoOp, Op
<1>3. op' = op \/ op' = [op EXCEPT ![me[p].key] = o]
  BY DEF Complete
<1> QED
  BY <1>2, <1>3, Closes DEF Complete

(* The worker releases the operation. *)
LEMMA OpRetryStep == ASSUME Inv, NEW p \in Proc, OpRetry(p) PROVE Good
<1> DEFINE o == [NoOp EXCEPT !.attempts = op[me[p].key].attempts,
                             !.status = IF me[p].n >= MaxAttempts THEN "dead_letter" ELSE "failed"]
<1>1. op[me[p].key] \in Op
  BY Mine, RowFacts DEF OpRetry, Held, Charge
<1>2. o \in Op /\ o.status # "succeeded"
  BY <1>1 DEF NoOp, Op
<1>3. op' = op \/ op' = [op EXCEPT ![me[p].key] = o]
  BY DEF OpRetry
<1> QED
  BY <1>2, <1>3, Closes DEF OpRetry

(* A delivery reports what Stripe has. *)
LEMMA DeliverStep == ASSUME Inv, NEW p \in Proc, NEW e \in outbox, Deliver(p, e) PROVE Good
<1> DEFINE c == [Blank EXCEPT !.pc = "total_read", !.event = e]
           m == [Blank EXCEPT !.pc = "hook_read", !.key = e.key, !.ans = e.status,
                              !.stamp = e.created, !.event = e]
<1>1. e \in Event /\ EventFollows(e) /\ ~Manual /\ p \in Hook
  BY DEF Inv, TypeOK, RefundsInv, ManualAlone, Deliver
<1>2. CASE e.kind = "charge"
  <2>1. c \in Local
    BY <1>1, BlankType DEF Local, Label
  <2>2. Held(p, c) /\ CopyHeld(c)
    BY <1>1, <1>2 DEF Held, CopyHeld, Charge, BeforeClaim, Blank, NoRow, EventFollows
  <2> QED
    BY <1>2, <2>1, <2>2, OnlyMe DEF Deliver, Inv, TypeOK
<1>3. CASE e.kind = "refund"
  <2>1. e.key \in Key /\ e.status \in Answered /\ e.created \in Nat
    BY <1>1, <1>3 DEF Event, Answered
  <2>2. m \in Local
    BY <1>1, <2>1, BlankType DEF Local, Label, Answered
  <2>3. Held(p, m) /\ CopyHeld(m)
    BY <1>1, <1>3, <2>1 DEF Held, CopyHeld, Charge, BeforeClaim, Blank, NoRow, EventFollows
  <2> QED
    BY <1>3, <2>2, <2>3, OnlyMe DEF Deliver, Inv, TypeOK
<1> QED
  BY <1>1, <1>2, <1>3 DEF Event

(* An acknowledged event is gone. *)
LEMMA AcknowledgeStep == ASSUME Inv, NEW p \in Proc, Acknowledge(p) PROVE Good
<1>1. Finished \in Local /\ Held(p, Finished) /\ CopyHeld(Finished) /\ Set(p, Finished)
  BY BlankType, FinishedHeld DEF Inv, Acknowledge, Go
<1>2. UNCHANGED <<refunded, row, op, stripe, paid, clock, faults>> /\ outbox' \subseteq outbox
  BY DEF Acknowledge
<1>3. TypeOK'
  BY <1>1, <1>2 DEF Inv, TypeOK, Set, Local
<1>4. Advance
  BY <1>2 DEF Advance, Inv, TypeOK, Exists
<1>5. PICK l \in Local : l = Finished
  BY <1>1
<1>6. Held(p, l)' /\ CopyHeld(l)'
  BY <1>1, <1>3, <1>4, <1>5, HeldKept DEF Inv
<1>7. RowsInv'
  BY <1>2, <1>3, <1>4, RowsKept DEF Inv, RefundsInv, RowsInv
<1>8. ManualAlone' /\ (~Manual => refunded' <= paid')
  BY <1>2 DEF Inv, RefundsInv, ManualAlone
<1>9. RefundsInv'
  BY <1>1, <1>2, <1>3, <1>4, <1>5, <1>6, <1>7, <1>8, Frame
<1> QED
  BY <1>2, <1>3, <1>9 DEF Good, Keeps

(* A statement fails. *)
LEMMA FailsStep == ASSUME Inv, NEW p \in Proc, Fails(p) PROVE Good
<1>1. /\ me[p].pc \notin {"idle", "done"} /\ faults' \in Nat
      /\ UNCHANGED <<refunded, row, op, stripe, paid, outbox, clock>>
  BY DEF Fails, Fault, Inv, TypeOK
<1>2. CASE Go(p, "end")
  BY <1>1, <1>2, Ends
<1>3. CASE me[p].pc = "reject" /\ Go(p, "close_bad")
  <2>1. me[p] \in Local /\ Held(p, me[p])
    BY Mine
  <2>2. Held(p, [me[p] EXCEPT !.pc = "close_bad"])
    BY <1>3, <2>1 DEF Held, Charge, BeforeClaim, Local
  <2> QED
    BY <1>1, <1>3, <2>2, MovesOn DEF Label
<1>4. CASE Go(p, OnError(p))
  BY <1>1, <1>4, Errs
<1> QED
  BY <1>2, <1>3, <1>4 DEF Fails

(* A process dies. *)
LEMMA DiesStep == ASSUME Inv, NEW p \in Proc, Dies(p) PROVE Good
  BY Ends DEF Dies, Fault, Inv, TypeOK

(* Stripe completes or fails a pending refund. *)
LEMMA StripeSettlesStep == ASSUME Inv, NEW k \in Key, StripeSettles(k) PROVE Good
<1>1. stripe[k].status = "pending" /\ UNCHANGED <<refunded, row, op, clock, faults, me>>
  BY DEF StripeSettles
<1>2. PICK st \in {"succeeded", "failed"} : Becomes(k, stripe[k].amount, stripe[k].first, st)
  BY DEF StripeSettles
<1>3. /\ Exists(k) /\ stripe[k].amount = row[k].amount /\ stripe[k].amount \in Nat
      /\ stripe[k].first \in {"pending", "succeeded", "failed", "rejected"} /\ ~Manual
  BY <1>1, RowFacts DEF StripeFollows, Refund, Inv, RefundsInv, ManualAlone
<1>4. PICK a \in Nat, f \in {"pending", "succeeded", "failed", "rejected"} :
             a = stripe[k].amount /\ f = stripe[k].first
  BY <1>3
<1>5. me' \in [Proc -> Local] /\ faults' \in Nat
  BY <1>1 DEF Inv, TypeOK, Local
<1>6. /\ TypeOK' /\ Advance /\ RowsInv' /\ refunded' <= paid' /\ Keeps
      /\ \A e \in outbox' : e \in outbox \/ EventFollows(e)'
  BY <1>1, <1>2, <1>3, <1>4, <1>5, StripeMoves
<1>7. ASSUME NEW p \in Proc PROVE RefundsInv'
  <2>1. PICK l \in Local : l = me[p]
    BY Mine
  <2>2. Set(p, l)
    BY <1>1, <2>1 DEF Set, Inv, TypeOK, Local
  <2>3. Held(p, l)' /\ CopyHeld(l)'
    BY <1>6, <2>1, Mine, HeldKept DEF Inv
  <2> QED
    BY <1>3, <1>6, <2>2, <2>3, Frame DEF ManualAlone
<1>8. CASE Proc = {}
  <2>1. ProcInv'
    BY <1>8 DEF ProcInv
  <2>2. \A e \in outbox' : EventFollows(e)'
    BY <1>6, EventKept DEF Inv, TypeOK, RefundsInv
  <2> QED
    BY <1>1, <1>3, <1>6, <2>1, <2>2 DEF Good, RefundsInv, ManualAlone, Inv
<1> QED
  BY <1>6, <1>7, <1>8 DEF Good

(* Time passes. *)
LEMMA TickStep == ASSUME Inv, Tick PROVE Good
<1>1. clock' \in Nat /\ clock' > clock /\ UNCHANGED <<refunded, row, op, stripe, paid, outbox, faults, me>>
  BY DEF Tick, Inv, TypeOK
<1> QED
  BY <1>1 DEF Good, Keeps, Inv, TypeOK, RefundsInv, ManualAlone, RowsInv, ProcInv, EventFollows,
              StripeFollows, TargetsCovered, RowFollows, OpFollows, Held, CopyHeld, Exists, Accounted, Paid,
              Refused

-----------------------------------------------------------------------------
(* THE THEOREMS *)

(* The invariant holds initially. *)
LEMMA Start == Init => Inv
<1> SUFFICES ASSUME Init PROVE TypeOK /\ RefundsInv
  BY DEF Inv
<1>1. TypeOK
  <2>1. NoRow \in Row /\ NoOp \in Op
    BY DEF NoRow, Row, NoOp, Op
  <2> QED
    BY <2>1, BlankType DEF Init, TypeOK, Refund, Local
<1>2. RowsInv
  BY DEF Init, RowsInv, StripeFollows, TargetsCovered, RowFollows, Refused, OpFollows, Exists, NoRow, NoOp, Terminal
<1>3. ProcInv
  BY DEF Init, ProcInv, Held, CopyHeld, Blank, NoRow, Charge, BeforeClaim
<1> QED
  BY <1>1, <1>2, <1>3 DEF Init, RefundsInv, ManualAlone, NoRow, NoOp

(* Every step keeps the invariant and leaves terminal refunds as they were. *)
LEMMA Step == Inv /\ [Next]_vars => Good
<1> SUFFICES ASSUME Inv, [Next]_vars PROVE Good
  OBVIOUS
<1>1. CASE UNCHANGED vars
  BY <1>1 DEF Good, Keeps, vars, Inv, TypeOK, RefundsInv, ManualAlone, RowsInv, ProcInv, EventFollows,
              StripeFollows, TargetsCovered, RowFollows, OpFollows, Held, CopyHeld, Exists, Accounted, Paid,
              Refused
<1>2. ASSUME NEW p \in Proc, Continue(p) PROVE Good
  BY <1>2, LookupStep, ClaimStep, ReviveStep, SlotCheckStep, InsertStep, RecheckStep, EnsureStep,
     OpClaimStep, OpReadStep, CallStep, MarkRetryableStep, MarkFailedStep, RecordStep, StampStep, HookReadStep,
     HookWriteStep, TotalReadStep, TotalWriteStep, SettleStep, ResolveStep, CompleteStep, OpRetryStep,
     AcknowledgeStep DEF Continue
<1>3. ASSUME NEW p \in Proc, Fails(p) \/ Dies(p) PROVE Good
  BY <1>3, FailsStep, DiesStep
<1>4. ASSUME NEW p \in Proc, NEW k \in Key, Submit(p, k) \/ OpList(p, k) PROVE Good
  BY <1>4, SubmitStep, OpListStep
<1>5. ASSUME NEW p \in Proc, NEW e \in outbox, Deliver(p, e) PROVE Good
  BY <1>5, DeliverStep
<1>6. ASSUME NEW k \in Key, StripeSettles(k) PROVE Good
  BY <1>6, StripeSettlesStep
<1>7. CASE Tick
  BY <1>7, TickStep
<1> QED
  BY <1>1, <1>2, <1>3, <1>4, <1>5, <1>6, <1>7 DEF Next

(* The invariant of the refunds holds in every reachable state. *)
THEOREM RefundsInvariant == Spec => []Inv
<1>1. Inv /\ [Next]_vars => Inv'
  BY Step DEF Good, Inv
<1> QED
  BY Start, <1>1, PTL DEF Spec

(* The rows, Stripe's side and what every process holds keep their types    *)
(* whatever requests, workers, deliveries and faults there are.             *)
THEOREM TypeCorrect == Spec => []TypeOK
<1>1. Inv => TypeOK
  BY DEF Inv
<1> QED
  BY RefundsInvariant, <1>1, PTL

(* reconcile_refund_total, from whichever request, worker or delivery and   *)
(* however often, never shows more refunded than Stripe has paid back.      *)
THEOREM NeverOverstatedAlways == Spec => []NeverOverstated
<1>1. Inv => NeverOverstated
  BY DEF Inv, RefundsInv, NeverOverstated
<1> QED
  BY RefundsInvariant, <1>1, PTL

(* mark_succeeded comes after the order's total has the refund, and no      *)
(* later write takes it out again.                                          *)
THEOREM SettledIsAccountedAlways == Spec => []SettledIsAccounted
<1>1. Inv => SettledIsAccounted
  BY DEF Inv, RefundsInv, RowsInv, RowFollows, Accounted, SettledIsAccounted
<1> QED
  BY RefundsInvariant, <1>1, PTL

(* mark_failed and the failed answers it follows: a refund the ledger calls *)
(* failed is one Stripe refused, canceled or failed, or one for which a     *)
(* request was denied before Stripe's word on it.                           *)
THEOREM FailedMeansRefusedAlways == Spec => []FailedMeansRefused
<1>1. Inv => FailedMeansRefused
  BY DEF Inv, RefundsInv, RowsInv, RowFollows, Refused, FailedMeansRefused
<1> QED
  BY RefundsInvariant, <1>1, PTL

(* mark_completed and resolve_unleased: an operation is closed as succeeded *)
(* only over a refund the order's total has.                                *)
THEOREM ClosedAfterAccountingAlways == Spec => []ClosedAfterAccounting
<1>1. Inv => ClosedAfterAccounting
  BY DEF Inv, RefundsInv, RowsInv, OpFollows, Accounted, ClosedAfterAccounting
<1> QED
  BY RefundsInvariant, <1>1, PTL

(* record_provider_response, record_webhook_response and mark_succeeded     *)
(* leave a terminal provider status as it is.                               *)
THEOREM TerminalStays == Spec => TerminalNotRegressed
<1>1. Inv /\ [Next]_vars => [\A k \in Key : Terminal(row[k].pstatus) => row'[k].pstatus = row[k].pstatus]_vars
  BY Step DEF Good, Keeps
<1> QED
  BY RefundsInvariant, <1>1, PTL DEF Spec, TerminalNotRegressed
=============================================================================

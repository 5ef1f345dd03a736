------------------------------- MODULE Refunds -------------------------------
(***************************************************************************)
(* The refunds of one paid order (blocks/products: purchase.rs,            *)
(* repo/refunds.rs, repo/provider_operations.rs, stripe_provider.rs and    *)
(* the refund arms of stripe.rs).  Three kinds of process write the same   *)
(* three rows, the order, the refund ledger row and the queued operation:  *)
(*   - a refund request of an administrator or a seller;                   *)
(*   - the reconciliation worker, under a lease on the operation;          *)
(*   - a webhook delivery, under the lease that StripeEvents models.       *)
(*                                                                         *)
(* A step is one database statement or one Stripe call.  A refund is named *)
(* by its idempotency key; a key always asks for the same amount.          *)
(***************************************************************************)
EXTENDS Integers, FiniteSets

CONSTANTS
  Key, NoKey,   \* idempotency keys of refunds, and none
  Asked,        \* amount_minor of a key's requests; 0 asks for all that remains
  Total,        \* total_cents of the order
  Manual,       \* the order was not paid through Stripe
  Admin,        \* refund requests, each made once
  Worker,       \* the worker's passes, each over one operation
  Hook,         \* webhook deliveries, each made once
  NoOwner,      \* the empty processing_owner column
  MaxAttempts,  \* repo::MAX_ATTEMPTS
  MaxClock,     \* bound on time
  MaxBusy,      \* bound on the processes that are under way at a time
  MaxFaults     \* bound on lost and denied calls, failed statements and deaths

Proc == Admin \cup Worker \cup Hook

ASSUME KeyAssumption == NoKey \notin Key /\ Asked \in [Key -> Nat]
ASSUME TotalAssumption == Total \in Nat \ {0}
ASSUME ManualAssumption == Manual \in BOOLEAN
ASSUME ProcAssumption ==
  /\ Admin \cap Worker = {} /\ Admin \cap Hook = {} /\ Worker \cap Hook = {}
  /\ NoOwner \notin Proc
ASSUME BoundAssumption == MaxAttempts \in Nat \ {0} /\ MaxClock \in Nat \ {0} /\ MaxFaults \in Nat
                          /\ MaxBusy \in Nat

VARIABLES
  refunded,  \* refunded_total_cents of the order
  row,       \* impresspress__products__refunds
  op,        \* impresspress__products__provider_operations
  stripe,    \* Stripe's refund under each idempotency key
  paid,      \* Stripe: amount_refunded of the charge
  outbox,    \* Stripe: events not yet acknowledged
  clock,     \* seconds
  faults,    \* faults so far
  me         \* where each process is and what it holds

vars == <<refunded, row, op, stripe, paid, outbox, clock, faults, me>>

(* provider_refund_id is set or not: Stripe has one refund per key. *)
Row == [status : {"none", "pending", "provider_succeeded", "succeeded", "failed"},
        amount : Nat, target : Nat, rid : BOOLEAN,
        pstatus : {"none", "pending", "succeeded", "failed"}, stamp : Nat]

NoRow == [status |-> "none", amount |-> 0, target |-> 0, rid |-> FALSE,
          pstatus |-> "none", stamp |-> 0]

Op == [status : {"none", "pending", "processing", "failed", "succeeded", "dead_letter"},
       attempts : Nat, owner : Worker \cup {NoOwner}]

NoOp == [status |-> "none", attempts |-> 0, owner |-> NoOwner]

(* first is the answer Stripe replays to a repeated idempotency key; denied *)
(* is history: a request was refused before Stripe's word on the refund.    *)
Refund == [status : {"none", "pending", "succeeded", "failed", "rejected"},
           first : {"none", "pending", "succeeded", "failed", "rejected"}, amount : Nat,
           denied : BOOLEAN]

Event == [kind : {"refund"}, key : Key, status : {"pending", "succeeded", "failed"}, created : Nat]
         \cup [kind : {"charge"}, total : Nat]

Blank == [pc |-> "idle", key |-> NoKey, base |-> 0, amount |-> 0, target |-> 0,
          row |-> NoRow, op |-> NoOp, ans |-> "none", n |-> 0, tries |-> 0,
          stamp |-> 0, event |-> [kind |-> "charge", total |-> 0]]

Label ==
  {"idle", "done",
   "lookup", "claim", "revive", "slot", "insert", "recheck", "ensure",
   "op_claim", "op_read",
   "call", "unsettled", "reject", "record", "stamp", "hook_read", "hook_write",
   "total_read", "total_write", "settle", "close_ok", "close_bad",
   "complete", "fail", "op_retry", "ack"}

Init ==
  /\ refunded = 0 /\ paid = 0 /\ outbox = {} /\ clock = 1 /\ faults = 0
  /\ row = [k \in Key |-> NoRow]
  /\ op = [k \in Key |-> NoOp]
  /\ stripe = [k \in Key |-> [status |-> "none", first |-> "none", amount |-> 0, denied |-> FALSE]]
  /\ me = [p \in Proc |-> Blank]

-----------------------------------------------------------------------------
(* What a process does next. *)

(* What a process held is forgotten when it ends. *)
Finished == [Blank EXCEPT !.pc = "done"]

Fault == faults < MaxFaults /\ faults' = faults + 1

Set(p, l) == me' = [me EXCEPT ![p] = l]

Go(p, l) == Set(p, IF l = "end" THEN Finished ELSE [me[p] EXCEPT !.pc = l])

(* An error ends a request, makes a worker record a retry, and leaves an    *)
(* event unacknowledged for Stripe to send again.                           *)
OnError(p) == IF p \in Worker THEN "op_retry" ELSE "end"

(* Bug: a refund Stripe has accepted counts as paid. *)
AfterAnswerAccepted(p, a) ==
  CASE a \in {"succeeded", "pending"} -> "total_read"
    [] a = "failed" -> IF p \in Worker THEN "fail" ELSE "close_bad"
    [] OTHER -> "end"

(* After Stripe's answer a has been recorded. *)
AfterAnswer(p, a) ==
  CASE a = "succeeded" -> "total_read"
    [] a = "failed" -> IF p \in Worker THEN "fail" ELSE "close_bad"
    [] OTHER -> IF p \in Worker THEN "op_retry" ELSE IF p \in Hook THEN "ack" ELSE "end"

AfterTotal(p) ==
  IF p \in Hook /\ me[p].event.kind = "charge" THEN "ack" ELSE "settle"

AfterSettle(p) ==
  IF Manual THEN "end" ELSE IF p \in Worker THEN "complete" ELSE "close_ok"

Starts(p) ==
  /\ me[p].pc = "idle"
  /\ Cardinality({q \in Proc : me[q].pc \notin {"idle", "done"}}) < MaxBusy

-----------------------------------------------------------------------------
(* refund_purchase up to the claim *)

(* The order is read first; its total fixes the target of a new refund.  A  *)
(* manual order that is refunded in full is refused at once.                *)
Submit(p, k) ==
  /\ p \in Admin /\ Starts(p)
  /\ Set(p, IF Manual /\ refunded >= Total THEN Finished
            ELSE [Blank EXCEPT !.pc = "lookup", !.key = k, !.base = refunded])
  /\ UNCHANGED <<refunded, row, op, stripe, paid, outbox, clock, faults>>

Exists(k) == row[k].status # "none"

(* The absolute target a refund of amount a is claimed with. *)
Target(p, a) == me[p].base + a

(* A known key must ask for the same refund and takes over its pinned       *)
(* target; a new one must leave a refundable order within its total.        *)
Lookup(p) ==
  LET k == me[p].key
      a == IF Asked[k] = 0 THEN Total - me[p].base ELSE Asked[k]
  IN
  /\ me[p].pc = "lookup"
  /\ \/ /\ Exists(k) /\ (Asked[k] = 0 => row[k].target = Total)
        /\ IF Manual /\ row[k].status = "succeeded" THEN Go(p, "end")
           ELSE Set(p, [me[p] EXCEPT !.pc = "claim", !.amount = row[k].amount,
                                     !.target = row[k].target])
     \/ /\ ~Exists(k) /\ me[p].base < Total /\ a <= Total - me[p].base
        /\ Set(p, [me[p] EXCEPT !.pc = "claim", !.amount = a, !.target = Target(p, a)])
     \/ /\ IF Exists(k) THEN Asked[k] = 0 /\ row[k].target # Total
                        ELSE me[p].base >= Total \/ a > Total - me[p].base
        /\ Go(p, "end")
  /\ UNCHANGED <<refunded, row, op, stripe, paid, outbox, clock, faults>>

-----------------------------------------------------------------------------
(* repo::refunds::claim *)

Active(k) == row[k].status \in {"pending", "provider_succeeded"}

(* refunds_active_purchase_uniq: a write that would make a second refund of *)
(* the order active fails.                                                  *)
IndexAllows(k, st) ==
  st \in {"pending", "provider_succeeded"} => \A j \in Key \ {k} : ~Active(j)

Same(p) == row[me[p].key].amount = me[p].amount /\ row[me[p].key].target = me[p].target

Claimed(p, r) == Set(p, [me[p] EXCEPT !.pc = IF Manual THEN "total_read" ELSE "ensure", !.row = r])

Claim(p) ==
  LET k == me[p].key IN
  /\ me[p].pc = "claim"
  /\ IF ~Exists(k) THEN Go(p, "slot")
     ELSE IF ~Same(p) THEN Go(p, "end")
     ELSE IF row[k].status = "failed" THEN Go(p, "revive")
     ELSE Claimed(p, row[k])
  /\ UNCHANGED <<refunded, row, op, stripe, paid, outbox, clock, faults>>

(* The failed row is made pending again whatever it has become since. *)
Revive(p) ==
  LET k == me[p].key
      r == [row[k] EXCEPT !.status = "pending"]
  IN
  /\ me[p].pc = "revive"
  /\ IF IndexAllows(k, "pending")
     THEN row' = [row EXCEPT ![k] = r] /\ Claimed(p, r)
     ELSE Go(p, "end") /\ UNCHANGED row
  /\ UNCHANGED <<refunded, op, stripe, paid, outbox, clock, faults>>

SlotCheck(p) ==
  /\ me[p].pc = "slot"
  /\ Go(p, IF \E k \in Key : Active(k) THEN "end" ELSE "insert")
  /\ UNCHANGED <<refunded, row, op, stripe, paid, outbox, clock, faults>>

Insert(p) ==
  LET k == me[p].key
      r == [NoRow EXCEPT !.status = "pending", !.amount = me[p].amount, !.target = me[p].target]
  IN
  /\ me[p].pc = "insert"
  /\ IF ~Exists(k) /\ IndexAllows(k, "pending")
     THEN row' = [row EXCEPT ![k] = r] /\ Claimed(p, r)
     ELSE Go(p, "recheck") /\ UNCHANGED row
  /\ UNCHANGED <<refunded, op, stripe, paid, outbox, clock, faults>>

(* The insert lost against the same key, or against another active refund. *)
Recheck(p) ==
  LET k == me[p].key IN
  /\ me[p].pc = "recheck"
  /\ IF Exists(k) /\ Same(p) THEN Claimed(p, row[k]) ELSE Go(p, "end")
  /\ UNCHANGED <<refunded, row, op, stripe, paid, outbox, clock, faults>>

(* provider_operations::ensure, and the branch on the status as claimed. *)
Ensure(p) ==
  LET k == me[p].key
      r == me[p].row
  IN
  /\ me[p].pc = "ensure"
  /\ op' = IF op[k].status = "none"
           THEN [op EXCEPT ![k] = [NoOp EXCEPT !.status = "pending"]] ELSE op
  /\ Go(p, CASE r.status = "succeeded" -> "close_ok"
             [] r.status = "provider_succeeded" -> "total_read"
             [] r.status = "pending" /\ r.rid -> "end"
             [] OTHER -> "call")
  /\ UNCHANGED <<refunded, row, stripe, paid, outbox, clock, faults>>

-----------------------------------------------------------------------------
(* provider_operations::claim_due and claim_one *)

(* An operation as the worker's list returns it.  Whether its backoff or    *)
(* its lease has run out is left open: a pass may come at any time later.   *)
OpList(p, k) ==
  /\ p \in Worker /\ Starts(p)
  /\ op[k].status \in {"pending", "failed", "processing"}
  /\ Set(p, [Blank EXCEPT !.pc = "op_claim", !.key = k, !.op = op[k]])
  /\ UNCHANGED <<refunded, row, op, stripe, paid, outbox, clock, faults>>

(* The compare-and-set on status and owner takes the lease with the         *)
(* attempts of the row as read, or dead-letters a spent operation.          *)
OpClaim(p) ==
  LET k == me[p].key
      o == me[p].op
      matches == op[k].status = o.status /\ op[k].owner = o.owner
      spent == o.attempts + 1 > MaxAttempts
  IN
  /\ me[p].pc = "op_claim"
  /\ op' = IF ~matches THEN op
           ELSE [op EXCEPT ![k] =
                  IF spent THEN [NoOp EXCEPT !.status = "dead_letter", !.attempts = op[k].attempts]
                  ELSE [status |-> "processing", attempts |-> o.attempts + 1, owner |-> p]]
  /\ IF matches /\ ~spent
     THEN Set(p, [me[p] EXCEPT !.pc = "op_read", !.n = o.attempts + 1])
     ELSE Go(p, "end")
  /\ UNCHANGED <<refunded, row, stripe, paid, outbox, clock, faults>>

(* Bug: a refund the provider has completed is taken for a settled one. *)
OpReadProviderDone(p) ==
  LET k == me[p].key IN
  /\ me[p].pc = "op_read"
  /\ Set(p, [me[p] EXCEPT !.pc = IF row[k].status \in {"succeeded", "provider_succeeded"}
                                 THEN "complete" ELSE "call",
                          !.row = row[k]])
  /\ UNCHANGED <<refunded, row, op, stripe, paid, outbox, clock, faults>>

(* reconcile_refund_operation reads the ledger row it works from. *)
OpRead(p) ==
  LET k == me[p].key IN
  /\ me[p].pc = "op_read"
  /\ Set(p, [me[p] EXCEPT !.pc = IF row[k].status = "succeeded" THEN "complete" ELSE "call",
                          !.row = row[k]])
  /\ UNCHANGED <<refunded, row, op, stripe, paid, outbox, clock, faults>>

-----------------------------------------------------------------------------
(* Stripe *)

RefundEvent(k, st) == [kind |-> "refund", key |-> k, status |-> st, created |-> clock]

(* Stripe's refund under k reaches status st; money moves when it succeeds. *)
Becomes(k, a, f, st) ==
  /\ stripe' = [stripe EXCEPT ![k].status = st, ![k].first = f, ![k].amount = a]
  /\ paid' = IF st = "succeeded" THEN paid + a ELSE paid
  /\ outbox' = outbox \cup
       CASE st = "succeeded" -> {RefundEvent(k, st), [kind |-> "charge", total |-> paid + a]}
         [] st = "rejected"  -> {}
         [] OTHER            -> {RefundEvent(k, st)}

(* The first call under a key creates the refund or is rejected. *)
Creates(p) ==
  LET k == me[p].key
      a == me[p].row.amount
  IN
  /\ stripe[k].status = "none"
  /\ \E st \in {"pending", "succeeded", "failed", "rejected"} :
       /\ st \in {"pending", "succeeded"} => a <= Total - paid
       /\ Becomes(k, a, st, st)

StripeSettles(k) ==
  /\ stripe[k].status = "pending"
  /\ \E st \in {"succeeded", "failed"} :
       /\ st = "succeeded" => stripe[k].amount <= Total - paid
       /\ Becomes(k, stripe[k].amount, stripe[k].first, st)
  /\ UNCHANGED <<refunded, row, op, clock, faults, me>>

(* Bug: an ambiguous failure is taken for a rejection. *)
AnswerLostRejects(p, a) ==
  LET next == CASE a \in {"lost", "rejected"} -> IF p \in Worker THEN "op_retry" ELSE "reject"
                [] OTHER -> IF me[p].row.rid /\ p \in Worker THEN "stamp" ELSE "record"
  IN Set(p, [me[p] EXCEPT !.pc = next, !.ans = a])

(* create_refund, or retrieve_refund for a worker whose row carries the     *)
(* refund id.  The answer may be lost with the call done or not (a          *)
(* transport error, 409, 429 or 5xx).                                       *)
Answer(p, a) ==
  LET next == CASE a \in {"lost", "rejected"} ->
                     (IF p \in Worker THEN "op_retry" ELSE IF a = "lost" THEN "unsettled" ELSE "reject")
                [] OTHER -> IF me[p].row.rid /\ p \in Worker THEN "stamp" ELSE "record"
  IN Set(p, [me[p] EXCEPT !.pc = next, !.ans = a])

(* A request's call is refused, whatever has been paid under its key: the   *)
(* Stripe client cannot be loaded or is for the other mode, or Stripe does  *)
(* not accept its credentials.  (A worker takes that for a lost answer.)    *)
Denied(p) ==
  /\ p \in Admin /\ Fault
  /\ Answer(p, "rejected")
  /\ stripe' = [stripe EXCEPT ![me[p].key].denied = TRUE]
  /\ UNCHANGED <<paid, outbox>>

Call(p) ==
  LET k == me[p].key
      retrieves == me[p].row.rid /\ p \in Worker
  IN
  /\ me[p].pc = "call"
  /\ \/ /\ ~retrieves /\ Creates(p)
        /\ \/ Answer(p, stripe'[k].first) /\ UNCHANGED faults
           \/ Answer(p, "lost") /\ Fault
     \/ /\ \/ Answer(p, "lost") /\ Fault
           \/ /\ stripe[k].status # "none"
              /\ Answer(p, IF retrieves THEN stripe[k].status ELSE stripe[k].first)
              /\ UNCHANGED faults
        /\ UNCHANGED <<stripe, paid, outbox>>
     \/ Denied(p)
  /\ UNCHANGED <<refunded, row, op, clock>>

(* A worker stamps what it retrieved with the time at which it came. *)
Stamp(p) ==
  /\ me[p].pc = "stamp"
  /\ Set(p, [me[p] EXCEPT !.pc = "hook_read", !.stamp = clock])
  /\ UNCHANGED <<refunded, row, op, stripe, paid, outbox, clock, faults>>

-----------------------------------------------------------------------------
(* Recording the answer *)

(* A write to the ledger row that would set its status to st; the unique    *)
(* index can refuse it.                                                     *)
WriteRow(p, r, next, refused) ==
  LET k == me[p].key IN
  IF IndexAllows(k, r.status)
  THEN row' = [row EXCEPT ![k] = r] /\ Go(p, next)
  ELSE UNCHANGED row /\ Go(p, refused)

(* mark_retryable_error: the claim stays active whatever it was. *)
MarkRetryable(p) ==
  /\ me[p].pc = "unsettled"
  /\ WriteRow(p, [row[me[p].key] EXCEPT !.status = "pending"], "end", "end")
  /\ UNCHANGED <<refunded, op, stripe, paid, outbox, clock, faults>>

(* mark_failed, by a rejected request or a worker that found the refund     *)
(* failed or canceled.                                                      *)
MarkFailed(p) ==
  /\ me[p].pc \in {"reject", "fail"}
  /\ WriteRow(p, [row[me[p].key] EXCEPT !.status = "failed"], "close_bad", "end")
  /\ UNCHANGED <<refunded, op, stripe, paid, outbox, clock, faults>>

(* Bug: the provider's word for a failure is stored as the ledger's. *)
LedgerStatusRaw(a, current) ==
  CASE a = "succeeded" -> "provider_succeeded"
    [] a = "failed" -> "canceled"
    [] OTHER -> "pending"

LedgerStatus(a, current) ==
  CASE a = "succeeded" /\ current = "succeeded" -> "succeeded"
    [] a = "succeeded" /\ current # "succeeded" -> "provider_succeeded"
    [] a = "failed" -> "failed"
    [] OTHER -> "pending"

(* Bug: the first answer is recorded over a webhook's newer one. *)
RecordOverWebhook(p) ==
  LET k == me[p].key IN
  /\ me[p].pc = "record"
  /\ WriteRow(p, [row[k] EXCEPT !.rid = TRUE, !.pstatus = me[p].ans,
                                !.status = LedgerStatus(me[p].ans, "none")],
              AfterAnswer(p, me[p].ans), OnError(p))
  /\ UNCHANGED <<refunded, op, stripe, paid, outbox, clock, faults>>

(* record_provider_response: a row some webhook has stamped is left alone. *)
Record(p) ==
  LET k == me[p].key IN
  /\ me[p].pc = "record"
  /\ IF row[k].stamp > 0 THEN UNCHANGED row /\ Go(p, AfterAnswer(p, me[p].ans))
     ELSE WriteRow(p, [row[k] EXCEPT !.rid = TRUE, !.pstatus = me[p].ans,
                                     !.status = LedgerStatus(me[p].ans, "none")],
                   AfterAnswer(p, me[p].ans), OnError(p))
  /\ UNCHANGED <<refunded, op, stripe, paid, outbox, clock, faults>>

Terminal(st) == st \in {"succeeded", "failed"}

(* Where record_webhook_response leaves a caller whose answer is not        *)
(* applied: a worker goes on with it, a delivery acknowledges.              *)
NotApplied(p) == IF p \in Worker THEN AfterAnswer(p, me[p].ans) ELSE "ack"

(* record_webhook_response: the stored projection wins when it is newer, or *)
(* terminal in the same second; a newer terminal contradiction is an error. *)
(* A delivery has looked its row up by the refund id before, and            *)
(* acknowledges one no row carries.                                         *)
HookRead(p) ==
  LET r == row[me[p].key]
      l == me[p]
      contradicts == r.pstatus # l.ans /\ Terminal(r.pstatus)
      next == CASE ~r.rid -> "ack"
                [] r.rid /\ r.stamp > l.stamp -> NotApplied(p)
                [] r.rid /\ r.stamp = l.stamp /\ contradicts -> NotApplied(p)
                [] r.rid /\ r.stamp < l.stamp /\ contradicts -> OnError(p)
                [] OTHER -> "hook_write"
  IN
  /\ l.pc = "hook_read"
  /\ IF next = "hook_write" THEN Set(p, [l EXCEPT !.pc = next, !.row = r]) ELSE Go(p, next)
  /\ UNCHANGED <<refunded, row, op, stripe, paid, outbox, clock, faults>>

(* The compare-and-set on the stamp and the provider status, tried thrice. *)
HookWrite(p) ==
  LET k == me[p].key
      l == me[p]
  IN
  /\ l.pc = "hook_write"
  /\ IF row[k].stamp = l.row.stamp /\ row[k].pstatus = l.row.pstatus
     THEN WriteRow(p, [row[k] EXCEPT !.pstatus = l.ans, !.stamp = l.stamp,
                                     !.status = LedgerStatus(l.ans, l.row.status)],
                   AfterAnswer(p, l.ans), OnError(p))
     ELSE /\ UNCHANGED row
          /\ IF l.tries < 2 THEN Set(p, [l EXCEPT !.pc = "hook_read", !.tries = @ + 1])
                            ELSE Go(p, OnError(p))
  /\ UNCHANGED <<refunded, op, stripe, paid, outbox, clock, faults>>

-----------------------------------------------------------------------------
(* purchases::reconcile_refund_total *)

TotalRead(p) ==
  LET t == IF AfterTotal(p) = "ack" THEN me[p].event.total ELSE row[me[p].key].target IN
  /\ me[p].pc = "total_read"
  /\ IF refunded >= t THEN Go(p, AfterTotal(p))
     ELSE Set(p, [me[p] EXCEPT !.pc = "total_write", !.base = refunded, !.target = t])
  /\ UNCHANGED <<refunded, row, op, stripe, paid, outbox, clock, faults>>

(* Bug: the order is updated by id alone. *)
TotalWriteById(p) ==
  /\ me[p].pc = "total_write"
  /\ refunded' = me[p].target
  /\ Go(p, AfterTotal(p))
  /\ UNCHANGED <<row, op, stripe, paid, outbox, clock, faults>>

(* The total moves only from the value read; whoever overtook this write    *)
(* may have reached the target for it.                                      *)
TotalWrite(p) ==
  LET matches == refunded = me[p].base IN
  /\ me[p].pc = "total_write"
  /\ refunded' = IF matches THEN me[p].target ELSE refunded
  /\ Go(p, IF matches \/ refunded >= me[p].target THEN AfterTotal(p) ELSE OnError(p))
  /\ UNCHANGED <<row, op, stripe, paid, outbox, clock, faults>>

(* mark_succeeded *)
Settle(p) ==
  /\ me[p].pc = "settle"
  /\ WriteRow(p, [row[me[p].key] EXCEPT !.status = "succeeded", !.pstatus = "succeeded"],
              AfterSettle(p), OnError(p))
  /\ UNCHANGED <<refunded, op, stripe, paid, outbox, clock, faults>>

-----------------------------------------------------------------------------
(* Closing the operation *)

(* resolve_unleased and resolve_for_aggregate write whatever the lease. *)
Resolve(p) ==
  LET k == me[p].key IN
  /\ me[p].pc \in {"close_ok", "close_bad"}
  /\ op' = IF op[k].status = "none" THEN op
           ELSE [op EXCEPT ![k] = [NoOp EXCEPT !.attempts = op[k].attempts,
                  !.status = IF me[p].pc = "close_ok" THEN "succeeded" ELSE "dead_letter"]]
  /\ Go(p, IF p \in Hook THEN "ack" ELSE "end")
  /\ UNCHANGED <<refunded, row, stripe, paid, outbox, clock, faults>>

Owns(p) == op[me[p].key].status = "processing" /\ op[me[p].key].owner = p

(* mark_completed *)
Complete(p) ==
  LET k == me[p].key IN
  /\ me[p].pc = "complete"
  /\ op' = IF ~Owns(p) THEN op
           ELSE [op EXCEPT ![k] = [NoOp EXCEPT !.attempts = op[k].attempts, !.status = "succeeded"]]
  /\ Go(p, "end")
  /\ UNCHANGED <<refunded, row, stripe, paid, outbox, clock, faults>>

(* mark_retry *)
OpRetry(p) ==
  LET k == me[p].key IN
  /\ me[p].pc = "op_retry"
  /\ op' = IF ~Owns(p) THEN op
           ELSE [op EXCEPT ![k] = [NoOp EXCEPT !.attempts = op[k].attempts,
                  !.status = IF me[p].n >= MaxAttempts THEN "dead_letter" ELSE "failed"]]
  /\ Go(p, "end")
  /\ UNCHANGED <<refunded, row, stripe, paid, outbox, clock, faults>>

-----------------------------------------------------------------------------
(* The refund and charge arms of handle_webhook *)

Deliver(p, e) ==
  /\ p \in Hook /\ Starts(p)
  /\ e \in outbox
  /\ Set(p, IF e.kind = "charge" THEN [Blank EXCEPT !.pc = "total_read", !.event = e]
            ELSE [Blank EXCEPT !.pc = "hook_read", !.key = e.key, !.ans = e.status,
                               !.stamp = e.created, !.event = e])
  /\ UNCHANGED <<refunded, row, op, stripe, paid, outbox, clock, faults>>

Acknowledge(p) ==
  /\ me[p].pc = "ack"
  /\ outbox' = outbox \ {me[p].event}
  /\ Go(p, "end")
  /\ UNCHANGED <<refunded, row, op, stripe, paid, clock, faults>>

-----------------------------------------------------------------------------
(* A statement fails (one whose effect stood is a step taken before). *)
Fails(p) ==
  /\ me[p].pc \notin {"idle", "done"} /\ Fault
  /\ Go(p, CASE me[p].pc \in {"op_claim", "complete", "op_retry", "close_bad"} -> "end"
             [] me[p].pc = "reject" -> "close_bad"
             [] OTHER -> OnError(p))
  /\ UNCHANGED <<refunded, row, op, stripe, paid, outbox, clock>>

(* The process dies. *)
Dies(p) ==
  /\ me[p].pc \notin {"idle", "done"} /\ Fault
  /\ Go(p, "end")
  /\ UNCHANGED <<refunded, row, op, stripe, paid, outbox, clock>>

Tick ==
  /\ clock < MaxClock
  /\ clock' = clock + 1
  /\ UNCHANGED <<refunded, row, op, stripe, paid, outbox, faults, me>>

Continue(p) ==
  \/ Lookup(p) \/ Claim(p) \/ Revive(p) \/ SlotCheck(p) \/ Insert(p) \/ Recheck(p) \/ Ensure(p)
  \/ OpClaim(p) \/ OpRead(p) \/ Call(p) \/ MarkRetryable(p) \/ MarkFailed(p) \/ Record(p)
  \/ Stamp(p) \/ HookRead(p) \/ HookWrite(p) \/ TotalRead(p) \/ TotalWrite(p) \/ Settle(p)
  \/ Resolve(p) \/ Complete(p) \/ OpRetry(p) \/ Acknowledge(p)

Next ==
  \/ \E p \in Proc :
       \/ Continue(p) \/ Fails(p) \/ Dies(p)
       \/ \E k \in Key : Submit(p, k) \/ OpList(p, k)
       \/ \E e \in outbox : Deliver(p, e)
  \/ \E k \in Key : StripeSettles(k)
  \/ Tick

Spec == Init /\ [][Next]_vars

-----------------------------------------------------------------------------

(* Types of the rows, of Stripe's side and of what each process holds. *)
TypeOK ==
  /\ refunded \in Nat /\ paid \in Nat /\ clock \in Nat /\ faults \in Nat
  /\ row \in [Key -> Row] /\ op \in [Key -> Op] /\ stripe \in [Key -> Refund]
  /\ outbox \subseteq Event
  /\ me \in [Proc -> [pc : Label, key : Key \cup {NoKey}, base : Nat, amount : Nat, target : Nat,
                      row : Row, op : Op, n : Nat, tries : 0 .. 2, stamp : Nat, event : Event,
                      ans : {"none", "pending", "succeeded", "failed", "rejected", "lost"}]]

(* The order never shows more refunded than Stripe has paid back, whatever   *)
(* requests, workers and webhooks of several refunds overlap or are repeated *)
(* (refund_purchase moves the total only after Stripe's success).            *)
NeverOverstated == ~Manual => refunded <= paid

(* contracts.rs, RefundStatus: "`succeeded` - settled against the order's    *)
(* refunded total".  A settled refund is in the order's total for good, no   *)
(* smaller total replaces it later.                                          *)
SettledIsAccounted ==
  \A k \in Key : row[k].status = "succeeded" => refunded >= row[k].target

(* contracts.rs, RefundStatus: "`failed` - the provider refused or canceled  *)
(* the refund": no race of a rejected request with a worker or a webhook,    *)
(* and no lost answer, leaves a paid refund marked failed.  It is not kept   *)
(* for a key under which a request was denied before Stripe's word: the code *)
(* marks that refund failed too, also one that Stripe has paid.              *)
FailedMeansRefused ==
  \A k \in Key : row[k].status = "failed" =>
    stripe[k].status \in {"failed", "rejected"} \/ stripe[k].denied

(* The queued operation is closed as succeeded only when the order's total   *)
(* has the refund: a process that dies before leaves it to the worker.       *)
ClosedAfterAccounting ==
  \A k \in Key : op[k].status = "succeeded" => refunded >= row[k].target

(* migration 017: "older deliveries must never regress a terminal refund";   *)
(* nor does a late answer to a request.                                      *)
TerminalNotRegressed ==
  [][\A k \in Key : Terminal(row[k].pstatus) => row'[k].pstatus = row[k].pstatus]_vars

(* Nobody is at work, no operation is queued and Stripe has nothing left to  *)
(* deliver: without another request nothing happens any more.                *)
Quiet ==
  /\ outbox = {}
  /\ \A p \in Proc : me[p].pc \in {"idle", "done"}
  /\ \A k \in Key : op[k].status \in {"none", "succeeded", "dead_letter"}

(* contracts.rs, RefundStatus: "`pending` - recorded; the provider has not   *)
(* answered".                                                                *)
PendingMeansUnanswered ==
  Quiet => \A k \in Key : row[k].status = "pending" => stripe[k].status \in {"none", "pending"}

(* purchase.rs, on manual refunds: "the ledger row pins the absolute         *)
(* refunded-total target at claim time".  Claims are one at a time, so the   *)
(* settled refunds of an order add up to its total.                          *)
RefundsAddUp ==
  Manual /\ Quiet =>
    \A j, k \in Key :
      j # k /\ row[j].status = "succeeded" /\ row[k].status = "succeeded"
      => refunded >= row[j].amount + row[k].amount

=============================================================================

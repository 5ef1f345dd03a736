----------------------------- MODULE StripeEvents -----------------------------
(***************************************************************************)
(* The lease on one Stripe webhook event (blocks/products/stripe.rs):      *)
(* deliveries of the same event that race each other, take over an expired *)
(* lease, retry after a failure and are at last dead-lettered, and the     *)
(* operator's replay of a stored event.                                    *)
(*                                                                         *)
(* A delivery is its own owner token (a fresh UUID per record_event).      *)
(* Every database statement is atomic and is one step; a process that dies *)
(* takes no further step.                                                  *)
(***************************************************************************)
EXTENDS Integers, FiniteSets

CONSTANTS
  Delivery,     \* deliveries and replays of the event, each run once
  NoOwner,      \* the empty processing_owner column
  Lease,        \* EVENT_LEASE_SECONDS, in ticks
  MaxAttempts,  \* repo::MAX_ATTEMPTS
  Delay,        \* repo::retry_delay_seconds, in ticks
  MaxClock,     \* bound on time
  MaxFaults,    \* bound on failed or unacknowledged statements
  MaxReplays    \* bound on the operator's replays

ASSUME OwnerAssumption == NoOwner \notin Delivery
ASSUME LeaseAssumption == Lease \in Nat \ {0}
ASSUME BudgetAssumption == MaxAttempts \in Nat \ {0}
ASSUME DelayAssumption == Delay \in [1 .. MaxAttempts -> Nat]
ASSUME BoundAssumption == MaxClock \in Nat /\ MaxFaults \in Nat /\ MaxReplays \in Nat

VARIABLES
  clock,
  event,        \* the row of impresspress__products__stripe_events
  faults,       \* database faults so far
  pc,           \* where each delivery is
  replays,      \* the deliveries the operator started
  now,          \* the delivery's now_value, captured before anything is read
  snap,         \* the row the delivery read
  attempts,     \* the attempts count the delivery claimed with
  applied,      \* history: some delivery ran every side effect
  claims,       \* history: leases granted since the event arrived or was reset
  resets        \* history: some replay has reset the row

vars == <<clock, event, faults, pc, replays, now, snap, attempts, applied, claims, resets>>

Status == {"none", "pending", "processing", "processed", "failed", "dead_letter"}

Row == [status : Status, attempts : Nat, owner : Delivery \cup {NoOwner},
        started : Nat, retry : Nat]

NoRow == [status |-> "none", attempts |-> 0, owner |-> NoOwner, started |-> 0, retry |-> 0]

(* A column set to the empty string or to null is NoOwner or 0. *)
Held(d, n) == [status |-> "processing", attempts |-> n, owner |-> d,
               started |-> now[d], retry |-> 0]

Settled(st, n, at) == [status |-> st, attempts |-> n, owner |-> NoOwner,
                       started |-> 0, retry |-> at]

Label ==
  {"idle", "replay_read", "replay_reset", "replayed",
   "insert", "read", "claim", "work", "seal", "release",
   "received", "duplicate", "dead_letter", "retry", "refused"}

(* The 2xx answers, after which Stripe stops redelivering. *)
Acknowledged == {"received", "duplicate", "dead_letter"}

Working == {"work", "seal", "release"}

Outcomes == {"ok", "lost", "unacked"}

Outcome(o) ==
  \/ o = "ok" /\ UNCHANGED faults
  \/ o # "ok" /\ faults < MaxFaults /\ faults' = faults + 1

Lands(o) == o # "lost"

Go(d, l) == pc' = [pc EXCEPT ![d] = l]

Init ==
  /\ clock = 0 /\ event = NoRow /\ faults = 0
  /\ pc = [d \in Delivery |-> "idle"]
  /\ replays = {}
  /\ now = [d \in Delivery |-> 0]
  /\ snap = [d \in Delivery |-> NoRow]
  /\ attempts = [d \in Delivery |-> 1]
  /\ applied = FALSE /\ claims = 0 /\ resets = FALSE

Tick ==
  /\ clock < MaxClock
  /\ clock' = clock + 1
  /\ UNCHANGED <<event, faults, pc, replays, now, snap, attempts, applied, claims, resets>>

-----------------------------------------------------------------------------
(* handle_webhook and record_event *)

(* A signed delivery arrives, or a replay hands the stored payload over. *)
Deliver(d) ==
  /\ pc[d] \in {"idle", "replayed"}
  /\ now' = [now EXCEPT ![d] = clock]
  /\ Go(d, "insert")
  /\ UNCHANGED <<clock, event, faults, replays, snap, attempts, applied, claims, resets>>

(* The insert that does nothing when the event id is already there. *)
Insert(d, o) ==
  /\ pc[d] = "insert" /\ Outcome(o)
  /\ IF Lands(o) /\ event.status = "none"
     THEN event' = Held(d, 1) /\ claims' = 1
     ELSE UNCHANGED <<event, claims>>
  /\ attempts' = [attempts EXCEPT ![d] = 1]
  /\ Go(d, IF o # "ok" THEN "retry"
           ELSE IF event.status = "none" THEN "work" ELSE "read")
  /\ UNCHANGED <<clock, replays, now, snap, applied, resets>>

LeaseIsLive(d) == now[d] - event.started < Lease

(* The row decides: a settled event is acknowledged, a held lease and a    *)
(* backoff that has not elapsed are answered for a later retry.            *)
Classify(d) ==
  CASE event.status = "processed"   -> "duplicate"
    [] event.status = "dead_letter" -> "dead_letter"
    [] event.status = "processing" /\ LeaseIsLive(d) -> "retry"
    [] event.status = "failed" /\ event.retry > now[d] -> "retry"
    [] OTHER -> "claim"

ReadRow(d) ==
  /\ pc[d] = "read"
  /\ snap' = [snap EXCEPT ![d] = event]
  /\ attempts' = [attempts EXCEPT ![d] = event.attempts + 1]
  /\ Go(d, Classify(d))
  /\ UNCHANGED <<clock, event, faults, replays, now, applied, claims, resets>>

(* Bug: the comparison leaves out the owner. *)
UnchangedStatusOnly(d) == event.status = snap[d].status

(* The compare-and-set both writes take: status and owner as read. *)
Unchanged(d) == event.status = snap[d].status /\ event.owner = snap[d].owner

Claim(d, o) ==
  /\ pc[d] = "claim" /\ attempts[d] <= MaxAttempts /\ Outcome(o)
  /\ IF Lands(o) /\ Unchanged(d)
     THEN event' = Held(d, attempts[d]) /\ claims' = claims + 1
     ELSE UNCHANGED <<event, claims>>
  /\ Go(d, IF o = "ok" /\ Unchanged(d) THEN "work" ELSE "retry")
  /\ UNCHANGED <<clock, replays, now, snap, attempts, applied, resets>>

(* Bug: the event is acknowledged as dead without moving the row. *)
ExhaustAcksOnly(d, o) ==
  /\ pc[d] = "claim" /\ attempts[d] > MaxAttempts /\ Outcome(o)
  /\ Go(d, IF o = "ok" /\ Unchanged(d) THEN "dead_letter" ELSE "retry")
  /\ UNCHANGED <<clock, event, replays, now, snap, attempts, applied, claims, resets>>

(* Out of budget: the row is dead-lettered before it is acknowledged. *)
Exhaust(d, o) ==
  /\ pc[d] = "claim" /\ attempts[d] > MaxAttempts /\ Outcome(o)
  /\ event' = IF Lands(o) /\ Unchanged(d)
              THEN Settled("dead_letter", event.attempts, 0) ELSE event
  /\ Go(d, IF o = "ok" /\ Unchanged(d) THEN "dead_letter" ELSE "retry")
  /\ UNCHANGED <<clock, replays, now, snap, attempts, applied, claims, resets>>

(* The event's side effects, to their end or to the first that fails. *)
Work(d) ==
  /\ pc[d] = "work"
  /\ \/ Go(d, "seal") /\ applied' = TRUE
     \/ Go(d, "release") /\ UNCHANGED applied
  /\ UNCHANGED <<clock, event, faults, replays, now, snap, attempts, claims, resets>>

OwnsLease(d) == event.status = "processing" /\ event.owner = d

(* Bug: the row is sealed by id alone. *)
MarkProcessedById(d, o) ==
  /\ pc[d] = "seal" /\ Outcome(o)
  /\ event' = IF Lands(o) THEN Settled("processed", event.attempts, 0) ELSE event
  /\ Go(d, IF o = "ok" THEN "received" ELSE "retry")
  /\ UNCHANGED <<clock, replays, now, snap, attempts, applied, claims, resets>>

(* mark_event_processed; a lost lease is answered for a retry. *)
MarkProcessed(d, o) ==
  /\ pc[d] = "seal" /\ Outcome(o)
  /\ event' = IF Lands(o) /\ OwnsLease(d)
              THEN Settled("processed", event.attempts, 0) ELSE event
  /\ Go(d, IF o = "ok" /\ OwnsLease(d) THEN "received" ELSE "retry")
  /\ UNCHANGED <<clock, replays, now, snap, attempts, applied, claims, resets>>

(* Bug: the backoff is taken from the time of the failure. *)
MarkFailedBackdates(d, o) ==
  /\ pc[d] = "release" /\ Outcome(o)
  /\ event' =
       IF ~(Lands(o) /\ OwnsLease(d)) THEN event
       ELSE IF attempts[d] >= MaxAttempts
            THEN Settled("dead_letter", event.attempts, 0)
            ELSE Settled("failed", event.attempts, clock - Delay[attempts[d]])
  /\ Go(d, "retry")
  /\ UNCHANGED <<clock, replays, now, snap, attempts, applied, claims, resets>>

(* fail_webhook and mark_event_failed; whether the write took effect or    *)
(* not, the answer asks for a retry.                                       *)
MarkFailed(d, o) ==
  /\ pc[d] = "release" /\ Outcome(o)
  /\ event' =
       IF ~(Lands(o) /\ OwnsLease(d)) THEN event
       ELSE IF attempts[d] >= MaxAttempts
            THEN Settled("dead_letter", event.attempts, 0)
            ELSE Settled("failed", event.attempts, clock + Delay[attempts[d]])
  /\ Go(d, "retry")
  /\ UNCHANGED <<clock, replays, now, snap, attempts, applied, claims, resets>>

-----------------------------------------------------------------------------
(* replay_webhook_event *)

ReplayStart(d) ==
  /\ pc[d] = "idle" /\ Cardinality(replays) < MaxReplays
  /\ replays' = replays \cup {d}
  /\ Go(d, "replay_read")
  /\ UNCHANGED <<clock, event, faults, now, snap, attempts, applied, claims, resets>>

ReplayRead(d) ==
  /\ pc[d] = "replay_read"
  /\ snap' = [snap EXCEPT ![d] = event]
  /\ Go(d, IF event.status \in {"failed", "dead_letter"} THEN "replay_reset" ELSE "refused")
  /\ UNCHANGED <<clock, event, faults, replays, now, attempts, applied, claims, resets>>

(* The reset compares the status only, and starts a new budget. *)
ReplayReset(d, o) ==
  /\ pc[d] = "replay_reset" /\ Outcome(o)
  /\ IF Lands(o) /\ event.status = snap[d].status
     THEN event' = Settled("pending", 0, 0) /\ claims' = 0 /\ resets' = TRUE
     ELSE UNCHANGED <<event, claims, resets>>
  /\ Go(d, IF o = "ok" /\ event.status = snap[d].status THEN "replayed" ELSE "refused")
  /\ UNCHANGED <<clock, replays, now, snap, attempts, applied>>

-----------------------------------------------------------------------------
(* A read that fails, or a stored row that does not decode or carries      *)
(* another payload's hash, changes nothing.                                *)
ReadFails(d) ==
  /\ pc[d] \in {"replayed", "read", "replay_read"} /\ Outcome("lost")
  /\ Go(d, IF pc[d] = "replay_read" THEN "refused" ELSE "retry")
  /\ UNCHANGED <<clock, event, replays, now, snap, attempts, applied, claims, resets>>

Step(d) ==
  \/ Deliver(d) \/ ReadRow(d) \/ Work(d) \/ ReplayStart(d) \/ ReplayRead(d) \/ ReadFails(d)
  \/ \E o \in Outcomes :
       \/ Insert(d, o) \/ Claim(d, o) \/ Exhaust(d, o)
       \/ MarkProcessed(d, o) \/ MarkFailed(d, o) \/ ReplayReset(d, o)

Next == Tick \/ \E d \in Delivery : Step(d)

Spec == Init /\ [][Next]_vars

-----------------------------------------------------------------------------

(* Types of the row, the deliveries' local state and the history. *)
TypeOK ==
  /\ clock \in Nat /\ event \in Row /\ faults \in Nat
  /\ pc \in [Delivery -> Label]
  /\ replays \subseteq Delivery
  /\ now \in [Delivery -> Nat]
  /\ snap \in [Delivery -> Row]
  /\ attempts \in [Delivery -> Nat \ {0}]
  /\ applied \in BOOLEAN /\ claims \in Nat /\ resets \in BOOLEAN

(* Two deliveries run the event's side effects at once only when one of     *)
(* them has outlived its lease: takeovers, retries and replays never hand   *)
(* the event to a second owner before ("the exclusive processing lease").   *)
LeaseExclusion ==
  \A a, b \in Delivery :
    /\ a # b /\ pc[a] \in Working /\ pc[b] \in Working
    => clock - now[a] >= Lease \/ clock - now[b] >= Lease

(* One delivery at most is answered as the one that processed the event,    *)
(* and the event then stays processed through every later redelivery,       *)
(* takeover and replay (mark_event_processed seals only the owner's lease). *)
SealedOnce ==
  \A a \in Delivery : pc[a] = "received" =>
    /\ event.status = "processed"
    /\ \A b \in Delivery : pc[b] = "received" => a = b

(* An event that Stripe was told not to send again has had all its side     *)
(* effects run, or is dead-lettered where the operator finds it, unless the *)
(* operator has since reset it ("acknowledging without a durable terminal   *)
(* state could lose the event").                                            *)
NoSilentLoss ==
  (\E d \in Delivery : pc[d] \in Acknowledged) =>
    applied \/ event.status = "dead_letter" \/ resets

(* repo/mod.rs: MAX_ATTEMPTS are the "attempts a leased unit of Stripe work *)
(* gets before it dead-letters"; record_event counts them on the row it     *)
(* read.                                                                    *)
RetryBudget == claims <= MaxAttempts

(* record_event, on why a spent event is dead-lettered before it is         *)
(* acknowledged: "only a failed/dead_letter row can be replayed, so a row   *)
(* left processing would be unrecoverable".  So once Stripe has its 2xx and *)
(* nothing is running, the event is processed or can be replayed.           *)
AcknowledgedIsRecoverable ==
  /\ \E d \in Delivery \ replays : pc[d] \in Acknowledged
  /\ \A d \in Delivery : pc[d] \in Acknowledged \cup {"idle", "retry", "refused"}
  => event.status \in {"processed", "failed", "dead_letter"}

-----------------------------------------------------------------------------
(* The inductive invariant. *)

(* A delivery that is past these has captured its now, for good. *)
Early == {"idle", "replay_read", "replay_reset", "replayed"}

Began(d) == pc[d] \notin Early

(* The row's lease dates from when its owner began. *)
LeaseStamped ==
  event.status = "processing" =>
    /\ event.owner \in Delivery /\ Began(event.owner)
    /\ event.started = now[event.owner]

BeganInPast == \A d \in Delivery : now[d] <= clock

(* What a delivery that goes on to claim has seen. *)
ClaimsFromSnapshot ==
  \A d \in Delivery : pc[d] = "claim" =>
    /\ snap[d].status \in {"pending", "processing", "failed"}
    /\ snap[d].status = "processing" =>
         /\ snap[d].owner \in Delivery /\ Began(snap[d].owner)
         /\ now[d] - now[snap[d].owner] >= Lease

ResetsFromSnapshot ==
  \A d \in Delivery :
    pc[d] = "replay_reset" => snap[d].status \in {"failed", "dead_letter"}

(* A delivery at work holds the row, or has outlived its lease. *)
WorkHoldsLease ==
  \A d \in Delivery :
    pc[d] \in Working => OwnsLease(d) \/ clock - now[d] >= Lease

(* The insert has left a row behind it. *)
ReadsARow == \A d \in Delivery : pc[d] = "read" => event.status # "none"

SealsAfterWork == \A d \in Delivery : pc[d] = "seal" => applied

ProcessedIsApplied == event.status = "processed" => applied

EventInv ==
  /\ LeaseStamped /\ BeganInPast /\ ClaimsFromSnapshot /\ ResetsFromSnapshot
  /\ WorkHoldsLease /\ ReadsARow /\ SealsAfterWork /\ ProcessedIsApplied
  /\ SealedOnce /\ NoSilentLoss

=============================================================================

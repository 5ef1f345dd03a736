---------------------------- MODULE Subscriptions ----------------------------
(***************************************************************************)
(* Subscriptions as Stripe's webhooks project them (blocks/products:       *)
(* stripe.rs, repo/subscriptions.rs, repo/purchases.rs, repo/mod.rs).      *)
(*                                                                         *)
(* Stripe sends events about a subscription, each stamped with the second  *)
(* it was created in.  They arrive in any order, are repeated until a      *)
(* delivery of them is sealed, and are handled by workers that interleave  *)
(* at every statement, also two workers on one event.  They move two       *)
(* projections: the order a checkout was made for, and the user's one      *)
(* platform-billing row, which the next subscription of the user takes     *)
(* over.                                                                   *)
(*                                                                         *)
(* "active" stands for every live status, which no statement here tells    *)
(* apart.  A plan, and the add-on totals, are the second of the event that *)
(* reported them.  Timestamps and the grace window, which no statement     *)
(* reads, and the notices to the platform are left out.  The lease of an   *)
(* event and its budget of attempts are the subject of StripeEvents.       *)
(***************************************************************************)
EXTENDS Integers, FiniteSets

CONSTANTS
  Sub,       \* Stripe's subscriptions of one user
  Worker,    \* handlers of deliveries
  Rounds,    \* rounds of a compare-and-swap loop
  MaxTime,   \* bound on the seconds in which Stripe does something
  MaxPending,  \* bound on the events that are not sealed
  None

ASSUME NoneAssumption == None \notin Sub
ASSUME BoundAssumption == Rounds \in Nat \ {0} /\ MaxTime \in Nat /\ MaxPending \in Nat

VARIABLES
  order,    \* impresspress__products__purchases: the order of each subscription
  closed,   \* subscriptions whose order failed, or was refunded in part or whole
  items,    \* subscriptions whose item snapshot was taken
  row,      \* impresspress__products__subscriptions: the user's row
  sealed,   \* events that were processed
  run,      \* each worker
  stripe, clock, events   \* Stripe: its subscriptions, the time, what it has sent

rows == <<order, closed, items, row>>
world == <<stripe, clock, events>>
vars == <<order, closed, items, row, sealed, run, stripe, clock, events>>

Status == {"unset", "active", "past_due", "unpaid", "canceled"}

(* The checkout of an order, and the checkout of a plan of the platform,    *)
(* are told apart by their metadata.                                        *)
Checkout == {"order", "plan"}
Kind == Checkout \cup {"updated", "paid", "failed", "deleted"}

Event == [kind : Kind, sub : Sub, status : Status, at : Nat]
NoEvent == [kind |-> "none", sub |-> None, status |-> "unset", at |-> 0]

(* The statement that completes an order writes the subscription's id to it *)
(* and its first status: an order without a status is not linked yet.       *)
Linked(s) == order[s].status # "unset"

Idle == [pc |-> "idle", ev |-> NoEvent, at |-> 0, status |-> "unset", round |-> 1]

Init ==
  /\ order = [s \in Sub |-> [status |-> "unset", at |-> 0]]
  /\ closed = {}
  /\ items = {}
  /\ row = [sub |-> None, status |-> "unset", at |-> 0, plan |-> 0, totals |-> 0]
  /\ sealed = {}
  /\ run = [w \in Worker |-> Idle]
  /\ stripe = [s \in Sub |-> "none"]
  /\ clock = 0
  /\ events = {}

-----------------------------------------------------------------------------
(* THE ORDER OF EVENTS *)

Terminal(status) == status = "canceled"

Rank(status) == CASE status = "canceled" -> 2
                  [] status \in {"past_due", "unpaid"} -> 1
                  [] OTHER -> 0

(* subscription_transition_allowed *)
Allowed(current, created, incoming, at) ==
  /\ created <= at
  /\ Terminal(current) => Terminal(incoming)
  /\ created = at => Rank(current) <= Rank(incoming)

(* The status an event asks for. *)
Incoming(e) == CASE e.kind = "paid" -> "active"
                 [] e.kind = "failed" -> "past_due"
                 [] e.kind = "deleted" -> "canceled"
                 [] OTHER -> e.status

-----------------------------------------------------------------------------
(* DELIVERIES *)

At(w, pc) == run[w].pc = pc
Go(w, pc) == run' = [run EXCEPT ![w].pc = pc]
Leave(w) == run' = [run EXCEPT ![w] = Idle]

(* What follows the order's half of an event. *)
Platform(e) == CASE e.kind = "paid" -> "recover"
                 [] e.kind = "deleted" -> "cancel"
                 [] OTHER -> "judge"

(* handle_webhook up to its dispatch.  An update without a status skips the *)
(* order.                                                                   *)
Take(w, e) ==
  LET first == CASE e.kind = "order" -> "complete"
                 [] e.kind = "plan" -> "find"
                 [] e.kind = "updated" /\ e.status = "unset" -> "exists"
                 [] OTHER -> "sync"
  IN /\ At(w, "idle")
     /\ e \in events \ sealed
     /\ run' = [run EXCEPT ![w] = [Idle EXCEPT !.pc = first, !.ev = e]]
     /\ UNCHANGED <<rows, sealed, world>>

(* mark_event_processed *)
Seal(w) ==
  /\ At(w, "seal")
  /\ sealed' = sealed \cup {run[w].ev}
  /\ Leave(w)
  /\ UNCHANGED <<rows, world>>

(* A statement fails or the process dies: Stripe delivers the event again. *)
Drop(w) ==
  /\ ~At(w, "idle")
  /\ Leave(w)
  /\ UNCHANGED <<rows, sealed, world>>

-----------------------------------------------------------------------------
(* CHECKOUT *)

(* Bug: the snapshot is tied to the completion. *)
CompleteOnly(w) ==
  LET s == run[w].ev.sub
      open == ~Linked(s) /\ s \notin closed
  IN /\ At(w, "complete")
     /\ order' = IF open THEN [order EXCEPT ![s].status = "active"] ELSE order
     /\ Go(w, IF open THEN "snapshot" ELSE "seal")
     /\ UNCHANGED <<closed, items, row, sealed, world>>

(* reconcile_checkout_session completes an order that is still open, once.  *)
(* Its guard on the session holds: the customer can pay only after the      *)
(* session's id was stored, or where that write failed for good.            *)
Complete(w) ==
  LET s == run[w].ev.sub
      open == ~Linked(s) /\ s \notin closed
  IN /\ At(w, "complete")
     /\ order' = IF open THEN [order EXCEPT ![s].status = "active"] ELSE order
     /\ Go(w, IF open THEN "snapshot" ELSE "due")
     /\ UNCHANGED <<closed, items, row, sealed, world>>

(* An order that was not open: the snapshot is due if an earlier delivery   *)
(* completed it, and skipped if it failed or was refunded.                  *)
SnapshotDue(w) ==
  LET s == run[w].ev.sub
  IN /\ At(w, "due")
     /\ Go(w, IF Linked(s) /\ s \notin closed THEN "snapshot" ELSE "seal")
     /\ UNCHANGED <<rows, sealed, world>>

(* snapshot_from_purchase *)
Snapshot(w) ==
  LET s == run[w].ev.sub
  IN /\ At(w, "snapshot")
     /\ items' = items \cup {s}
     /\ Go(w, "seal")
     /\ UNCHANGED <<order, closed, row, sealed, world>>

(* upsert_platform: the lookup, *)
Find(w) ==
  /\ At(w, "find")
  /\ Go(w, IF row.sub = None THEN "insert" ELSE "upsert")
  /\ UNCHANGED <<rows, sealed, world>>

(* the insert, which the unique user_id refuses to a second worker, *)
Insert(w) ==
  LET e == run[w].ev
  IN /\ At(w, "insert")
     /\ IF row.sub = None
        THEN /\ row' = [sub |-> e.sub, status |-> "active", at |-> e.at, plan |-> e.at,
                        totals |-> 0]
             /\ Go(w, "seal")
        ELSE Go(w, "upsert") /\ UNCHANGED row
     /\ UNCHANGED <<order, closed, items, sealed, world>>

(* Bug: a checkout always takes the row. *)
UpsertAlways(w) ==
  LET e == run[w].ev
  IN /\ At(w, "upsert")
     /\ row' = [row EXCEPT !.sub = e.sub, !.status = "active", !.at = e.at, !.plan = e.at]
     /\ Go(w, "seal")
     /\ UNCHANGED <<order, closed, items, sealed, world>>

(* and update_platform_if_current. *)
Upsert(w) ==
  LET e == run[w].ev
  IN /\ At(w, "upsert")
     /\ row' = IF row.at <= e.at
               THEN [row EXCEPT !.sub = e.sub, !.status = "active", !.at = e.at, !.plan = e.at]
               ELSE row
     /\ Go(w, "seal")
     /\ UNCHANGED <<order, closed, items, sealed, world>>

-----------------------------------------------------------------------------
(* THE ORDER *)

(* Bug: the loop has no end. *)
AgainForever(w, pc) == run' = [run EXCEPT ![w].pc = pc, ![w].round = @ + 1]

(* A compare-and-swap that missed: read again, or fail the delivery. *)
Again(w, pc) ==
  IF run[w].round = Rounds THEN Leave(w)
  ELSE run' = [run EXCEPT ![w].pc = pc, ![w].round = @ + 1]

(* sync_commerce_subscription reads the order and judges the event; a paid  *)
(* invoice only moves an order that is past due.                            *)
Sync(w) ==
  LET e == run[w].ev
      o == order[e.sub]
  IN /\ At(w, "sync")
     /\ IF ~Linked(e.sub) THEN Go(w, "exists")
        ELSE IF /\ Allowed(o.status, o.at, Incoming(e), e.at)
                /\ e.kind = "paid" => o.status = "past_due"
             THEN run' = [run EXCEPT ![w].pc = "sync_write", ![w].at = o.at,
                                     ![w].status = o.status]
             ELSE run' = [run EXCEPT ![w].pc = Platform(e), ![w].round = 1]
     /\ UNCHANGED <<rows, sealed, world>>

(* Bug: the write names the order only. *)
SyncWriteById(w) ==
  LET e == run[w].ev
  IN /\ At(w, "sync_write")
     /\ order' = [order EXCEPT ![e.sub].status = Incoming(e), ![e.sub].at = e.at]
     /\ run' = [run EXCEPT ![w].pc = Platform(e), ![w].round = 1]
     /\ UNCHANGED <<closed, items, row, sealed, world>>

(* Its write, over exactly what it read. *)
SyncWrite(w) ==
  LET e == run[w].ev
      o == order[e.sub]
  IN /\ At(w, "sync_write")
     /\ IF o.at = run[w].at /\ o.status = run[w].status
        THEN /\ order' = [order EXCEPT ![e.sub].status = Incoming(e), ![e.sub].at = e.at]
             /\ run' = [run EXCEPT ![w].pc = Platform(e), ![w].round = 1]
        ELSE Again(w, "sync") /\ UNCHANGED order
     /\ UNCHANGED <<closed, items, row, sealed, world>>

(* platform_subscription_exists: an event that matches no order and no row  *)
(* is not ours, or ahead of its checkout, and fails.                        *)
Exists(w) ==
  /\ At(w, "exists")
  /\ IF row.sub = run[w].ev.sub
     THEN run' = [run EXCEPT ![w].pc = Platform(run[w].ev), ![w].round = 1]
     ELSE Leave(w)
  /\ UNCHANGED <<rows, sealed, world>>

(* The order fails (mark_checkout_failed, reconcile_checkout_failure) or is *)
(* refunded (reconcile_refund_total).  Only the checkout's handler reads    *)
(* it, so before the checkout is sent is no different from just after.      *)
Closes(s) ==
  /\ s \notin closed
  /\ \E e \in events : e.kind = "order" /\ e.sub = s
  /\ closed' = closed \cup {s}
  /\ UNCHANGED <<order, items, row, sealed, run, world>>

-----------------------------------------------------------------------------
(* THE PLATFORM'S ROW *)

(* update_status_plan and mark_past_due read the row and judge the event.   *)
(* An update without a status is judged as if it restated the row's.        *)
Judge(w) ==
  LET e == run[w].ev
      incoming == IF Incoming(e) = "unset" THEN row.status ELSE Incoming(e)
  IN /\ At(w, "judge")
     /\ run' = [run EXCEPT
          ![w].pc = IF row.sub = e.sub /\ Allowed(row.status, row.at, incoming, e.at)
                    THEN "project" ELSE IF e.kind = "updated" THEN "owner" ELSE "seal",
          ![w].at = row.at, ![w].status = row.status]
     /\ UNCHANGED <<rows, sealed, world>>

(* Their write, over exactly what was read. *)
Project(w) ==
  LET e == run[w].ev
  IN /\ At(w, "project")
     /\ IF row.sub = e.sub /\ row.at = run[w].at /\ row.status = run[w].status
        THEN /\ row' = [row EXCEPT !.at = e.at,
                          !.status = IF Incoming(e) = "unset" THEN @ ELSE Incoming(e),
                          !.plan = IF e.kind = "updated" THEN e.at ELSE @]
             /\ Go(w, IF e.kind = "updated" THEN "owner" ELSE "seal")
        ELSE Again(w, "judge") /\ UNCHANGED row
     /\ UNCHANGED <<order, closed, items, sealed, world>>

(* find_user_by_stripe_sub *)
Owner(w) ==
  /\ At(w, "owner")
  /\ Go(w, IF row.sub = run[w].ev.sub THEN "totals" ELSE "seal")
  /\ UNCHANGED <<rows, sealed, world>>

(* Bug: the time is not compared. *)
TotalsAnyTime(w) ==
  LET e == run[w].ev
  IN /\ At(w, "totals")
     /\ row' = IF ~Terminal(row.status) THEN [row EXCEPT !.totals = e.at] ELSE row
     /\ Go(w, "seal")
     /\ UNCHANGED <<order, closed, items, sealed, world>>

(* Bug: only the time is compared. *)
TotalsByTime(w) ==
  LET e == run[w].ev
  IN /\ At(w, "totals")
     /\ row' = IF row.at <= e.at THEN [row EXCEPT !.totals = e.at] ELSE row
     /\ Go(w, "seal")
     /\ UNCHANGED <<order, closed, items, sealed, world>>

(* set_addon_totals, by user: not on a terminal row, nor on a newer one. *)
Totals(w) ==
  LET e == run[w].ev
  IN /\ At(w, "totals")
     /\ row' = IF row.at <= e.at /\ ~Terminal(row.status) THEN [row EXCEPT !.totals = e.at]
                                                          ELSE row
     /\ Go(w, "seal")
     /\ UNCHANGED <<order, closed, items, sealed, world>>

(* recover_from_paid_invoice *)
Recover(w) ==
  LET e == run[w].ev
  IN /\ At(w, "recover")
     /\ row' = IF row.sub = e.sub /\ row.status = "past_due" /\ row.at <= e.at
               THEN [row EXCEPT !.status = "active", !.at = e.at] ELSE row
     /\ Go(w, "seal")
     /\ UNCHANGED <<order, closed, items, sealed, world>>

(* cancel_and_reset_addons *)
CancelRow(w) ==
  LET e == run[w].ev
  IN /\ At(w, "cancel")
     /\ row' = IF row.sub = e.sub /\ row.at <= e.at
               THEN [row EXCEPT !.status = "canceled", !.totals = 0, !.at = e.at] ELSE row
     /\ Go(w, "seal")
     /\ UNCHANGED <<order, closed, items, sealed, world>>

-----------------------------------------------------------------------------
(* STRIPE *)

Sends(s, t, sent) ==
  /\ t <= MaxTime
  /\ clock' = t
  /\ events' = events \cup {[kind |-> m[1], sub |-> s, status |-> m[2], at |-> t] : m \in sent}
  /\ Cardinality(events' \ sealed) <= MaxPending
  /\ UNCHANGED <<rows, sealed, run>>

Becomes(s, status) == stripe' = [stripe EXCEPT ![s] = status]

Now == clock + 1

(* A user subscribes, and again after the last subscription ended. *)
Subscribes(s) ==
  /\ stripe[s] = "none"
  /\ \A r \in Sub : stripe[r] \in {"none", "canceled"}
  /\ Becomes(s, "active")
  /\ \E kind \in Checkout : Sends(s, Now, {<<kind, "unset">>})

(* An invoice fails, and fails for good. *)
Fails(s) ==
  /\ stripe[s] = "active"
  /\ Becomes(s, "past_due")
  /\ Sends(s, Now, {<<"failed", "unset">>, <<"updated", "past_due">>})

Lapses(s) ==
  /\ stripe[s] = "past_due"
  /\ Becomes(s, "unpaid")
  /\ Sends(s, Now, {<<"updated", "unpaid">>})

(* An open invoice is paid. *)
Pays(s) ==
  /\ stripe[s] \in {"past_due", "unpaid"}
  /\ Becomes(s, "active")
  /\ Sends(s, Now, {<<"paid", "unset">>, <<"updated", "active">>})

(* The plan or the add-ons change; the status may be missing. *)
Changes(s) ==
  /\ stripe[s] \in {"active", "past_due", "unpaid"}
  /\ UNCHANGED stripe
  /\ \E status \in {stripe[s], "unset"} : Sends(s, Now, {<<"updated", status>>})

(* An immediate cancellation sends an update and the deletion in one        *)
(* second, which may be the second of the change before it.                 *)
Cancels(s) ==
  /\ stripe[s] \in {"active", "past_due", "unpaid"}
  /\ Becomes(s, "canceled")
  /\ \E t \in {clock, Now}, status \in {stripe[s], "canceled"} :
       /\ \A e \in events : e.kind \in Checkout => e.at < t
       /\ Sends(s, t, {<<"updated", status>>, <<"deleted", "unset">>})

(* An invoice left open by the cancellation fails, or is paid. *)
Leftover(s) ==
  /\ stripe[s] = "canceled"
  /\ UNCHANGED stripe
  /\ \E kind \in {"failed", "paid"} : Sends(s, Now, {<<kind, "unset">>})

-----------------------------------------------------------------------------
Work(w) ==
  \/ \E e \in events : Take(w, e)
  \/ Complete(w) \/ SnapshotDue(w) \/ Snapshot(w) \/ Find(w) \/ Insert(w) \/ Upsert(w)
  \/ Sync(w) \/ SyncWrite(w) \/ Exists(w)
  \/ Judge(w) \/ Project(w) \/ Owner(w) \/ Totals(w) \/ Recover(w) \/ CancelRow(w)
  \/ Seal(w) \/ Drop(w)

Bills(s) ==
  \/ Subscribes(s) \/ Fails(s) \/ Lapses(s) \/ Pays(s) \/ Changes(s) \/ Cancels(s) \/ Leftover(s)

(* Nothing is left to deliver. *)
Finished ==
  /\ events = sealed /\ \A w \in Worker : At(w, "idle")
  /\ UNCHANGED vars

Next == (\E w \in Worker : Work(w)) \/ (\E s \in Sub : Bills(s) \/ Closes(s)) \/ Finished

Spec == Init /\ [][Next]_vars

-----------------------------------------------------------------------------
(* PROPERTIES *)

Label == {"idle", "complete", "due", "snapshot", "find", "insert", "upsert", "sync", "sync_write",
          "exists", "judge", "project", "owner", "totals", "recover", "cancel", "seal"}

TypeOK ==
  /\ order \in [Sub -> [status : Status, at : Nat]]
  /\ closed \subseteq Sub /\ items \subseteq Sub
  /\ row \in [sub : Sub \cup {None}, status : Status, at : Nat, plan : Nat, totals : Nat]
  /\ events \subseteq Event /\ sealed \subseteq events
  /\ run \in [Worker -> [pc : Label, ev : Event \cup {NoEvent}, at : Nat, status : Status,
                         round : 1 .. Rounds]]
  /\ \A w \in Worker : run[w].pc # "idle" => run[w].ev \in events
  /\ stripe \in [Sub -> {"none", "active", "past_due", "unpaid", "canceled"}]
  /\ clock \in Nat

AllSealed(s) == stripe[s] # "none" /\ \A e \in events : e.sub = s => e \in sealed

(* The newest events of s say which status it has.  An invoice, and an      *)
(* update without a status, do not.                                         *)
Restated(s) ==
  \E e \in events :
    /\ e.sub = s
    /\ e.kind \in Checkout \cup {"deleted"} \/ e.status # "unset"
    /\ \A d \in events : d.sub = s => d.at <= e.at

(* In whatever order the events of a subscription were delivered, repeated  *)
(* and interleaved: once every one is sealed, its order and the user's row  *)
(* say what Stripe says.  An event that does not restate the status may     *)
(* overtake one that does, and then only the next update settles it (see    *)
(* DeletionIsFinal).                                                        *)
Settled ==
  \A s \in Sub : AllSealed(s) /\ Restated(s) =>
    /\ Linked(s) => order[s].status = stripe[s]
    /\ row.sub = s => row.status = stripe[s]

Forward ==
  /\ \A s \in Sub : /\ order[s].at <= order'[s].at
                    /\ Terminal(order[s].status) => Terminal(order'[s].status)
  /\ row.sub # None => row.at <= row'.at /\ row.plan <= row'.plan
  /\ row'.sub = row.sub /\ Terminal(row.status) => Terminal(row'.status)

(* "strictly older events never apply, nothing leaves a terminal status":   *)
(* no interleaving of deliveries takes a projection back in time or out of  *)
(* its end, and no plan is replaced by an older event's.                    *)
ForwardOnly == [][Forward]_vars

(* set_addon_totals, which stamps nothing: "a failed delivery that Stripe   *)
(* retries after a newer one has landed must not put the older payload's    *)
(* totals back".                                                            *)
TotalsForward == [][row'.sub = row.sub => row'.totals = 0 \/ row.totals <= row'.totals]_vars

(* set_addon_totals: a cancellation that was sealed left no quota behind,   *)
(* and no update that was under way, or shares its second, brings it back.  *)
CanceledHasNoQuota ==
  \A e \in sealed : e.kind = "deleted" /\ row.sub = e.sub /\ Terminal(row.status) => row.totals = 0

(* "a crash between the completion write and the snapshot": a checkout that *)
(* is sealed left its order linked and its items recorded, wherever its     *)
(* deliveries stopped.  The exception is an order that failed or was        *)
(* refunded: the code warns, skips what it has not done, and seals.         *)
CheckoutIsWhole ==
  \A e \in sealed : e.kind = "order" =>
    e.sub \in closed \/ (Linked(e.sub) /\ e.sub \in items)

(* "A paid final invoice must not resurrect an already canceled             *)
(* subscription": once a deletion is sealed, neither its order nor the row  *)
(* that names it is active.                                                 *)
DeletionIsFinal ==
  \A e \in sealed : e.kind = "deleted" =>
    /\ order[e.sub].status # "active"
    /\ row.sub = e.sub => row.status # "active"
=============================================================================

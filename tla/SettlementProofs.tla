-------------------------- MODULE SettlementProofs --------------------------
(***************************************************************************)
(* Settled, CanceledHasNoQuota and TotalsForward of Subscriptions, for any *)
(* subscriptions, workers and bounds.                                      *)
(***************************************************************************)
EXTENDS SubscriptionsProofs

USE DEF At

-----------------------------------------------------------------------------
(* WHAT STRIPE SENDS *)

(* No event of the subscription was sent in a later second. *)
Newest(e) == \A d \in events : d.sub = e.sub => d.at <= e.at

(* Only an update names a status.  A subscription has one checkout, no two  *)
(* checkouts share a second, and the older of two subscriptions ended, and  *)
(* was last updated, before the younger one was made.                       *)
Succession ==
  /\ \A e \in events : e.at <= clock /\ (e.status # "unset" => e.kind = "updated")
  /\ \A c, d \in events :
       c.kind \in Checkout /\ d.kind \in Checkout /\ (c.sub = d.sub \/ c.at = d.at) => c = d
  /\ \A c, d \in events : c.kind \in Checkout /\ d.kind \in Checkout /\ c.at < d.at =>
       /\ stripe[c.sub] = "canceled"
       /\ \A e \in events : e.kind = "updated" /\ e.sub = c.sub => e.at < d.at

(* A subscription ended exactly when its deletion was sent, in the second   *)
(* of what else ends it, and after that only invoices follow.               *)
Endings ==
  /\ \A e \in events : Ends(e) => stripe[e.sub] = "canceled"
  /\ \A s \in Sub : stripe[s] = "canceled" => \E d \in events : d.kind = "deleted" /\ d.sub = s
  /\ \A d, e \in events : d.kind = "deleted" /\ e.sub = d.sub =>
       /\ Ends(e) => e.at = d.at
       /\ e.kind \in Checkout \cup {"updated"} => e.at <= d.at

(* While a subscription lives, its newest events say what Stripe has: a     *)
(* checkout as long as nothing followed it, an event that names no status   *)
(* only alone in its second.                                                *)
Latest ==
  \A e \in events : Newest(e) /\ stripe[e.sub] # "canceled" =>
    \/ /\ e.kind \in Checkout /\ stripe[e.sub] = "active"
       /\ \A d \in events : d.sub = e.sub => d = e
    \/ e.kind \notin Checkout /\ Incoming(e) = stripe[e.sub]
    \/ /\ e.kind = "updated" /\ e.status = "unset"
       /\ \A d \in events : d.sub = e.sub /\ Newest(d) => d = e

History == Stream /\ Succession /\ Endings /\ Latest

-----------------------------------------------------------------------------
(* WHAT THE PROJECTIONS HOLD *)

(* The event says the status, or leaves it as it was. *)
Says(e, status) ==
  \/ e.kind \in Checkout /\ status = "active"
  \/ e.kind \notin Checkout /\ Incoming(e) = status
  \/ e.kind = "updated" /\ e.status = "unset"

(* The user's row was begun by a checkout and last written by an event of   *)
(* its subscription, and its totals are no newer than its stamp.            *)
RowBased ==
  /\ row.sub = None => row.at = 0
  /\ row.sub # None => \E c \in events : c.kind = "plan" /\ c.sub = row.sub /\ c.at <= row.at
  /\ row.sub # None => \E e \in events : e.sub = row.sub /\ e.at = row.at /\ Says(e, row.status)
  /\ Terminal(row.status) => stripe[row.sub] = "canceled"
  /\ row.totals <= row.at

(* An order that is linked had its checkout, and was last written by that   *)
(* or by an event of its subscription that names a status.                  *)
OrderBased(s) ==
  /\ ~Linked(s) => order[s].at = 0
  /\ Linked(s) => \E c \in events : c.kind = "order" /\ c.sub = s
  /\ Linked(s) => \/ order[s].at = 0 /\ order[s].status = "active"
                  \/ \E e \in events : /\ e.sub = s /\ e.kind \notin Checkout
                                       /\ e.at = order[s].at /\ Incoming(e) = order[s].status
  /\ Terminal(order[s].status) => stripe[s] = "canceled"

-----------------------------------------------------------------------------
(* WHAT A DELIVERY LEAVES BEHIND *)

(* The projection has seen the event, or what makes it too late. *)
Covers(e, p) ==
  \/ Terminal(p.status)
  \/ e.at < p.at
  \/ e.kind = "updated" /\ e.at = p.at

(* No checkout of a plan can still give the user's row to the subscription. *)
Placed(s) == \A c \in events : c.kind = "plan" /\ c.sub = s => row.sub = s \/ c.at < row.at

(* The order's half of an event that names a status was handled. *)
OrderDone(e) ==
  e.kind = "deleted" \/ (e.kind = "updated" /\ e.status # "unset") =>
    \/ \A c \in events : c.kind = "order" => c.sub # e.sub
    \/ Linked(e.sub) /\ Covers(e, order[e.sub])

(* So was the row's. *)
RowDone(e) ==
  /\ e.kind \in {"updated", "deleted"} /\ row.sub = e.sub => Covers(e, row)
  /\ e.kind = "deleted" /\ row.sub = e.sub /\ Terminal(row.status) => row.totals = 0

Handled(e) == e.kind \notin Checkout => Placed(e.sub) /\ OrderDone(e) /\ RowDone(e)

(* At each place of a delivery: the kinds of event that come there, and     *)
(* what was done before.                                                    *)
Stage(pc, e) ==
  /\ pc \in {"sync", "sync_write", "exists", "judge", "project", "owner", "totals", "recover",
            "cancel"} => e.kind \notin Checkout
  /\ pc \in {"complete", "due", "snapshot"} => e.kind = "order"
  /\ pc = "recover" => e.kind = "paid"
  /\ pc \in {"judge", "project"} => e.kind \in {"updated", "failed"}
  /\ pc \in {"owner", "totals"} => e.kind = "updated"
  /\ pc = "sync_write" => Linked(e.sub)
  /\ pc \in {"judge", "project", "owner", "totals", "recover", "cancel"} =>
       Placed(e.sub) /\ OrderDone(e)
  /\ pc = "owner" => RowDone(e)
  /\ pc = "totals" => e.at <= row.at \/ (row.sub = e.sub /\ Covers(e, row))
  /\ pc = "seal" => Handled(e)

Delivering(w) == Stage(run[w].pc, run[w].ev)

Delivered ==
  /\ RowBased
  /\ \A s \in Sub : OrderBased(s)
  /\ \A e \in sealed : Handled(e)
  /\ \A w \in Worker : Delivering(w)

-----------------------------------------------------------------------------
(* THE STREAM *)

Live == {"active", "past_due", "unpaid"}

(* The four kinds of news: a first checkout, *)
Begins(s) ==
  /\ stripe[s] = "none" /\ stripe'[s] = "active"
  /\ \A r \in Sub : stripe[r] \in {"none", "canceled"}
  /\ clock' = clock + 1
  /\ \E n \in events' : /\ events' = events \cup {n} /\ n.sub = s /\ n.at = clock + 1
                        /\ n.kind \in Checkout /\ n.status = "unset"

(* a change of a subscription that lives, *)
Moves(s) ==
  /\ stripe[s] \in Live /\ stripe'[s] \in Live
  /\ clock' = clock + 1
  /\ \E n \in events' : n.sub = s /\ n.at = clock + 1
  /\ \A n \in events' \ events :
       /\ n.sub = s /\ n.at = clock + 1 /\ n.kind \in {"updated", "failed", "paid"} /\ ~Ends(n)
       /\ n.status # "unset" => n.kind = "updated"
       /\ Incoming(n) = stripe'[s] \/ (n.kind = "updated" /\ n.status = "unset" /\ events' = events \cup {n})

(* its end, *)
Stops(s) ==
  /\ stripe[s] \in Live /\ stripe'[s] = "canceled"
  /\ clock' \in {clock, clock + 1}
  /\ \A c \in events : c.kind \in Checkout => c.at < clock'
  /\ \A n \in events' \ events : /\ n.sub = s /\ n.at = clock' /\ n.kind \in {"updated", "deleted"}
                                 /\ n.status # "unset" => n.kind = "updated"
  /\ \E d \in events' : d.kind = "deleted" /\ d.sub = s

(* and an invoice it left open. *)
Lingers(s) ==
  /\ stripe[s] = "canceled" /\ stripe'[s] = "canceled"
  /\ clock' = clock + 1
  /\ \A n \in events' \ events : /\ n.sub = s /\ n.at = clock + 1 /\ n.status = "unset"
                                 /\ n.kind \in {"failed", "paid"}

(* Stripe's step is one of them. *)
LEMMA BillsKinds ==
  ASSUME TypeOK, NEW s \in Sub, Bills(s)
  PROVE  /\ events \subseteq events' /\ events' \subseteq Event
         /\ clock \in Nat /\ (\A r \in Sub : r # s => stripe'[r] = stripe[r])
         /\ Begins(s) \/ Moves(s) \/ Stops(s) \/ Lingers(s)
         /\ UNCHANGED <<order, items, row, sealed, run>>
<1>c. clock \in Nat /\ stripe \in [Sub -> {"none", "active", "past_due", "unpaid", "canceled"}] BY DEF TypeOK
<1>t. TypeOK' /\ events \subseteq events'
  <2>1. TypeOK' BY SubscriptionsType DEF Next
  <2>2. events \subseteq events' BY BillsNew
  <2> QED BY <2>1, <2>2
<1>e. events' \subseteq Event BY <1>t DEF TypeOK
<1>u. UNCHANGED <<order, items, row, sealed, run>>
  BY DEF Bills, Subscribes, Fails, Lapses, Pays, Changes, Cancels, Leftover, Sends, rows
<1>o. \A r \in Sub : r # s => stripe'[r] = stripe[r] BY BillsNew
<1>b. ASSUME NEW x, Becomes(s, x) PROVE stripe'[s] = x BY <1>b, <1>c DEF Becomes
<1>s. ASSUME NEW t, NEW sent, Sends(s, t, sent), NEW n \in events' \ events
      PROVE  \E m \in sent : n.kind = m[1] /\ n.sub = s /\ n.status = m[2] /\ n.at = t
  BY <1>s, SendsNew
<1>x. ASSUME NEW sent, Sends(s, Now, sent), NEW m \in sent
      PROVE  \E n \in events' : n.sub = s /\ n.at = clock + 1
  <2> DEFINE n == [kind |-> m[1], sub |-> s, status |-> m[2], at |-> clock + 1]
  <2>1. n \in events' BY <1>x DEF Sends, Now
  <2>2. n.sub = s /\ n.at = clock + 1 OBVIOUS
  <2> QED BY <2>1, <2>2
<1> SUFFICES Begins(s) \/ Moves(s) \/ Stops(s) \/ Lingers(s) BY <1>c, <1>t, <1>e, <1>u, <1>o
<1>1. CASE Subscribes(s)
  <2>1. PICK kind \in Checkout : Sends(s, Now, {<<kind, "unset">>}) BY <1>1 DEF Subscribes
  <2>2. events' = events \cup {[kind |-> kind, sub |-> s, status |-> "unset", at |-> clock + 1]} /\ clock' = clock + 1
    BY <2>1 DEF Sends, Now
  <2>3. stripe'[s] = "active" BY <1>1, <1>b DEF Subscribes
  <2>4. \E n \in events' : /\ events' = events \cup {n} /\ n.sub = s /\ n.at = clock + 1
                           /\ n.kind \in Checkout /\ n.status = "unset"
    <3> DEFINE n == [kind |-> kind, sub |-> s, status |-> "unset", at |-> clock + 1]
    <3> WITNESS n \in events'
    <3> QED BY <2>2
  <2> QED BY <1>1, <2>2, <2>3, <2>4 DEF Subscribes, Begins
<1>2. CASE Fails(s)
  <2>1. \A n \in events' \ events :
          /\ n.sub = s /\ n.at = clock + 1
          /\ (n.kind = "failed" /\ n.status = "unset") \/ (n.kind = "updated" /\ n.status = "past_due")
    BY <1>2, <1>s DEF Fails, Now
  <2>2. stripe'[s] = "past_due" /\ stripe[s] = "active" /\ clock' = clock + 1
    BY <1>2, <1>b DEF Fails, Sends, Now
  <2>3. <<"updated", "past_due">> \in {<<"failed", "unset">>, <<"updated", "past_due">>} OBVIOUS
  <2>4. \E n \in events' : n.sub = s /\ n.at = clock + 1 BY <1>2, <2>3, <1>x DEF Fails
  <2> QED BY <2>1, <2>2, <2>4 DEF Moves, Live, Ends, Incoming
<1>3. CASE Lapses(s)
  <2>1. \A n \in events' \ events : n.sub = s /\ n.at = clock + 1 /\ n.kind = "updated" /\ n.status = "unpaid"
    BY <1>3, <1>s DEF Lapses, Now
  <2>2. stripe'[s] = "unpaid" /\ stripe[s] = "past_due" /\ clock' = clock + 1
    BY <1>3, <1>b DEF Lapses, Sends, Now
  <2>3. <<"updated", "unpaid">> \in {<<"updated", "unpaid">>} OBVIOUS
  <2>4. \E n \in events' : n.sub = s /\ n.at = clock + 1 BY <1>3, <2>3, <1>x DEF Lapses
  <2> QED BY <2>1, <2>2, <2>4 DEF Moves, Live, Ends, Incoming
<1>4. CASE Pays(s)
  <2>1. \A n \in events' \ events :
          /\ n.sub = s /\ n.at = clock + 1
          /\ (n.kind = "paid" /\ n.status = "unset") \/ (n.kind = "updated" /\ n.status = "active")
    BY <1>4, <1>s DEF Pays, Now
  <2>2. stripe'[s] = "active" /\ stripe[s] \in {"past_due", "unpaid"} /\ clock' = clock + 1
    BY <1>4, <1>b DEF Pays, Sends, Now
  <2>3. <<"updated", "active">> \in {<<"paid", "unset">>, <<"updated", "active">>} OBVIOUS
  <2>4. \E n \in events' : n.sub = s /\ n.at = clock + 1 BY <1>4, <2>3, <1>x DEF Pays
  <2> QED BY <2>1, <2>2, <2>4 DEF Moves, Live, Ends, Incoming
<1>5. CASE Changes(s)
  <2>1. PICK status \in {stripe[s], "unset"} : Sends(s, Now, {<<"updated", status>>}) BY <1>5 DEF Changes
  <2>2. /\ events' = events \cup {[kind |-> "updated", sub |-> s, status |-> status, at |-> clock + 1]}
        /\ clock' = clock + 1
    BY <2>1 DEF Sends, Now
  <2>3. stripe' = stripe /\ stripe[s] \in Live BY <1>5 DEF Changes, Live
  <2>4. \A n \in events' \ events : /\ n.sub = s /\ n.at = clock + 1 /\ n.kind = "updated" /\ n.status = status
                                    /\ events' = events \cup {n}
    BY <2>2
  <2>5. status \in Live \cup {"unset"} BY <2>3
  <2>6. \A n \in events' \ events : ~Ends(n) /\ Incoming(n) = status BY <2>4, <2>5 DEF Ends, Incoming, Live
  <2>7. <<"updated", status>> \in {<<"updated", status>>} OBVIOUS
  <2>8. \E n \in events' : n.sub = s /\ n.at = clock + 1 BY <2>1, <2>7, <1>x
  <2> QED BY <2>2, <2>3, <2>4, <2>6, <2>8 DEF Moves
<1>6. CASE Cancels(s)
  <2>1. PICK t \in {clock, Now}, status \in {stripe[s], "canceled"} :
          /\ \A e \in events : e.kind \in Checkout => e.at < t
          /\ Sends(s, t, {<<"updated", status>>, <<"deleted", "unset">>}) BY <1>6 DEF Cancels
  <2>2. \A n \in events' \ events : /\ n.sub = s /\ n.at = t /\ n.kind \in {"updated", "deleted"}
                                    /\ n.status # "unset" => n.kind = "updated"
    BY <2>1, <1>s
  <2>3. [kind |-> "deleted", sub |-> s, status |-> "unset", at |-> t] \in events'
    <3>1. <<"deleted", "unset">> \in {<<"updated", status>>, <<"deleted", "unset">>} OBVIOUS
    <3> QED BY <2>1, <3>1 DEF Sends
  <2>4. clock' = t /\ t \in {clock, clock + 1} BY <2>1 DEF Sends, Now
  <2>5. stripe[s] \in Live /\ stripe'[s] = "canceled" BY <1>6, <1>b DEF Cancels, Live
  <2>6. \E d \in events' : d.kind = "deleted" /\ d.sub = s
    <3> DEFINE d == [kind |-> "deleted", sub |-> s, status |-> "unset", at |-> t]
    <3>1. d.kind = "deleted" /\ d.sub = s OBVIOUS
    <3> QED BY <2>3, <3>1
  <2>7. \A c \in events : c.kind \in Checkout => c.at < clock' BY <2>1, <2>4
  <2> QED BY <2>2, <2>4, <2>5, <2>6, <2>7 DEF Stops
<1>7. CASE Leftover(s)
  <2>1. PICK kind \in {"failed", "paid"} : Sends(s, Now, {<<kind, "unset">>}) BY <1>7 DEF Leftover
  <2>2. \A n \in events' \ events : n.sub = s /\ n.at = clock + 1 /\ n.kind = kind /\ n.status = "unset"
    BY <2>1, <1>s DEF Now
  <2> QED BY <1>7, <2>1, <2>2 DEF Leftover, Lingers, Sends, Now
<1> QED BY <1>1, <1>2, <1>3, <1>4, <1>5, <1>6, <1>7 DEF Bills

(* Stripe's stream keeps the succession of subscriptions. *)
LEMMA SuccessionStep ==
  ASSUME TypeOK, Stream, Succession, NEW s \in Sub, Bills(s)
  PROVE  Succession'
<1>t. /\ events \subseteq events' /\ clock \in Nat
      /\ \A e \in events' : e.sub \in Sub /\ e.at \in Nat
      /\ \A e \in events : stripe[e.sub] # "none"
      /\ \A r \in Sub : r # s => stripe'[r] = stripe[r]
  BY BillsKinds DEF Event, Stream
<1>k. Begins(s) \/ Moves(s) \/ Stops(s) \/ Lingers(s) BY BillsKinds
<1>1. /\ clock' \in {clock, clock + 1}
      /\ \A n \in events' \ events : /\ n.at = clock' /\ n.sub = s
                                     /\ n.status # "unset" => n.kind = "updated"
  BY <1>k DEF Begins, Moves, Stops, Lingers
<1>2. \A e \in events' : e.at <= clock' /\ (e.status # "unset" => e.kind = "updated")
  BY <1>t, <1>1 DEF Succession
<1>3. ASSUME NEW n \in events' \ events, n.kind \in Checkout
      PROVE  Begins(s) /\ events' = events \cup {n} /\ n.sub = s /\ n.at = clock + 1
  BY <1>3, <1>k DEF Begins, Moves, Stops, Lingers, Checkout
<1>4. ASSUME NEW c \in events', NEW d \in events', c.kind \in Checkout, d.kind \in Checkout,
             c.sub = d.sub \/ c.at = d.at
      PROVE  c = d
  <2>1. CASE c \in events /\ d \in events BY <1>4, <2>1 DEF Succession
  <2>2. ASSUME NEW n \in events' \ events, n.kind \in Checkout, NEW b \in events
        PROVE  b.sub # n.sub /\ b.at # n.at
    <3>1. stripe[s] = "none" /\ n.sub = s /\ n.at = clock + 1 BY <1>3, <2>2 DEF Begins
    <3>2. b.at <= clock /\ b.at \in Nat BY <1>t DEF Succession
    <3> QED BY <1>t, <3>1, <3>2
  <2>3. CASE c \notin events /\ d \notin events BY <1>3, <1>4, <2>3
  <2> QED BY <1>4, <2>1, <2>2, <2>3
<1>5. ASSUME NEW c \in events', NEW d \in events', c.kind \in Checkout, d.kind \in Checkout, c.at < d.at
      PROVE  /\ stripe'[c.sub] = "canceled"
             /\ \A e \in events' : e.kind = "updated" /\ e.sub = c.sub => e.at < d.at
  <2>1. c \in events
    <3>1. CASE c \notin events
      <4>1. c.at = clock + 1 /\ clock' = clock + 1 BY <1>3, <1>5, <3>1 DEF Begins
      <4>2. d.at <= clock + 1 BY <1>2, <4>1
      <4> QED BY <1>5, <1>t, <4>1, <4>2
    <3> QED BY <3>1
  <2>2. CASE d \notin events
    <3>1. Begins(s) /\ events' = events \cup {d} /\ d.sub = s /\ d.at = clock + 1 BY <1>3, <1>5, <2>2
    <3>2. stripe[c.sub] = "canceled" /\ c.sub # s BY <1>t, <2>1, <3>1 DEF Begins
    <3>3. \A e \in events : e.at < d.at BY <1>t, <3>1 DEF Succession
    <3> QED BY <1>t, <1>5, <2>1, <3>1, <3>2, <3>3 DEF Checkout
  <2>3. CASE d \in events
    <3>1. /\ stripe[c.sub] = "canceled"
          /\ \A e \in events : e.kind = "updated" /\ e.sub = c.sub => e.at < d.at
      BY <1>5, <2>1, <2>3 DEF Succession
    <3>2. stripe'[c.sub] = "canceled"
      BY <1>t, <1>k, <2>1, <3>1 DEF Begins, Moves, Stops, Lingers, Live
    <3>3. ASSUME NEW e \in events' \ events, e.kind = "updated" PROVE stripe[e.sub] # "canceled"
      BY <1>k, <3>3 DEF Begins, Moves, Stops, Lingers, Checkout, Live
    <3> QED BY <3>1, <3>2, <3>3
  <2> QED BY <2>2, <2>3
<1> QED BY <1>2, <1>4, <1>5 DEF Succession

(* Stripe ends a subscription once. *)
LEMMA EndingsStep ==
  ASSUME TypeOK, Stream, Succession, Endings, NEW s \in Sub, Bills(s)
  PROVE  Endings'
<1>t. /\ events \subseteq events' /\ clock \in Nat
      /\ \A e \in events' : e.sub \in Sub /\ e.at \in Nat /\ e.kind \in Kind
      /\ \A e \in events : e.at <= clock
      /\ \A r \in Sub : r # s => stripe'[r] = stripe[r]
  BY BillsKinds DEF Event, Succession
<1>k. Begins(s) \/ Moves(s) \/ Stops(s) \/ Lingers(s) BY BillsKinds
<1>n. \A n \in events' \ events : n.sub = s BY <1>k DEF Begins, Moves, Stops, Lingers
<1>c. \A r \in Sub : stripe[r] = "canceled" => stripe'[r] = "canceled"
  BY <1>t, <1>k DEF Begins, Moves, Stops, Lingers, Live
<1>1. ASSUME NEW n \in events' \ events, Ends(n) PROVE Stops(s)
  BY <1>1, <1>k DEF Begins, Moves, Lingers, Ends, Checkout
<1>2. \A e \in events' : Ends(e) => stripe'[e.sub] = "canceled"
  <2>1. \A n \in events' \ events : Ends(n) => stripe'[n.sub] = "canceled" BY <1>1, <1>n DEF Stops
  <2> QED BY <1>c, <1>t, <2>1 DEF Endings
<1>3. ASSUME NEW r \in Sub, stripe'[r] = "canceled"
      PROVE  \E d \in events' : d.kind = "deleted" /\ d.sub = r
  <2>1. CASE stripe[r] = "canceled" BY <2>1, <1>t DEF Endings
  <2>2. CASE stripe[r] # "canceled"
    <3>1. r = s /\ Stops(s) BY <1>3, <1>k, <1>t, <2>2 DEF Begins, Moves, Lingers, Live
    <3> QED BY <3>1 DEF Stops
  <2> QED BY <2>1, <2>2
<1>4. ASSUME NEW d \in events', NEW e \in events', d.kind = "deleted", e.sub = d.sub
      PROVE  /\ Ends(e) => e.at = d.at
             /\ e.kind \in Checkout \cup {"updated"} => e.at <= d.at
  <2>1. CASE d \in events
    <3>1. CASE e \in events BY <1>4, <2>1, <3>1 DEF Endings
    <3>2. CASE e \notin events
      <4>1. stripe[s] = "canceled" BY <1>4, <1>n, <2>1, <3>2 DEF Endings, Ends
      <4>2. Lingers(s) BY <1>k, <4>1 DEF Begins, Moves, Stops, Live
      <4> QED BY <1>4, <3>2, <4>2 DEF Lingers, Ends, Checkout
    <3> QED BY <3>1, <3>2
  <2>2. CASE d \notin events
    <3>1. Stops(s) /\ d.sub = s /\ d.at = clock' BY <1>1, <1>4, <2>2 DEF Ends, Stops
    <3>2. stripe[s] # "canceled" BY <3>1 DEF Stops, Live
    <3>3. CASE e \in events
      <4>1. ~Ends(e) BY <1>4, <3>1, <3>2, <3>3 DEF Endings
      <4>2. clock <= clock' BY <1>t, <3>1 DEF Stops
      <4>3. clock' \in Nat BY <1>t, <3>1 DEF Stops
      <4> QED BY <1>t, <3>1, <3>3, <4>1, <4>2, <4>3
    <3>4. CASE e \notin events
      <4>1. e.at = d.at BY <1>4, <3>1, <3>4 DEF Stops
      <4> QED BY <4>1, <1>t
    <3> QED BY <3>3, <3>4
  <2> QED BY <2>1, <2>2
<1> QED BY <1>2, <1>3, <1>4 DEF Endings

(* The newest events say what Stripe has. *)
LEMMA LatestStep ==
  ASSUME TypeOK, Stream, Succession, Latest, NEW s \in Sub, Bills(s)
  PROVE  Latest'
<1>t. /\ events \subseteq events' /\ clock \in Nat
      /\ \A e \in events' : e.sub \in Sub /\ e.at \in Nat
      /\ \A e \in events : e.at <= clock /\ stripe[e.sub] # "none"
      /\ \A r \in Sub : r # s => stripe'[r] = stripe[r]
  BY BillsKinds DEF Event, Succession, Stream
<1>k. Begins(s) \/ Moves(s) \/ Stops(s) \/ Lingers(s) BY BillsKinds
<1>n. \A n \in events' \ events : n.sub = s BY <1>k DEF Begins, Moves, Stops, Lingers
<1> SUFFICES ASSUME NEW e \in events', Newest(e)', stripe'[e.sub] # "canceled"
             PROVE  \/ /\ e.kind \in Checkout /\ stripe'[e.sub] = "active"
                       /\ \A d \in events' : d.sub = e.sub => d = e
                    \/ e.kind \notin Checkout /\ Incoming(e) = stripe'[e.sub]
                    \/ /\ e.kind = "updated" /\ e.status = "unset"
                       /\ \A d \in events' : d.sub = e.sub /\ Newest(d)' => d = e
  BY DEF Latest
<1>1. CASE e.sub # s
  <2>1. e \in events /\ \A d \in events' : d.sub = e.sub => d \in events BY <1>1, <1>n
  <2>2. \A d \in events : Newest(d)' => Newest(d) BY <1>t DEF Newest
  <2>3. stripe'[e.sub] = stripe[e.sub] BY <1>1, <1>t
  <2> QED BY <2>1, <2>2, <2>3 DEF Latest
<1>2. CASE e.sub = s /\ Begins(s)
  <2>1. PICK n \in events' : events' = events \cup {n} /\ n.sub = s /\ n.kind \in Checkout BY <1>2 DEF Begins
  <2>2. \A d \in events' : d.sub = s => d = n BY <1>t, <1>2, <2>1 DEF Begins
  <2> QED BY <1>2, <2>1, <2>2 DEF Begins
<1>3. CASE e.sub = s /\ Moves(s)
  <2>1. \A d \in events' : d.sub = s /\ Newest(d)' => d.at >= clock + 1 BY <1>3 DEF Moves, Newest
  <2>2. \A d \in events' : d.sub = s /\ Newest(d)' => d \notin events BY <1>t, <2>1
  <2>3. e \notin events BY <1>3, <2>2
  <2>4. e.kind \notin Checkout BY <1>3, <2>3 DEF Moves, Checkout
  <2>5. CASE Incoming(e) = stripe'[s] BY <1>3, <2>4, <2>5
  <2>6. CASE e.kind = "updated" /\ e.status = "unset" /\ events' = events \cup {e} BY <1>3, <2>2, <2>6
  <2> QED BY <1>3, <2>3, <2>5, <2>6 DEF Moves
<1>4. CASE e.sub = s /\ (Stops(s) \/ Lingers(s)) BY <1>4 DEF Stops, Lingers
<1> QED BY <1>k, <1>1, <1>2, <1>3, <1>4

-----------------------------------------------------------------------------
(* THE USER'S ROW *)

(* A worker leaves Stripe alone. *)
LEMMA WorldStays ==
  ASSUME NEW w \in Worker, Work(w)
  PROVE  stripe' = stripe /\ clock' = clock /\ events' = events
BY DEF Work, Take, Complete, SnapshotDue, Snapshot, Find, Insert, Upsert, Sync, SyncWrite, Exists, Judge,
       Project, Owner, Totals, Recover, CancelRow, Seal, Drop, world

(* What a step does to the row: an event of its subscription writes it, *)
Advances ==
  /\ row.sub # None /\ row'.sub = row.sub /\ row.at <= row'.at
  /\ Terminal(row.status) => Terminal(row'.status)
  /\ Terminal(row'.status) => \/ Terminal(row.status)
                              \/ \E f \in events : Ends(f) /\ f.sub = row.sub /\ f.at = row'.at
  /\ \E e \in events : e.sub = row.sub /\ e.at = row'.at /\ Says(e, row'.status)
  /\ row'.totals \in {0, row.totals}

(* the add-on totals of the event it was last stamped by are filled in, *)
Fills ==
  /\ row'.sub = row.sub /\ row'.status = row.status /\ row'.at = row.at
  /\ ~Terminal(row.status) /\ row'.totals = row.at

(* or the checkout of another subscription takes it over. *)
TakenOver ==
  \E c \in events :
    /\ c.kind = "plan" /\ c.sub # row.sub /\ row.at <= c.at
    /\ row'.sub = c.sub /\ row'.status = "active" /\ row'.at = c.at
    /\ row'.totals \in {0, row.totals}

(* A worker does one of these, or leaves the row alone. *)
LEMMA RowKinds ==
  ASSUME TypeOK, TypeOK', History, RowInv, RowBased, NEW w \in Worker, Work(w), Judged(w), Delivering(w)
  PROVE  row' = row \/ Advances \/ Fills \/ TakenOver
<1> DEFINE e == run[w].ev
<1>r. row.at \in Nat /\ row.totals \in Nat BY DEF TypeOK
<1>f. /\ row.sub # None => row.at <= row'.at
      /\ row'.sub = row.sub /\ Terminal(row.status) => Terminal(row'.status)
  BY RowStep DEF History
<1>e. ASSUME run[w].pc # "idle"
      PROVE  e \in events /\ e.sub \in Sub /\ e.at \in Nat /\ e.kind \in Kind /\ e.sub # None
  BY <1>e, EventType, NoneAssumption
<1>d. Delivering(w) /\ Judged(w) OBVIOUS
<1>k. /\ run[w].pc \in {"insert", "upsert"} => e.kind = "plan"
      /\ run[w].pc = "project" => e.kind \in {"updated", "failed"}
      /\ run[w].pc = "recover" => e.kind = "paid"
      /\ run[w].pc = "cancel" => e.kind = "deleted"
      /\ run[w].pc = "totals" => e.at <= row.at \/ Covers(e, row)
  BY <1>d DEF Delivering, Stage, Judged
<1> HIDE DEF e
<1>1. CASE Insert(w)
  <2>1. CASE row.sub = None /\ row' = [sub |-> e.sub, status |-> "active", at |-> e.at, plan |-> e.at,
                                       totals |-> 0]
    <3>1. row.at <= e.at BY <1>1, <1>e, <2>1 DEF Insert, RowBased
    <3> QED BY <1>1, <1>e, <1>k, <2>1, <3>1 DEF Insert, TakenOver
  <2> QED BY <1>1, <2>1 DEF Insert, e
<1>2. CASE Upsert(w)
  <2>1. CASE row.at <= e.at /\ row' = [row EXCEPT !.sub = e.sub, !.status = "active", !.at = e.at, !.plan = e.at]
    <3>1. /\ row'.sub = e.sub /\ row'.status = "active" /\ row'.at = e.at /\ row'.totals = row.totals
      BY <2>1 DEF TypeOK
    <3>2. e \in events /\ e.kind = "plan" /\ e.sub # None BY <1>2, <1>e, <1>k DEF Upsert
    <3>3. CASE row.sub = e.sub
      <4>1. Says(e, row'.status) BY <3>1, <3>2 DEF Says, Checkout
      <4> QED BY <1>f, <3>1, <3>2, <3>3, <4>1, <2>1 DEF Advances, Terminal
    <3>4. CASE row.sub # e.sub BY <2>1, <3>1, <3>2, <3>4 DEF TakenOver
    <3> QED BY <3>3, <3>4
  <2> QED BY <1>2, <2>1 DEF Upsert, e
<1>3. CASE Project(w)
  <2>1. CASE /\ row.sub = e.sub
             /\ row' = [row EXCEPT !.at = e.at,
                          !.status = IF Incoming(e) = "unset" THEN @ ELSE Incoming(e),
                          !.plan = IF e.kind = "updated" THEN e.at ELSE @]
    <3> DEFINE incoming == IF Incoming(e) = "unset" THEN row.status ELSE Incoming(e)
    <3>1. /\ row'.sub = row.sub /\ row'.status = incoming /\ row'.at = e.at /\ row'.totals = row.totals
      BY <2>1 DEF TypeOK
    <3>2. e \in events /\ e.kind \in {"updated", "failed"} /\ e.sub # None BY <1>3, <1>e, <1>k DEF Project
    <3>3. Says(e, incoming) BY <3>2 DEF Says, Incoming, Checkout
    <3>4. Terminal(incoming) => Terminal(row.status) \/ Ends(e) BY <3>2 DEF Incoming, Ends, Terminal
    <3> HIDE DEF incoming
    <3> QED BY <1>f, <2>1, <3>1, <3>2, <3>3, <3>4 DEF Advances
  <2> QED BY <1>3, <2>1 DEF Project, e
<1>4. CASE Totals(w)
  <2>1. CASE /\ row.at <= e.at /\ ~Terminal(row.status) /\ row' = [row EXCEPT !.totals = e.at]
    <3>1. row'.sub = row.sub /\ row'.status = row.status /\ row'.at = row.at /\ row'.totals = e.at
      BY <2>1 DEF TypeOK
    <3>2. e.at <= row.at BY <1>4, <1>k, <1>e, <1>r, <2>1 DEF Totals, Covers
    <3>3. e.at = row.at BY <1>4, <1>e, <1>r, <2>1, <3>2 DEF Totals
    <3> QED BY <2>1, <3>1, <3>3 DEF Fills
  <2> QED BY <1>4, <2>1 DEF Totals, e
<1>5. CASE Recover(w)
  <2>1. CASE row.sub = e.sub /\ row' = [row EXCEPT !.status = "active", !.at = e.at]
    <3>1. row'.sub = row.sub /\ row'.status = "active" /\ row'.at = e.at /\ row'.totals = row.totals
      BY <2>1 DEF TypeOK
    <3>2. e \in events /\ e.kind = "paid" /\ e.sub # None BY <1>5, <1>e, <1>k DEF Recover
    <3>3. Says(e, "active") BY <3>2 DEF Says, Incoming, Checkout
    <3> QED BY <1>f, <2>1, <3>1, <3>2, <3>3 DEF Advances, Terminal
  <2> QED BY <1>5, <2>1 DEF Recover, e
<1>6. CASE CancelRow(w)
  <2>1. CASE row.sub = e.sub /\ row' = [row EXCEPT !.status = "canceled", !.totals = 0, !.at = e.at]
    <3>1. row'.sub = row.sub /\ row'.status = "canceled" /\ row'.at = e.at /\ row'.totals = 0
      BY <2>1 DEF TypeOK
    <3>2. e \in events /\ e.kind = "deleted" /\ e.sub # None BY <1>6, <1>e, <1>k DEF CancelRow
    <3>3. Says(e, "canceled") /\ Ends(e) BY <3>2 DEF Says, Incoming, Checkout, Ends
    <3> QED BY <1>f, <2>1, <3>1, <3>2, <3>3 DEF Advances
  <2> QED BY <1>6, <2>1 DEF CancelRow, e
<1>7. CASE ~(Insert(w) \/ Upsert(w) \/ Project(w) \/ Totals(w) \/ Recover(w) \/ CancelRow(w))
  BY <1>7 DEF Work, Take, Complete, SnapshotDue, Snapshot, Find, Sync, SyncWrite, Exists, Judge, Owner, Seal, Drop, rows
<1> QED BY <1>1, <1>2, <1>3, <1>4, <1>5, <1>6, <1>7

(* The checkout that began the row is the only one of its subscription, and *)
(* is older than one that takes the row over.                               *)
LEMMA Youngest ==
  ASSUME TypeOK, History, RowBased, NEW b \in events, b.kind = "plan", b.sub = row.sub,
         NEW c \in events, c.kind = "plan", c.sub # row.sub, row.at <= c.at
  PROVE  b.at < c.at
<1>1. row.sub # None BY NoneAssumption DEF TypeOK, Event
<1>2. PICK d \in events : d.kind = "plan" /\ d.sub = row.sub /\ d.at <= row.at BY <1>1 DEF RowBased
<1>3. b = d BY <1>2 DEF History, Succession, Checkout
<1>4. b.at # c.at BY DEF History, Succession, Checkout
<1>5. b.at \in Nat /\ c.at \in Nat /\ row.at \in Nat BY DEF TypeOK, Event
<1> QED BY <1>2, <1>3, <1>4, <1>5

(* The row stays based on events. *)
LEMMA RowBasedStep ==
  ASSUME TypeOK, TypeOK', History, RowBased, NEW w \in Worker, Work(w),
         row' = row \/ Advances \/ Fills \/ TakenOver
  PROVE  RowBased'
<1>w. stripe' = stripe /\ events' = events BY WorldStays
<1>n. row.at \in Nat /\ row.totals \in Nat /\ row'.at \in Nat /\ row'.totals \in Nat BY DEF TypeOK
<1>1. CASE row' = row BY <1>1, <1>w DEF RowBased
<1>2. CASE Advances
  <2>1. PICK c \in events : c.kind = "plan" /\ c.sub = row.sub /\ c.at <= row.at BY <1>2 DEF RowBased, Advances
  <2>2. c.at \in Nat BY DEF TypeOK, Event
  <2>3. c.at <= row'.at BY <1>2, <1>n, <2>1, <2>2 DEF Advances
  <2>4. Terminal(row'.status) => stripe[row.sub] = "canceled"
    BY <1>2 DEF Advances, RowBased, History, Endings
  <2>5. row'.totals <= row'.at BY <1>2, <1>n DEF Advances, RowBased
  <2> QED BY <1>2, <1>w, <2>1, <2>3, <2>4, <2>5 DEF Advances, RowBased
<1>3. CASE Fills BY <1>3, <1>w, <1>n DEF Fills, RowBased
<1>4. CASE TakenOver
  <2>1. PICK c \in events : /\ c.kind = "plan" /\ c.sub # row.sub /\ row.at <= c.at
                            /\ row'.sub = c.sub /\ row'.status = "active" /\ row'.at = c.at
                            /\ row'.totals \in {0, row.totals}
    BY <1>4 DEF TakenOver
  <2>2. c.sub # None /\ c.at \in Nat BY NoneAssumption DEF TypeOK, Event
  <2>3. Says(c, "active") /\ ~Terminal("active") BY <2>1 DEF Says, Checkout, Terminal
  <2>4. row'.totals <= row'.at BY <1>n, <2>1, <2>2 DEF RowBased
  <2>5. c.at <= row'.at BY <2>1, <2>2
  <2> QED BY <1>w, <2>1, <2>2, <2>3, <2>4, <2>5 DEF RowBased
<1> QED BY <1>1, <1>2, <1>3, <1>4

(* The row never comes back to a subscription. *)
LEMMA PlacedStep ==
  ASSUME TypeOK, TypeOK', History, RowBased, NEW w \in Worker, Work(w),
         row' = row \/ Advances \/ Fills \/ TakenOver, NEW s, Placed(s)
  PROVE  Placed(s)'
<1>w. events' = events BY WorldStays
<1>n. row.at \in Nat /\ row'.at \in Nat /\ \A c \in events : c.at \in Nat BY DEF TypeOK, Event
<1>1. CASE row' = row BY <1>1, <1>w DEF Placed
<1>2. CASE Advances \/ Fills
  <2>1. row'.sub = row.sub /\ row.at <= row'.at BY <1>2, <1>n DEF Advances, Fills
  <2> QED BY <1>w, <1>n, <2>1 DEF Placed
<1>3. CASE TakenOver
  <2>1. PICK c \in events : /\ c.kind = "plan" /\ c.sub # row.sub /\ row.at <= c.at
                            /\ row'.sub = c.sub /\ row'.at = c.at
    BY <1>3 DEF TakenOver
  <2>2. ASSUME NEW b \in events, b.kind = "plan", b.sub = s PROVE row'.sub = s \/ b.at < row'.at
    <3>1. CASE b.sub = row.sub BY <2>1, <2>2, <3>1, Youngest
    <3>2. CASE b.sub # row.sub BY <1>n, <2>1, <2>2, <3>2 DEF Placed
    <3> QED BY <3>1, <3>2
  <2> QED BY <1>w, <2>2 DEF Placed
<1> QED BY <1>1, <1>2, <1>3

(* What the row has seen of an event it keeps. *)
LEMMA RowDoneStep ==
  ASSUME TypeOK, TypeOK', History, RowBased, NEW w \in Worker, Work(w),
         row' = row \/ Advances \/ Fills \/ TakenOver,
         NEW e \in events, Placed(e.sub), RowDone(e)
  PROVE  RowDone(e)'
<1>n. row.at \in Nat /\ row'.at \in Nat /\ e.at \in Nat BY DEF TypeOK, Event
<1>1. CASE row' = row BY <1>1 DEF RowDone, Covers
<1>2. CASE Advances
  <2>1. /\ row'.sub = row.sub /\ row.at <= row'.at /\ (Terminal(row.status) => Terminal(row'.status))
        /\ row'.totals \in {0, row.totals}
    BY <1>2 DEF Advances
  <2>2. Covers(e, row) => Covers(e, row') BY <1>n, <2>1 DEF Covers
  <2>3. ASSUME e.kind = "deleted", row.sub = e.sub, Terminal(row'.status) PROVE Terminal(row.status)
    <3>1. SUFFICES ASSUME ~Terminal(row.status) PROVE FALSE OBVIOUS
    <3>2. e.at < row.at BY <2>3, <3>1 DEF RowDone, Covers
    <3>3. PICK f \in events : Ends(f) /\ f.sub = row.sub /\ f.at = row'.at BY <1>2, <2>3, <3>1 DEF Advances
    <3>4. f.at = e.at BY <2>3, <3>3 DEF History, Endings
    <3> QED BY <1>n, <2>1, <3>2, <3>3, <3>4
  <2> QED BY <2>1, <2>2, <2>3 DEF RowDone
<1>3. CASE Fills BY <1>3 DEF Fills, RowDone, Covers
<1>4. CASE TakenOver
  <2>1. row'.sub # e.sub
    <3>1. PICK c \in events : c.kind = "plan" /\ c.sub # row.sub /\ row.at <= c.at /\ row'.sub = c.sub
      BY <1>4 DEF TakenOver
    <3>2. c.at \in Nat BY DEF TypeOK, Event
    <3> QED BY <1>n, <3>1, <3>2 DEF Placed
  <2> QED BY <2>1 DEF RowDone
<1> QED BY <1>1, <1>2, <1>3, <1>4

(* So does a worker that is about to write the totals. *)
LEMMA TotalsStay ==
  ASSUME TypeOK, TypeOK', History, RowBased, NEW w \in Worker, Work(w),
         row' = row \/ Advances \/ Fills \/ TakenOver,
         NEW e \in events, e.kind = "updated", e.at <= row.at \/ (row.sub = e.sub /\ Covers(e, row))
  PROVE  e.at <= row'.at \/ (row'.sub = e.sub /\ Covers(e, row'))
<1>n. row.at \in Nat /\ row'.at \in Nat /\ e.at \in Nat BY DEF TypeOK, Event
<1>1. CASE row' = row BY <1>1
<1>2. CASE Advances \/ Fills
  <2>1. row'.sub = row.sub /\ row.at <= row'.at /\ (Terminal(row.status) => Terminal(row'.status))
    BY <1>2, <1>n DEF Advances, Fills
  <2> QED BY <1>n, <2>1 DEF Covers
<1>3. CASE TakenOver
  <2>1. PICK c \in events : /\ c.kind = "plan" /\ c.sub # row.sub /\ row.at <= c.at
                            /\ row'.sub = c.sub /\ row'.at = c.at
    BY <1>3 DEF TakenOver
  <2>2. c.at \in Nat /\ e.sub # None BY NoneAssumption DEF TypeOK, Event
  <2>3. CASE e.at <= row.at BY <1>n, <2>1, <2>2, <2>3
  <2>4. CASE row.sub = e.sub
    <3>1. PICK b \in events : b.kind = "plan" /\ b.sub = row.sub BY <2>2, <2>4 DEF RowBased
    <3>2. b.at < c.at BY <2>1, <3>1, Youngest
    <3>3. e.at < c.at BY <2>1, <2>4, <3>1, <3>2 DEF History, Succession, Checkout
    <3> QED BY <1>n, <2>1, <2>2, <3>3
  <2> QED BY <2>3, <2>4
<1> QED BY <1>1, <1>2, <1>3

-----------------------------------------------------------------------------
(* THE ORDERS *)

(* The orders stay based on events. *)
LEMMA OrderBasedStep ==
  ASSUME TypeOK, TypeOK', History, NEW w \in Worker, Work(w), Ordered(w), Delivering(w),
         NEW s \in Sub, OrderBased(s)
  PROVE  OrderBased(s)'
<1> DEFINE e == run[w].ev
<1>w. stripe' = stripe /\ events' = events BY WorldStays
<1>u. CASE order'[s] = order[s] BY <1>u, <1>w DEF OrderBased, Linked
<1>1. CASE Complete(w)
  <2>1. e \in events /\ e.sub \in Sub /\ e.kind = "order" BY <1>1, EventType DEF Complete, Delivering, Stage
  <2>2. CASE s = e.sub /\ ~Linked(s) /\ s \notin closed
    <3>1. order'[s].status = "active" /\ order'[s].at = order[s].at BY <1>1, <2>1, <2>2 DEF Complete, TypeOK
    <3>2. order[s].at = 0 BY <2>2 DEF OrderBased
    <3> QED BY <1>w, <2>1, <2>2, <3>1, <3>2 DEF OrderBased, Linked, Terminal
  <2>3. CASE s # e.sub \/ Linked(s) \/ s \in closed
    <3>1. order'[s] = order[s] BY <1>1, <2>1, <2>3 DEF Complete, TypeOK, Linked
    <3> QED BY <1>u, <3>1
  <2> QED BY <2>2, <2>3
<1>2. CASE SyncWrite(w)
  <2>1. /\ e \in events /\ e.sub \in Sub /\ e.kind \notin Checkout /\ Incoming(e) # "unset"
        /\ e.kind \in Kind /\ Linked(e.sub)
    BY <1>2, EventType DEF SyncWrite, Delivering, Stage, Ordered
  <2>2. CASE s = e.sub /\ order' = [order EXCEPT ![e.sub].status = Incoming(e), ![e.sub].at = e.at]
    <3>1. order'[s].status = Incoming(e) /\ order'[s].at = e.at BY <2>1, <2>2 DEF TypeOK
    <3>2. Terminal(Incoming(e)) => stripe[s] = "canceled"
      <4>1. Incoming(e) = "canceled" => Ends(e) BY DEF Incoming, Ends
      <4> QED BY <2>1, <2>2, <4>1 DEF Terminal, History, Endings
    <3>3. \E c \in events : c.kind = "order" /\ c.sub = s BY <2>1, <2>2 DEF OrderBased
    <3> QED BY <1>w, <2>1, <2>2, <3>1, <3>2, <3>3 DEF OrderBased, Linked
  <2>3. CASE order'[s] = order[s] BY <1>u, <2>3
  <2>4. \/ order' = [order EXCEPT ![e.sub].status = Incoming(e), ![e.sub].at = e.at]
        \/ order' = order
    BY <1>2 DEF SyncWrite
  <2>5. s # e.sub => order'[s] = order[s] BY <2>4 DEF TypeOK
  <2> QED BY <2>2, <2>3, <2>4, <2>5
<1>3. CASE ~Complete(w) /\ ~SyncWrite(w)
  <2>1. order' = order
    BY <1>3 DEF Work, Take, SnapshotDue, Snapshot, Find, Insert, Upsert, Sync, Exists, Judge, Project, Owner,
       Totals, Recover, CancelRow, Seal, Drop, rows
  <2> QED BY <1>u, <2>1
<1> QED BY <1>1, <1>2, <1>3

(* What an order has seen of an event it keeps. *)
LEMMA OrderDoneStep ==
  ASSUME TypeOK, TypeOK', NEW w \in Worker, Work(w), Ordered(w), Judged(w), NEW e \in events, OrderDone(e)
  PROVE  OrderDone(e)'
<1>w. events' = events BY WorldStays
<1>s. e.sub \in Sub /\ e.at \in Nat BY DEF TypeOK, Event
<1>n. order[e.sub].at \in Nat /\ order'[e.sub].at \in Nat BY <1>s DEF TypeOK
<1>1. Linked(e.sub) => Linked(e.sub)' BY <1>s, LinkedStays
<1>2. /\ order[e.sub].at <= order'[e.sub].at
      /\ Terminal(order[e.sub].status) => Terminal(order'[e.sub].status)
  BY <1>s, OrderStep
<1>3. Covers(e, order[e.sub]) => Covers(e, order'[e.sub]) BY <1>s, <1>n, <1>2 DEF Covers
<1> QED BY <1>w, <1>1, <1>3 DEF OrderDone

(* A subscription whose order is linked has no plan, and one whose plan is  *)
(* in the row has no order.                                                 *)
LEMMA OneCheckout ==
  ASSUME TypeOK, History, NEW s \in Sub
  PROVE  /\ (\E c \in events : c.kind = "order" /\ c.sub = s) => Placed(s)
         /\ RowBased /\ row.sub = s => \A c \in events : c.kind = "order" => c.sub # s
<1>1. \A c, d \in events : ~(c.kind = "order" /\ d.kind = "plan" /\ c.sub = d.sub)
  BY DEF History, Succession, Checkout
<1>2. s # None BY NoneAssumption
<1> QED BY <1>1, <1>2 DEF Placed, RowBased

-----------------------------------------------------------------------------
(* THE DELIVERIES *)

(* Where a worker is and what it holds decide what is claimed of it. *)
LEMMA AtStage ==
  ASSUME NEW w \in Worker, NEW p, NEW f, run'[w].pc = p, run'[w].ev = f, Stage(p, f)'
  PROVE  Delivering(w)'
BY DEF Delivering, Stage, Handled, Placed, OrderDone, RowDone, Covers, Linked

(* What a step of a worker leaves true of an event that was handled, in     *)
(* part or as a whole.                                                      *)
LEMMA DoneStays ==
  ASSUME TypeOK, TypeOK', History, RowInv, RowBased, NEW w \in Worker, Work(w), Judged(w), Ordered(w),
         Delivering(w), NEW f \in events
  PROVE  /\ Placed(f.sub) => Placed(f.sub)'
         /\ OrderDone(f) => OrderDone(f)'
         /\ Placed(f.sub) /\ RowDone(f) => RowDone(f)'
         /\ Handled(f) => Handled(f)'
<1>1. row' = row \/ Advances \/ Fills \/ TakenOver BY RowKinds
<1>2. Placed(f.sub) => Placed(f.sub)' BY <1>1, PlacedStep
<1>3. OrderDone(f) => OrderDone(f)' BY OrderDoneStep
<1>4. Placed(f.sub) /\ RowDone(f) => RowDone(f)' BY <1>1, RowDoneStep
<1> QED BY <1>2, <1>3, <1>4 DEF Handled

(* A worker whose step it is not stays where it was. *)
LEMMA StageStays ==
  ASSUME TypeOK, TypeOK', History, RowInv, RowBased, NEW w \in Worker, Work(w), Judged(w), Ordered(w),
         Delivering(w), NEW f \in events, NEW p, Stage(p, f)
  PROVE  Stage(p, f)'
<1>1. /\ Placed(f.sub) => Placed(f.sub)'
      /\ OrderDone(f) => OrderDone(f)'
      /\ Placed(f.sub) /\ RowDone(f) => RowDone(f)'
      /\ Handled(f) => Handled(f)'
  BY DoneStays
<1>2. Linked(f.sub) => Linked(f.sub)'
  <2>1. f.sub \in Sub BY DEF TypeOK, Event
  <2> QED BY <2>1, LinkedStays
<1>3. f.kind = "updated" /\ (f.at <= row.at \/ (row.sub = f.sub /\ Covers(f, row))) =>
        f.at <= row'.at \/ (row'.sub = f.sub /\ Covers(f, row'))
  BY RowKinds, TotalsStay
<1>4. Covers(f, row)' <=> Covers(f, row') BY DEF Covers
<1> QED BY <1>1, <1>2, <1>3, <1>4 DEF Stage

(* The places that ask nothing of an event but its kind. *)
LEMMA EarlyStages ==
  ASSUME NEW f
  PROVE  /\ \A p \in {"idle", "find", "insert", "upsert"} : Stage(p, f)'
         /\ f.kind = "order" => \A p \in {"complete", "due", "snapshot"} : Stage(p, f)'
         /\ f.kind \notin Checkout => Stage("sync", f)' /\ Stage("exists", f)'
         /\ f.kind \in Checkout => Stage("seal", f)'
BY DEF Stage, Handled

(* What follows the order's half. *)
LEMMA PlatformStage ==
  ASSUME NEW f \in events, f.kind \in Kind \ Checkout, Placed(f.sub)', OrderDone(f)'
  PROVE  Stage(Platform(f), f)'
<1>1. CASE f.kind = "paid" BY <1>1 DEF Platform, Stage
<1>2. CASE f.kind = "deleted" BY <1>2 DEF Platform, Stage
<1>3. CASE f.kind \in {"updated", "failed"}
  <2>1. Platform(f) = "judge" BY <1>3 DEF Platform
  <2> QED BY <1>3, <2>1 DEF Stage
<1> QED BY <1>1, <1>2, <1>3 DEF Kind

(* An event a projection refuses came too late for it. *)
LEMMA Refused ==
  ASSUME NEW f \in Event, NEW p, p.status \in Status, p.at \in Nat, NEW incoming \in Status,
         ~Allowed(p.status, p.at, incoming, f.at), f.kind \in {"updated", "deleted"},
         f.kind = "deleted" => incoming = "canceled"
  PROVE  Covers(f, p)
<1>1. f.at \in Nat BY DEF Event
<1>2. CASE f.at < p.at BY <1>2 DEF Covers
<1>3. CASE Terminal(p.status) BY <1>3 DEF Covers
<1>4. CASE p.at = f.at /\ ~(Rank(p.status) <= Rank(incoming)) /\ ~Terminal(p.status)
  <2>1. f.kind # "deleted" BY <1>4 DEF Rank, Status, Terminal
  <2> QED BY <1>4, <2>1 DEF Covers
<1> QED BY <1>1, <1>2, <1>3, <1>4 DEF Allowed

(* A worker's own step takes it to a place it may come to. *)
LEMMA StageStep ==
  ASSUME TypeOK, TypeOK', History, RowInv, RowBased, \A s \in Sub : OrderBased(s),
         NEW w \in Worker, Work(w), Judged(w), Ordered(w), Delivering(w)
  PROVE  Delivering(w)'
<1>p. PICK f : f = run[w].ev OBVIOUS
<1>e. ASSUME ~At(w, "idle")
      PROVE  f \in events /\ f \in Event /\ f.sub \in Sub /\ f.at \in Nat /\ f.kind \in Kind /\ Incoming(f) \in Status
  BY <1>e, <1>p, EventType
<1>k. ASSUME ~At(w, "idle")
      PROVE  /\ Placed(f.sub) => Placed(f.sub)'
             /\ OrderDone(f) => OrderDone(f)'
             /\ Placed(f.sub) /\ RowDone(f) => RowDone(f)'
             /\ Handled(f) => Handled(f)'
  BY <1>e, <1>k, DoneStays
<1>d. Stage(run[w].pc, f) BY <1>p DEF Delivering
<1>q. row.at \in Nat /\ row.status \in Status /\ row.totals \in Nat /\ row'.at \in Nat BY DEF TypeOK
<1>i. run'[w] = Idle => Delivering(w)'
  <2>1. Stage("idle", NoEvent)' BY EarlyStages
  <2> QED BY <2>1, AtStage DEF Idle
<1>j. Leave(w) => Delivering(w)' BY <1>i, LeaveType
<1>g. ASSUME NEW pc \in Label, Go(w, pc), ~At(w, "idle"), Stage(pc, f)' PROVE Delivering(w)'
  <2>1. run'[w].pc = pc /\ run'[w].ev = f BY <1>g, <1>p, GoType
  <2> QED BY <1>g, <2>1, AtStage
<1>a. ASSUME NEW pc \in Label \ {"idle"}, Again(w, pc), ~At(w, "idle"), Stage(pc, f)' PROVE Delivering(w)'
  <2>1. run'[w] = Idle \/ (run'[w].pc = pc /\ run'[w].ev = f) BY <1>a, <1>p, AgainType
  <2> QED BY <1>a, <1>i, <2>1, AtStage
<1>m. ASSUME run' = [run EXCEPT ![w].pc = Platform(f), ![w].round = 1], ~At(w, "idle"),
             f.kind \notin Checkout, Placed(f.sub)', OrderDone(f)'
      PROVE  Delivering(w)'
  <2>1. run'[w].pc = Platform(f) /\ run'[w].ev = f BY <1>m, <1>p DEF TypeOK
  <2>2. Stage(Platform(f), f)' BY <1>m, <1>e, PlatformStage
  <2> QED BY <2>1, <2>2, AtStage
<1>1. ASSUME NEW e \in events, Take(w, e) PROVE Delivering(w)'
  <2> DEFINE first == CASE e.kind = "order" -> "complete"
                        [] e.kind = "plan" -> "find"
                        [] e.kind = "updated" /\ e.status = "unset" -> "exists"
                        [] OTHER -> "sync"
  <2>1. run'[w].pc = first /\ run'[w].ev = e BY <1>1 DEF Take, TypeOK, Idle
  <2>2. Stage(first, e)' BY EarlyStages DEF Checkout
  <2> HIDE DEF first
  <2> QED BY <2>1, <2>2, AtStage
<1>2. CASE Complete(w)
  <2>1. f.kind = "order" BY <1>2, <1>d DEF Complete, Stage
  <2> QED BY <1>2, <2>1, <1>g, EarlyStages DEF Complete, Label
<1>3. CASE SnapshotDue(w) \/ Snapshot(w)
  <2>1. f.kind = "order" /\ f.kind \in Checkout BY <1>3, <1>d DEF SnapshotDue, Snapshot, Stage, Checkout
  <2> QED BY <1>3, <2>1, <1>g, EarlyStages DEF SnapshotDue, Snapshot, Label
<1>4. CASE Find(w) \/ Insert(w) \/ Upsert(w)
  <2>1. f.kind \in Checkout BY <1>4, <1>p DEF Find, Insert, Upsert, Judged, Checkout
  <2>2. \E pc \in {"insert", "upsert", "seal"} : Go(w, pc) BY <1>4 DEF Find, Insert, Upsert
  <2>3. ~At(w, "idle") BY <1>4 DEF Find, Insert, Upsert
  <2> QED BY <2>1, <2>2, <2>3, <1>g, EarlyStages DEF Label
<1>5. CASE Sync(w)
  <2>0. f.kind \notin Checkout /\ ~At(w, "idle") BY <1>5, <1>d DEF Sync, Stage
  <2>1. CASE Go(w, "exists") BY <2>0, <2>1, <1>g, EarlyStages DEF Label
  <2>2. CASE Linked(f.sub) /\ run' = [run EXCEPT ![w].pc = "sync_write", ![w].at = order[f.sub].at,
                                                 ![w].status = order[f.sub].status]
    <3>1. run'[w].pc = "sync_write" /\ run'[w].ev = f BY <2>2, <1>p DEF TypeOK
    <3>2. Linked(f.sub)' BY <2>0, <2>2, <1>e, LinkedStays
    <3>3. Stage("sync_write", f)' BY <2>0, <3>2 DEF Stage
    <3> QED BY <3>1, <3>3, AtStage
  <2>3. CASE /\ Linked(f.sub) /\ run' = [run EXCEPT ![w].pc = Platform(f), ![w].round = 1]
             /\ ~(/\ Allowed(order[f.sub].status, order[f.sub].at, Incoming(f), f.at)
                  /\ f.kind = "paid" => order[f.sub].status = "past_due")
    <3>1. Placed(f.sub) BY <2>0, <2>3, <1>e, OneCheckout DEF OrderBased
    <3>2. OrderDone(f)
      <4>1. order[f.sub].status \in Status /\ order[f.sub].at \in Nat BY <2>0, <1>e DEF TypeOK
      <4>2. SUFFICES ASSUME f.kind \in {"updated", "deleted"} PROVE Covers(f, order[f.sub])
        BY <2>3 DEF OrderDone
      <4>3. ~Allowed(order[f.sub].status, order[f.sub].at, Incoming(f), f.at) BY <2>3, <4>2
      <4>4. f.kind = "deleted" => Incoming(f) = "canceled" BY DEF Incoming
      <4> QED BY <2>0, <1>e, <4>1, <4>2, <4>3, <4>4, Refused
    <3> QED BY <2>0, <2>3, <3>1, <3>2, <1>k, <1>m
  <2> QED BY <1>5, <1>p, <2>1, <2>2, <2>3 DEF Sync
<1>6. CASE SyncWrite(w)
  <2>0. f.kind \notin Checkout /\ ~At(w, "idle") /\ Linked(f.sub) BY <1>6, <1>d DEF SyncWrite, Stage
  <2>1. CASE Again(w, "sync") BY <2>0, <2>1, <1>a, EarlyStages DEF Label
  <2>2. CASE /\ order' = [order EXCEPT ![f.sub].status = Incoming(f), ![f.sub].at = f.at]
             /\ run' = [run EXCEPT ![w].pc = Platform(f), ![w].round = 1]
    <3>1. Placed(f.sub)' BY <2>0, <1>e, <1>k, OneCheckout DEF OrderBased
    <3>2. order'[f.sub].status = Incoming(f) /\ order'[f.sub].at = f.at BY <2>0, <2>2, <1>e DEF TypeOK
    <3>3. Linked(f.sub)' BY <2>0, <1>e, LinkedStays
    <3>4. f.kind = "deleted" => Incoming(f) = "canceled" BY DEF Incoming
    <3>5. OrderDone(f)' BY <3>2, <3>3, <3>4 DEF OrderDone, Covers, Terminal
    <3> QED BY <2>0, <2>2, <3>1, <3>5, <1>m
  <2> QED BY <1>6, <1>p, <2>1, <2>2 DEF SyncWrite
<1>7. CASE Exists(w)
  <2>0. f.kind \notin Checkout /\ ~At(w, "idle") BY <1>7, <1>d DEF Exists, Stage
  <2>1. CASE row.sub = f.sub /\ run' = [run EXCEPT ![w].pc = Platform(f), ![w].round = 1]
    <3>1. Placed(f.sub) BY <2>1 DEF Placed
    <3>2. OrderDone(f) BY <2>0, <2>1, <1>e, OneCheckout DEF OrderDone
    <3> QED BY <2>0, <2>1, <3>1, <3>2, <1>k, <1>m
  <2> QED BY <1>7, <1>p, <1>j, <2>1 DEF Exists
<1>8. CASE Judge(w)
  <2> DEFINE incoming == IF Incoming(f) = "unset" THEN row.status ELSE Incoming(f)
             allowed == row.sub = f.sub /\ Allowed(row.status, row.at, incoming, f.at)
             pc == IF allowed THEN "project" ELSE IF f.kind = "updated" THEN "owner" ELSE "seal"
  <2>0. /\ f.kind \in {"updated", "failed"} /\ f.kind \notin Checkout /\ ~At(w, "idle")
        /\ Placed(f.sub) /\ OrderDone(f)
    BY <1>8, <1>d DEF Judge, Stage
  <2>1. run' = [run EXCEPT ![w].pc = pc, ![w].at = row.at, ![w].status = row.status]
    BY <1>8, <1>p DEF Judge
  <2>2. run'[w].pc = pc /\ run'[w].ev = f
    <3> HIDE DEF pc
    <3> QED BY <2>1, <1>p DEF TypeOK
  <2>3. Placed(f.sub)' /\ OrderDone(f)' BY <2>0, <1>k
  <2>4. incoming \in Status BY <2>0, <1>e, <1>q
  <2>5. ~allowed => RowDone(f)
    <3>1. CASE row.sub = f.sub /\ f.kind = "updated" /\ ~allowed
      <4>1. ~Allowed(row.status, row.at, incoming, f.at) BY <3>1
      <4>2. Covers(f, row)
        <5> HIDE DEF incoming
        <5> QED BY <2>0, <1>e, <1>q, <2>4, <3>1, <4>1, Refused
      <4> QED BY <3>1, <4>2 DEF RowDone
    <3>2. CASE row.sub # f.sub \/ f.kind = "failed" BY <3>2 DEF RowDone
    <3> QED BY <2>0, <3>1, <3>2
  <2>6. ~allowed => RowDone(f)' BY <2>0, <2>5, <1>k
  <2>7. CASE allowed
    <3>1. Stage("project", f)' BY <2>0, <2>3 DEF Stage
    <3> QED BY <2>2, <2>7, <3>1, AtStage
  <2>8. CASE ~allowed /\ f.kind = "updated"
    <3>1. Stage("owner", f)' BY <2>0, <2>3, <2>6, <2>8 DEF Stage
    <3> QED BY <2>2, <2>8, <3>1, AtStage
  <2>9. CASE ~allowed /\ f.kind # "updated"
    <3>1. Stage("seal", f)' BY <2>3, <2>6, <2>9 DEF Stage, Handled
    <3> QED BY <2>2, <2>9, <3>1, AtStage
  <2> QED BY <2>7, <2>8, <2>9
<1>9. CASE Project(w)
  <2>0. /\ f.kind \in {"updated", "failed"} /\ f.kind \notin Checkout /\ ~At(w, "idle")
        /\ Placed(f.sub) /\ OrderDone(f)
    BY <1>9, <1>d DEF Project, Stage
  <2>1. Placed(f.sub)' /\ OrderDone(f)' BY <2>0, <1>k
  <2>2. CASE Again(w, "judge")
    <3>1. Stage("judge", f)' BY <2>0, <2>1 DEF Stage
    <3> QED BY <2>0, <2>2, <3>1, <1>a DEF Label
  <2>3. CASE /\ row' = [row EXCEPT !.at = f.at,
                          !.status = IF Incoming(f) = "unset" THEN @ ELSE Incoming(f),
                          !.plan = IF f.kind = "updated" THEN f.at ELSE @]
             /\ Go(w, IF f.kind = "updated" THEN "owner" ELSE "seal")
    <3>1. row'.at = f.at BY <2>3 DEF TypeOK
    <3>2. RowDone(f)' BY <2>0, <3>1 DEF RowDone, Covers
    <3>3. f.kind = "updated" => Stage("owner", f)' BY <2>0, <2>1, <3>2 DEF Stage
    <3>4. Stage("seal", f)' BY <2>1, <3>2 DEF Stage, Handled
    <3> QED BY <2>0, <2>3, <3>3, <3>4, <1>g DEF Label
  <2> QED BY <1>9, <1>p, <2>2, <2>3 DEF Project
<1>10. CASE Owner(w)
  <2>0. /\ f.kind = "updated" /\ f.kind \notin Checkout /\ ~At(w, "idle")
        /\ Placed(f.sub) /\ OrderDone(f) /\ RowDone(f)
    BY <1>10, <1>d DEF Owner, Stage
  <2>1. row' = row BY <1>10 DEF Owner, rows
  <2>2. Placed(f.sub)' /\ OrderDone(f)' /\ RowDone(f)' BY <2>0, <1>k
  <2>3. CASE row.sub = f.sub
    <3>1. Go(w, "totals") BY <1>10, <1>p, <2>3 DEF Owner
    <3>2. Covers(f, row)' BY <2>0, <2>1, <2>3 DEF RowDone, Covers
    <3>3. Stage("totals", f)' BY <2>0, <2>1, <2>2, <2>3, <3>2 DEF Stage
    <3> QED BY <2>0, <3>1, <3>3, <1>g DEF Label
  <2>4. CASE row.sub # f.sub
    <3>1. Go(w, "seal") BY <1>10, <1>p, <2>4 DEF Owner
    <3>2. Stage("seal", f)' BY <2>2 DEF Stage, Handled
    <3> QED BY <2>0, <3>1, <3>2, <1>g DEF Label
  <2> QED BY <2>3, <2>4
<1>11. CASE Totals(w)
  <2>0. /\ f.kind = "updated" /\ ~At(w, "idle") /\ Placed(f.sub) /\ OrderDone(f)
        /\ f.at <= row.at \/ (row.sub = f.sub /\ Covers(f, row))
    BY <1>11, <1>d DEF Totals, Stage
  <2>1. RowDone(f) BY <2>0, <1>e, <1>q DEF RowDone, Covers
  <2>2. Stage("seal", f)' BY <2>0, <2>1, <1>k DEF Stage, Handled
  <2> QED BY <1>11, <2>0, <2>2, <1>g DEF Totals, Label
<1>12. CASE Recover(w)
  <2>0. f.kind = "paid" /\ ~At(w, "idle") /\ Placed(f.sub) /\ OrderDone(f) BY <1>12, <1>d DEF Recover, Stage
  <2>1. RowDone(f) BY <2>0 DEF RowDone
  <2>2. Stage("seal", f)' BY <2>0, <2>1, <1>k DEF Stage, Handled
  <2> QED BY <1>12, <2>0, <2>2, <1>g DEF Recover, Label
<1>13. CASE CancelRow(w)
  <2>0. f.kind = "deleted" /\ ~At(w, "idle") /\ Placed(f.sub) /\ OrderDone(f)
    BY <1>13, <1>p, <1>d DEF CancelRow, Stage, Judged
  <2>1. Placed(f.sub)' /\ OrderDone(f)' BY <2>0, <1>k
  <2>2. RowDone(f)'
    <3>1. CASE row.sub = f.sub /\ row.at <= f.at
      <4>1. row' = [row EXCEPT !.status = "canceled", !.totals = 0, !.at = f.at]
        BY <1>13, <1>p, <3>1 DEF CancelRow
      <4>2. row'.status = "canceled" /\ row'.totals = 0 BY <4>1 DEF TypeOK
      <4> QED BY <4>2 DEF RowDone, Covers, Terminal
    <3>2. CASE row.sub # f.sub \/ f.at < row.at
      <4>1. row' = row BY <1>13, <1>p, <1>e, <1>q, <2>0, <3>2 DEF CancelRow
      <4>2. row.sub = f.sub => ~Terminal(row.status)
        <5>1. SUFFICES ASSUME row.sub = f.sub, Terminal(row.status), f.at < row.at PROVE FALSE BY <3>2
        <5>2. row.sub # None BY <5>1, <2>0, <1>e, NoneAssumption
        <5>3. PICK g \in events : g.sub = row.sub /\ g.at = row.at /\ Says(g, row.status)
          BY <5>2 DEF RowBased
        <5>4. Ends(g) \/ g.kind = "updated" BY <5>1, <5>3 DEF Says, Terminal, Incoming, Ends
        <5>5. row.at <= f.at BY <2>0, <1>e, <1>q, <5>1, <5>3, <5>4 DEF History, Endings
        <5> QED BY <2>0, <1>e, <1>q, <5>1, <5>5
      <4> QED BY <3>2, <4>1, <4>2 DEF RowDone, Covers
    <3> QED BY <2>0, <1>e, <1>q, <3>1, <3>2
  <2>3. Stage("seal", f)' BY <2>1, <2>2 DEF Stage, Handled
  <2> QED BY <1>13, <2>0, <2>3, <1>g DEF CancelRow, Label
<1>14. CASE Seal(w) \/ Drop(w) BY <1>14, <1>j DEF Seal, Drop
<1> QED BY <1>1, <1>2, <1>3, <1>4, <1>5, <1>6, <1>7, <1>8, <1>9, <1>10, <1>11, <1>12, <1>13, <1>14
        DEF Work

(* An event Stripe sends is no checkout of a subscription that has events.  *)
LEMMA NoCheckout ==
  ASSUME TypeOK, History, NEW s \in Sub, Bills(s), NEW r \in Sub, stripe[r] # "none",
         NEW n \in events', n.kind \in Checkout, n.sub = r
  PROVE  n \in events
BY BillsNew

(* What is claimed of the projections and the deliveries survives what      *)
(* Stripe does.                                                             *)
LEMMA DeliveredBills ==
  ASSUME TypeOK, TypeOK', History, RowInv, Delivered, NEW s \in Sub, Bills(s)
  PROVE  Delivered'
<1>u. /\ UNCHANGED <<order, items, row, sealed, run>> /\ events \subseteq events'
      /\ \A r \in Sub : stripe[r] = "canceled" => stripe'[r] = "canceled"
      /\ \A e \in events : e.sub \in Sub /\ stripe[e.sub] # "none"
  <2>1. \A r \in Sub : stripe[r] = "canceled" => stripe'[r] = "canceled"
    BY BillsKinds DEF Begins, Moves, Stops, Lingers, Live
  <2>2. \A e \in events : e.sub \in Sub /\ stripe[e.sub] # "none" BY DEF TypeOK, Event, History, Stream
  <2> QED BY <2>1, <2>2, BillsKinds
<1>1. RowBased'
  <2>1. Terminal(row.status) => row.sub \in Sub /\ stripe[row.sub] = "canceled"
    BY DEF Delivered, RowBased, TypeOK, RowInv
  <2> QED BY <1>u, <2>1 DEF Delivered, RowBased
<1>2. \A r \in Sub : OrderBased(r)'
  <2> SUFFICES ASSUME NEW r \in Sub PROVE OrderBased(r)' OBVIOUS
  <2>1. OrderBased(r) BY DEF Delivered
  <2> QED BY <1>u, <2>1 DEF OrderBased, Linked
<1>3. ASSUME NEW r \in Sub, stripe[r] # "none", Placed(r) PROVE Placed(r)'
  BY <1>u, <1>3, NoCheckout DEF Placed, Checkout
<1>4. ASSUME NEW f \in events, OrderDone(f) PROVE OrderDone(f)'
  BY <1>u, <1>4, NoCheckout DEF OrderDone, Linked, Checkout
<1>5. ASSUME NEW f \in events, RowDone(f) PROVE RowDone(f)' BY <1>u, <1>5 DEF RowDone
<1>6. ASSUME NEW f \in events, Handled(f) PROVE Handled(f)' BY <1>u, <1>3, <1>4, <1>5, <1>6 DEF Handled
<1>7. \A e \in sealed' : Handled(e)' BY <1>u, <1>6 DEF Delivered, TypeOK
<1>8. ASSUME NEW w \in Worker PROVE Delivering(w)'
  <2>1. PICK p, f : p = run[w].pc /\ f = run[w].ev OBVIOUS
  <2>2. Stage(p, f) BY <2>1 DEF Delivered, Delivering
  <2>3. run'[w].pc = p /\ run'[w].ev = f BY <1>u, <2>1
  <2>4. CASE p = "idle"
    <3>1. Stage(p, f)' BY <2>4, EarlyStages
    <3> QED BY <2>3, <3>1, AtStage
  <2>5. CASE p # "idle"
    <3>1. f \in events BY <2>1, <2>5 DEF TypeOK
    <3>2. /\ Placed(f.sub) => Placed(f.sub)'
          /\ OrderDone(f) => OrderDone(f)'
          /\ RowDone(f) => RowDone(f)'
          /\ Handled(f) => Handled(f)'
      BY <1>u, <1>3, <1>4, <1>5, <1>6, <3>1
    <3>3. /\ Linked(f.sub) => Linked(f.sub)'
          /\ (row.sub = f.sub /\ Covers(f, row)) => (row.sub = f.sub /\ Covers(f, row))'
          /\ f.at <= row.at => (f.at <= row.at)'
      BY <1>u DEF Linked, Covers
    <3>4. Stage(p, f)' BY <2>2, <3>2, <3>3 DEF Stage
    <3> QED BY <2>3, <3>4, AtStage
  <2> QED BY <2>4, <2>5
<1> QED BY <1>1, <1>2, <1>7, <1>8 DEF Delivered

(* And what the workers do. *)
LEMMA DeliveredWork ==
  ASSUME TypeOK, TypeOK', History, RowInv, Delivered, NEW w \in Worker, Work(w), Judged(w), Ordered(w)
  PROVE  Delivered'
<1>d. RowBased /\ Delivering(w) /\ \A s \in Sub : OrderBased(s) BY DEF Delivered
<1>1. RowBased' BY <1>d, RowKinds, RowBasedStep
<1>2. \A s \in Sub : OrderBased(s)' BY <1>d, OrderBasedStep
<1>3. Delivering(w)' BY <1>d, StageStep
<1>4. ASSUME NEW v \in Worker, v # w PROVE Delivering(v)'
  <2>1. PICK p, f : p = run[v].pc /\ f = run[v].ev OBVIOUS
  <2>2. run'[v].pc = p /\ run'[v].ev = f BY <1>4, <2>1, OthersStay
  <2>3. CASE p = "idle"
    <3>1. Stage(p, f)' BY <2>3, EarlyStages
    <3> QED BY <2>2, <3>1, AtStage
  <2>4. CASE p # "idle"
    <3>1. f \in events /\ Stage(p, f) BY <2>1, <2>4 DEF TypeOK, Delivered, Delivering
    <3>2. Stage(p, f)' BY <1>d, <3>1, StageStays
    <3> QED BY <2>2, <3>2, AtStage
  <2> QED BY <2>3, <2>4
<1>5. ASSUME NEW e \in sealed' PROVE Handled(e)'
  <2>1. sealed' = sealed \/ (Seal(w) /\ sealed' = sealed \cup {run[w].ev})
    BY DEF Work, Take, Complete, SnapshotDue, Snapshot, Find, Insert, Upsert, Sync, SyncWrite, Exists, Judge,
       Project, Owner, Totals, Recover, CancelRow, Seal, Drop
  <2>2. e \in events /\ Handled(e)
    <3>1. CASE e \in sealed BY <3>1 DEF TypeOK, Delivered
    <3>2. CASE e \notin sealed
      <4>1. At(w, "seal") /\ e = run[w].ev BY <1>5, <2>1, <3>2 DEF Seal
      <4> QED BY <1>d, <4>1, EventType DEF Delivering, Stage
    <3> QED BY <3>1, <3>2
  <2> QED BY <1>d, <2>2, DoneStays
<1> QED BY <1>1, <1>2, <1>3, <1>4, <1>5 DEF Delivered

-----------------------------------------------------------------------------
(* THE INVARIANT *)

Settlement == WholeInv /\ ForwardInv /\ History /\ Delivered

(* At first nothing was sent. *)
LEMMA SettlementInit == Init => Settlement
<1> SUFFICES ASSUME Init PROVE Settlement OBVIOUS
<1>1. WholeInv BY DEF Init, WholeInv, CheckoutIsWhole, Ordered, Idle
<1>2. Stream BY DEF Init, Stream, Before
<1>3. ForwardInv
  <2>1. RowInv BY DEF Init, RowInv, Terminal
  <2>2. \A w \in Worker : Judged(w) BY DEF Init, Judged, Idle
  <2> QED BY <1>2, <2>1, <2>2 DEF ForwardInv
<1>4. History BY <1>2 DEF Init, History, Succession, Endings, Latest
<1>5. Delivered
  <2>1. RowBased BY DEF Init, RowBased, Terminal
  <2>2. \A s \in Sub : OrderBased(s) BY DEF Init, OrderBased, Linked, Terminal
  <2>3. \A w \in Worker : Delivering(w) BY DEF Init, Delivering, Stage, Idle
  <2> QED BY <2>1, <2>2, <2>3 DEF Init, Delivered
<1> QED BY <1>1, <1>3, <1>4, <1>5 DEF Settlement

(* Every step keeps the invariant. *)
LEMMA SettlementStep == TypeOK /\ TypeOK' /\ Settlement /\ [Next]_vars => Settlement'
<1> SUFFICES ASSUME TypeOK, TypeOK', Settlement, [Next]_vars PROVE Settlement' OBVIOUS
<1>1. WholeInv' BY WholeStep DEF Settlement
<1>2. ForwardInv' BY ForwardStep DEF Settlement
<1>h. History /\ Delivered /\ Stream /\ Succession /\ Endings /\ Latest BY DEF Settlement, History
<1>3. CASE UNCHANGED <<order, row, sealed, run, world>>
  <2>1. History'
    BY <1>3, <1>h DEF world, History, Stream, Before, Succession, Endings, Latest, Newest
  <2>2. Delivered'
    <3>1. RowBased' BY <1>3, <1>h DEF world, Delivered, RowBased
    <3>2. \A s \in Sub : OrderBased(s)' BY <1>3, <1>h DEF world, Delivered, OrderBased, Linked
    <3>3. \A e \in sealed' : Handled(e)'
      BY <1>3, <1>h DEF world, Delivered, Handled, Placed, OrderDone, RowDone, Covers, Linked
    <3>4. \A w \in Worker : Delivering(w)'
      BY <1>3, <1>h DEF world, Delivered, Delivering, Stage, Handled, Placed, OrderDone, RowDone, Covers, Linked
    <3> QED BY <3>1, <3>2, <3>3, <3>4 DEF Delivered
  <2> QED BY <1>1, <1>2, <2>1, <2>2 DEF Settlement
<1>4. ASSUME NEW w \in Worker, Work(w) PROVE Settlement'
  <2>1. stripe' = stripe /\ clock' = clock /\ events' = events BY <1>4, WorldStays
  <2>2. History' BY <1>h, <2>1 DEF History, Stream, Before, Succession, Endings, Latest, Newest
  <2>3. Delivered' BY <1>4, <1>h, DeliveredWork DEF Settlement, ForwardInv, WholeInv
  <2> QED BY <1>1, <1>2, <2>2, <2>3 DEF Settlement
<1>5. ASSUME NEW s \in Sub, Bills(s) PROVE Settlement'
  <2>1. Stream' BY <1>5, <1>h, StreamStep
  <2>2. Succession' BY <1>5, <1>h, SuccessionStep
  <2>3. Endings' BY <1>5, <1>h, EndingsStep
  <2>4. Latest' BY <1>5, <1>h, LatestStep
  <2>5. Delivered' BY <1>5, <1>h, DeliveredBills DEF Settlement, ForwardInv
  <2> QED BY <1>1, <1>2, <2>1, <2>2, <2>3, <2>4, <2>5 DEF Settlement, History
<1>6. ASSUME NEW s \in Sub, Closes(s) PROVE UNCHANGED <<order, row, sealed, run, world>>
  BY <1>6 DEF Closes, world
<1> QED BY <1>3, <1>4, <1>5, <1>6 DEF Next, Finished, vars, world

(* The invariant behind the three theorems below. *)
THEOREM SettlementInvariant == Spec => []Settlement
BY SettlementInit, SettlementStep, TypeCorrect, PTL DEF Spec

(* "A failed delivery that Stripe retries after a newer one has landed must *)
(* not put the older payload's totals back": set_addon_totals stamps        *)
(* nothing, and still no interleaving of deliveries, with a takeover of the *)
(* row between the lookup of the owner and the write, takes the totals back *)
(* in time.                                                                 *)
THEOREM TotalsGoForward == Spec => TotalsForward
<1> DEFINE A == row'.sub = row.sub => row'.totals = 0 \/ row.totals <= row'.totals
<1>1. ASSUME TypeOK, TypeOK', Settlement, [Next]_vars PROVE [A]_vars
  <2>n. row.totals \in Nat /\ row.at \in Nat BY <1>1 DEF TypeOK
  <2>1. row' = row => A BY <2>n
  <2>2. ASSUME NEW w \in Worker, Work(w) PROVE A
    <3>1. History /\ RowInv /\ RowBased /\ Judged(w) /\ Delivering(w)
      BY <1>1 DEF Settlement, ForwardInv, Delivered
    <3>2. row' = row \/ Advances \/ Fills \/ TakenOver BY <1>1, <2>2, <3>1, RowKinds
    <3>3. CASE Advances BY <2>n, <3>3 DEF Advances
    <3>4. CASE Fills BY <2>n, <3>1, <3>4 DEF Fills, RowBased
    <3>5. CASE TakenOver BY <3>5 DEF TakenOver
    <3> QED BY <2>1, <3>2, <3>3, <3>4, <3>5
  <2>3. ASSUME NEW s \in Sub, Bills(s) PROVE row' = row BY <1>1, <2>3, BillsKinds
  <2>4. ASSUME NEW s \in Sub, Closes(s) PROVE row' = row BY <2>4 DEF Closes
  <2> QED BY <1>1, <2>1, <2>2, <2>3, <2>4 DEF Next, Finished, vars
<1> QED BY <1>1, SettlementInvariant, TypeCorrect, PTL DEF Spec, TotalsForward

(* A cancellation that was sealed left no quota behind, and no update that  *)
(* was under way, or shares its second, brings it back: set_addon_totals    *)
(* refuses a terminal row, and no delivery makes the row terminal after the *)
(* deletion found it too new to cancel.                                     *)
THEOREM CanceledHasNoQuotaAlways == Spec => []CanceledHasNoQuota
<1>1. ASSUME Settlement PROVE CanceledHasNoQuota
  <2>1. \A e \in sealed : e.kind = "deleted" => RowDone(e)
    BY <1>1 DEF Settlement, Delivered, Handled, Checkout
  <2> QED BY <2>1 DEF RowDone, CanceledHasNoQuota
<1> QED BY <1>1, SettlementInvariant, PTL

(* A subscription whose newest events restate its status. *)
LEMMA SettledOnce ==
  ASSUME TypeOK, Settlement, NEW s \in Sub, AllSealed(s), Restated(s)
  PROVE  /\ Linked(s) => order[s].status = stripe[s]
         /\ row.sub = s => row.status = stripe[s]
<1>h. /\ History /\ Stream /\ Succession /\ Endings /\ Latest
      /\ RowBased /\ OrderBased(s)
      /\ \A e \in events : e.sub = s => e \in sealed /\ Handled(e)
  BY DEF Settlement, History, Delivered, AllSealed
<1>t. /\ \A e \in events : e.at \in Nat /\ e.kind \in Kind
      /\ order[s].at \in Nat /\ row.at \in Nat /\ s # None /\ stripe[s] # "unset"
  BY NoneAssumption DEF TypeOK, Event
<1>p. PICK m \in events : /\ m.sub = s
                          /\ m.kind \in Checkout \cup {"deleted"} \/ m.status # "unset"
                          /\ \A d \in events : d.sub = s => d.at <= m.at
  BY DEF Restated
<1>m. Newest(m) BY <1>p DEF Newest
<1>1. CASE stripe[s] = "canceled"
  <2>1. PICK d \in events : d.kind = "deleted" /\ d.sub = s BY <1>1, <1>h DEF Endings
  <2>2. OrderDone(d) /\ RowDone(d) BY <1>h, <2>1 DEF Handled, Checkout
  <2>3. m.at = d.at
    <3>1. m.kind \in Checkout \cup {"deleted", "updated"} BY <1>h, <1>p DEF Succession
    <3>2. m.at <= d.at BY <1>h, <1>p, <1>t, <2>1, <3>1 DEF Endings, Ends
    <3> QED BY <1>p, <1>t, <2>1, <3>2
  <2>4. ASSUME Linked(s) PROVE order[s].status = "canceled"
    <3>1. \E c \in events : c.kind = "order" /\ c.sub = s BY <1>h, <2>4 DEF OrderBased
    <3>2. Covers(d, order[s]) BY <2>1, <2>2, <3>1 DEF OrderDone
    <3>3. order[s].at <= d.at BY <1>h, <1>p, <1>t, <2>3, <2>4 DEF OrderBased
    <3> QED BY <1>t, <2>1, <3>2, <3>3 DEF Covers, Terminal
  <2>5. ASSUME row.sub = s PROVE row.status = "canceled"
    <3>1. Covers(d, row) BY <2>1, <2>2, <2>5 DEF RowDone
    <3>2. row.at <= d.at BY <1>h, <1>p, <1>t, <2>3, <2>5 DEF RowBased
    <3> QED BY <1>t, <2>1, <3>1, <3>2 DEF Covers, Terminal
  <2> QED BY <1>1, <2>4, <2>5
<1>2. CASE stripe[s] # "canceled" /\ m.kind \in Checkout
  <2>1. stripe[s] = "active" /\ \A d \in events : d.sub = s => d = m
    BY <1>h, <1>m, <1>p, <1>2 DEF Latest, Checkout
  <2>2. Linked(s) => order[s].status = "active" BY <1>h, <1>2, <2>1 DEF OrderBased
  <2>3. row.sub = s => row.status = "active"
    <3>1. row.sub = s => Says(m, row.status) BY <1>h, <1>t, <2>1 DEF RowBased
    <3> QED BY <3>1, <1>2 DEF Says, Checkout
  <2> QED BY <2>1, <2>2, <2>3
<1>3. CASE stripe[s] # "canceled" /\ m.kind \notin Checkout
  <2>1. ~Terminal(order[s].status) /\ (row.sub = s => ~Terminal(row.status)) BY <1>3, <1>h DEF OrderBased, RowBased
  <2>2. m.kind = "updated" /\ m.status # "unset"
    <3>1. m.kind # "deleted" BY <1>h, <1>p, <1>3 DEF Endings, Ends
    <3> QED BY <1>h, <1>p, <1>3, <3>1 DEF Succession
  <2>3. OrderDone(m) /\ RowDone(m) BY <1>h, <1>p, <1>3 DEF Handled
  <2>4. Incoming(m) = stripe[s] BY <1>h, <1>m, <1>p, <1>3, <2>2 DEF Latest
  <2>5. ASSUME NEW d \in events, d.sub = s, d.at = m.at, d.kind \notin Checkout PROVE Incoming(d) = stripe[s]
    <3>1. Newest(d) BY <1>p, <2>5 DEF Newest
    <3>2. CASE Incoming(d) = stripe[s] BY <3>2
    <3>3. CASE d = m BY <2>4, <3>3
    <3> QED BY <1>h, <1>m, <1>p, <1>3, <2>5, <3>1, <3>2, <3>3 DEF Latest
  <2>6. ASSUME Linked(s) PROVE order[s].status = stripe[s]
    <3>1. \E c \in events : c.kind = "order" /\ c.sub = s BY <1>h, <2>6 DEF OrderBased
    <3>2. Covers(m, order[s]) BY <1>p, <2>2, <2>3, <3>1 DEF OrderDone
    <3>3. m.at <= order[s].at BY <1>t, <2>1, <3>2 DEF Covers
    <3>4. CASE order[s].at = 0 /\ order[s].status = "active"
      <4>1. PICK c \in events : c.kind = "order" /\ c.sub = s BY <3>1
      <4>2. c.at = m.at BY <1>p, <1>t, <3>3, <3>4, <4>1
      <4>3. Newest(c) BY <1>p, <4>1, <4>2 DEF Newest
      <4> QED BY <1>h, <1>p, <1>3, <4>1, <4>3 DEF Latest, Checkout
    <3>5. CASE \E e \in events : /\ e.sub = s /\ e.kind \notin Checkout
                                 /\ e.at = order[s].at /\ Incoming(e) = order[s].status
      <4>1. PICK e \in events : /\ e.sub = s /\ e.kind \notin Checkout
                                /\ e.at = order[s].at /\ Incoming(e) = order[s].status
        BY <3>5
      <4>2. e.at = m.at BY <1>p, <1>t, <3>3, <4>1
      <4> QED BY <2>5, <4>1, <4>2
    <3> QED BY <1>h, <2>6, <3>4, <3>5 DEF OrderBased
  <2>7. ASSUME row.sub = s PROVE row.status = stripe[s]
    <3>1. PICK e \in events : e.sub = s /\ e.at = row.at /\ Says(e, row.status) BY <1>h, <1>t, <2>7 DEF RowBased
    <3>2. Covers(m, row) BY <1>p, <2>2, <2>3, <2>7 DEF RowDone
    <3>3. m.at <= row.at BY <1>t, <2>1, <2>7, <3>2 DEF Covers
    <3>4. e.at = m.at BY <1>p, <1>t, <3>1, <3>3
    <3>5. Newest(e) BY <1>p, <3>1, <3>4 DEF Newest
    <3>6. e.kind \notin Checkout BY <1>h, <1>p, <1>3, <3>1, <3>5 DEF Latest, Checkout
    <3>7. Incoming(e) = stripe[s] BY <2>5, <3>1, <3>4, <3>6
    <3>8. e.kind = "updated" => Incoming(e) = e.status BY DEF Incoming
    <3> QED BY <1>t, <3>1, <3>6, <3>7, <3>8 DEF Says
  <2> QED BY <2>6, <2>7
<1> QED BY <1>1, <1>2, <1>3

(* Stripe's at-least-once, unordered delivery settles: once every event of  *)
(* a subscription is sealed, whatever the order, the repetitions and the    *)
(* interleavings of its deliveries, its order and the user's row say what   *)
(* Stripe says, as soon as the newest events restate the status.            *)
THEOREM SettledAlways == Spec => []Settled
<1>1. TypeOK /\ Settlement => Settled BY SettledOnce DEF Settled
<1> QED BY <1>1, SettlementInvariant, TypeCorrect, PTL
=============================================================================

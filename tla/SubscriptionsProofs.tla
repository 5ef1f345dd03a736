------------------------- MODULE SubscriptionsProofs -------------------------
(***************************************************************************)
(* TypeOK, CheckoutIsWhole and ForwardOnly of Subscriptions, for any       *)
(* subscriptions, workers and bounds.  SettlementProofs has the rest.      *)
(***************************************************************************)
EXTENDS Subscriptions, TLAPS

Run == [pc : Label, ev : Event \cup {NoEvent}, at : Nat, status : Status, round : 1 .. Rounds]

USE DEF At

(* Nothing has happened. *)
LEMMA SubscriptionsTypeInit == Init => TypeOK
BY BoundAssumption DEF Init, TypeOK, Idle, NoEvent, Status, Label

(* A worker that starts the next part keeps its type and its event. *)
LEMMA MoveType ==
  ASSUME TypeOK, NEW w \in Worker, NEW pc \in Label, NEW n \in 1 .. Rounds,
         run' = [run EXCEPT ![w].pc = pc, ![w].round = n]
  PROVE  /\ run' \in [Worker -> Run]
         /\ \A v \in Worker : run'[v].ev = run[v].ev /\ (v # w => run'[v] = run[v])
         /\ run'[w].pc = pc
<1>1. run'[w] = [run[w] EXCEPT !.pc = pc, !.round = n] BY DEF TypeOK
<1>2. run[w] \in Run BY DEF TypeOK, Run
<1>3. \A r \in Run : [r EXCEPT !.pc = pc, !.round = n] \in Run BY DEF Run
<1>4. run' \in [Worker -> Run] BY <1>1, <1>2, <1>3 DEF TypeOK, Run
<1>5. \A v \in Worker : run'[v].ev = run[v].ev /\ (v # w => run'[v] = run[v]) BY DEF TypeOK
<1>6. run'[w].pc = pc BY DEF TypeOK
<1> QED BY <1>4, <1>5, <1>6

(* A worker that has read keeps its type and its event. *)
LEMMA ReadType ==
  ASSUME TypeOK, NEW w \in Worker, NEW pc \in Label, NEW at \in Nat, NEW status \in Status,
         run' = [run EXCEPT ![w].pc = pc, ![w].at = at, ![w].status = status]
  PROVE  /\ run' \in [Worker -> Run]
         /\ \A v \in Worker : run'[v].ev = run[v].ev /\ (v # w => run'[v] = run[v])
         /\ run'[w].pc = pc /\ run'[w].at = at /\ run'[w].status = status
BY DEF TypeOK, Run

(* A worker that moves on keeps its type and its event. *)
LEMMA GoType ==
  ASSUME TypeOK, NEW w \in Worker, run[w].pc # "idle", NEW pc \in Label, Go(w, pc)
  PROVE  /\ run' \in [Worker -> Run]
         /\ \A v \in Worker : run'[v].ev = run[v].ev /\ (v # w => run'[v] = run[v])
         /\ run'[w].pc = pc
BY DEF TypeOK, Go, Run

(* A worker that leaves is idle, and the others are as they were. *)
LEMMA LeaveType ==
  ASSUME TypeOK, NEW w \in Worker, Leave(w)
  PROVE  /\ run' \in [Worker -> Run]
         /\ run'[w] = Idle
         /\ \A v \in Worker : v # w => run'[v] = run[v]
BY BoundAssumption DEF TypeOK, Leave, Run, Idle, Label, Status

(* A worker whose compare-and-swap missed reads again, or leaves. *)
LEMMA AgainType ==
  ASSUME TypeOK, NEW w \in Worker, run[w].pc # "idle", NEW pc \in Label \ {"idle"}, Again(w, pc)
  PROVE  /\ run' \in [Worker -> Run]
         /\ \A v \in Worker : v # w => run'[v] = run[v]
         /\ run'[w] = Idle \/ (run'[w].ev = run[w].ev /\ run'[w].pc = pc)
<1>1. CASE run[w].round = Rounds BY <1>1, LeaveType DEF Again
<1>2. CASE run[w].round # Rounds
  <2>0. run[w].round \in 1 .. Rounds BY DEF TypeOK
  <2>1. run[w].round + 1 \in 1 .. Rounds BY <1>2, <2>0, BoundAssumption
  <2> QED BY <1>2, <2>1 DEF TypeOK, Again, Run
<1> QED BY <1>1, <1>2

(* A worker that is not idle handles an event that was sent. *)
LEMMA EventType ==
  ASSUME TypeOK, NEW w \in Worker, run[w].pc # "idle"
  PROVE  /\ run[w].ev \in events /\ run[w].ev \in Event
         /\ run[w].ev.sub \in Sub /\ run[w].ev.at \in Nat /\ run[w].ev.kind \in Kind
         /\ Incoming(run[w].ev) \in Status /\ run[w].ev.status \in Status
BY DEF TypeOK, Event, Incoming, Status

(* What Stripe sends are events. *)
LEMMA SendsType ==
  ASSUME TypeOK, NEW s \in Sub, NEW t \in Nat, NEW sent,
         \A m \in sent : m[1] \in Kind /\ m[2] \in Status, Sends(s, t, sent)
  PROVE  /\ events' \subseteq Event /\ events \subseteq events' /\ sealed' \subseteq events'
         /\ clock' \in Nat
         /\ UNCHANGED <<order, closed, items, row, run, sealed>>
BY DEF TypeOK, Sends, Event, rows

(* Every step keeps the types. *)
LEMMA SubscriptionsType == TypeOK /\ [Next]_vars => TypeOK'
<1> SUFFICES ASSUME TypeOK, [Next]_vars PROVE TypeOK'
  OBVIOUS
<1> USE DEF TypeOK, rows, world
<1>1. CASE UNCHANGED vars BY <1>1 DEF vars
<1>2. ASSUME NEW s \in Sub, Bills(s) PROVE TypeOK'
  <2> DEFINE S == {"none", "active", "past_due", "unpaid", "canceled"}
  <2>n. Now \in Nat /\ clock \in Nat BY DEF Now
  <2>b. \A x \in S : Becomes(s, x) => stripe' \in [Sub -> S] BY DEF Becomes
  <2>s. stripe[s] \in Status \/ stripe[s] = "none" BY DEF Status
  <2>1. CASE Subscribes(s)
    <3>1. PICK kind \in Checkout : Sends(s, Now, {<<kind, "unset">>}) BY <2>1 DEF Subscribes
    <3>2. \A m \in {<<kind, "unset">>} : m[1] \in Kind /\ m[2] \in Status BY DEF Kind, Status
    <3> QED BY <2>1, <2>n, <2>b, <3>1, <3>2, SendsType DEF Subscribes
  <2>2. CASE Fails(s)
    <3>2. \A m \in {<<"failed", "unset">>, <<"updated", "past_due">>} :
            m[1] \in Kind /\ m[2] \in Status BY DEF Kind, Status
    <3> QED BY <2>2, <2>n, <2>b, <3>2, SendsType DEF Fails
  <2>3. CASE Lapses(s)
    <3>2. \A m \in {<<"updated", "unpaid">>} : m[1] \in Kind /\ m[2] \in Status BY DEF Kind, Status
    <3> QED BY <2>3, <2>n, <2>b, <3>2, SendsType DEF Lapses
  <2>4. CASE Pays(s)
    <3>2. \A m \in {<<"paid", "unset">>, <<"updated", "active">>} :
            m[1] \in Kind /\ m[2] \in Status BY DEF Kind, Status
    <3> QED BY <2>4, <2>n, <2>b, <3>2, SendsType DEF Pays
  <2>5. CASE Changes(s)
    <3>1. PICK status \in {stripe[s], "unset"} : Sends(s, Now, {<<"updated", status>>})
      BY <2>5 DEF Changes
    <3>2. \A m \in {<<"updated", status>>} : m[1] \in Kind /\ m[2] \in Status
      BY <2>5, <2>s DEF Changes, Kind, Status
    <3> QED BY <2>5, <2>n, <3>1, <3>2, SendsType DEF Changes
  <2>6. CASE Cancels(s)
    <3>1. PICK t \in {clock, Now}, status \in {stripe[s], "canceled"} :
            Sends(s, t, {<<"updated", status>>, <<"deleted", "unset">>}) BY <2>6 DEF Cancels
    <3>2. \A m \in {<<"updated", status>>, <<"deleted", "unset">>} : m[1] \in Kind /\ m[2] \in Status
      BY <2>6, <2>s DEF Cancels, Kind, Status
    <3> QED BY <2>6, <2>n, <2>b, <3>1, <3>2, SendsType DEF Cancels
  <2>7. CASE Leftover(s)
    <3>1. PICK kind \in {"failed", "paid"} : Sends(s, Now, {<<kind, "unset">>}) BY <2>7 DEF Leftover
    <3>2. \A m \in {<<kind, "unset">>} : m[1] \in Kind /\ m[2] \in Status BY DEF Kind, Status
    <3> QED BY <2>7, <2>n, <3>1, <3>2, SendsType DEF Leftover
  <2> QED BY <1>2, <2>1, <2>2, <2>3, <2>4, <2>5, <2>6, <2>7 DEF Bills
<1>3. ASSUME NEW w \in Worker, Work(w) PROVE TypeOK'
  <2> DEFINE e == run[w].ev
  <2>l. /\ "idle" \in Label /\ "snapshot" \in Label /\ "seal" \in Label /\ "insert" \in Label
        /\ "upsert" \in Label /\ "exists" \in Label /\ "owner" \in Label /\ "totals" \in Label
        /\ "sync" \in Label /\ "judge" \in Label /\ "project" \in Label
        /\ "sync_write" \in Label /\ "due" \in Label /\ "complete" \in Label /\ "find" \in Label
    BY DEF Label
  <2>p. \A x : Platform(x) \in Label /\ Platform(x) # "idle" BY DEF Platform, Label
  <2>r. 1 \in 1 .. Rounds BY BoundAssumption
  <2>1. ASSUME NEW f \in events, Take(w, f) PROVE TypeOK'
    <3>1. f \in Event OBVIOUS
    <3>2. PICK first \in Label : run' = [run EXCEPT ![w] = [Idle EXCEPT !.pc = first, !.ev = f]]
      BY <2>1, <2>l DEF Take
    <3>3. [Idle EXCEPT !.pc = first, !.ev = f] \in Run BY <2>r, <3>1 DEF Idle, Run, Status
    <3>4. [Idle EXCEPT !.pc = first, !.ev = f].ev = f BY DEF Idle
    <3>5. run' \in [Worker -> Run] /\ run'[w].ev = f /\ \A v \in Worker \ {w} : run'[v] = run[v]
      BY <3>2, <3>3, <3>4 DEF Run
    <3> QED BY <2>1, <3>5 DEF Take, Run
  <2>2. CASE Complete(w)
    <3>1. order' \in [Sub -> [status : Status, at : Nat]] BY <2>2, EventType DEF Complete, Status
    <3> QED BY <2>2, <2>l, <3>1, GoType DEF Complete, Run
  <2>3. CASE Snapshot(w) BY <2>3, <2>l, GoType, EventType DEF Snapshot, Run
  <2>18. CASE SnapshotDue(w) BY <2>18, <2>l, GoType DEF SnapshotDue, Run
  <2>4. CASE Find(w) BY <2>4, <2>l, GoType DEF Find, Run
  <2>5. CASE Insert(w)
    <3>1. row' \in [sub : Sub \cup {None}, status : Status, at : Nat, plan : Nat, totals : Nat]
      BY <2>5, EventType DEF Insert, Status
    <3> QED BY <2>5, <2>l, <3>1, GoType DEF Insert, Run
  <2>6. CASE Upsert(w)
    <3>1. row' \in [sub : Sub \cup {None}, status : Status, at : Nat, plan : Nat, totals : Nat]
      BY <2>6, EventType DEF Upsert, Status
    <3> QED BY <2>6, <2>l, <3>1, GoType DEF Upsert, Run
  <2>7. CASE Sync(w)
    <3>1. order[e.sub] \in [status : Status, at : Nat] BY <2>7, EventType DEF Sync
    <3>2. CASE Go(w, "exists") BY <2>7, <3>2, <2>l, GoType DEF Sync, Run
    <3>3. CASE run' = [run EXCEPT ![w].pc = "sync_write", ![w].at = order[e.sub].at,
                                  ![w].status = order[e.sub].status]
      BY <2>7, <3>1, <3>3, <2>l DEF Sync
    <3>4. CASE run' = [run EXCEPT ![w].pc = Platform(e), ![w].round = 1]
      BY <2>7, <3>4, <2>p, <2>r DEF Sync
    <3> QED BY <2>7, <3>2, <3>3, <3>4 DEF Sync
  <2>8. CASE SyncWrite(w)
    <3>1. CASE /\ order' = [order EXCEPT ![e.sub].status = Incoming(e), ![e.sub].at = e.at]
               /\ run' = [run EXCEPT ![w].pc = Platform(e), ![w].round = 1]
      <4>1. order' \in [Sub -> [status : Status, at : Nat]] BY <2>8, <3>1, EventType DEF SyncWrite
      <4>2. run' \in [Worker -> Run] /\ \A v \in Worker : run'[v].ev = run[v].ev /\ (v # w => run'[v] = run[v])
        <5> HIDE DEF TypeOK
        <5> QED BY <3>1, <2>p, <2>r, MoveType, Zenon
      <4> QED BY <2>8, <4>1, <4>2 DEF SyncWrite, Run
    <3>2. CASE Again(w, "sync") /\ UNCHANGED order
      BY <2>8, <3>2, <2>l, AgainType DEF SyncWrite, Run, Idle
    <3> QED BY <2>8, <3>1, <3>2 DEF SyncWrite
  <2>9. CASE Exists(w)
    <3>1. CASE run' = [run EXCEPT ![w].pc = Platform(e), ![w].round = 1]
      BY <2>9, <3>1, <2>p, <2>r DEF Exists
    <3>2. CASE Leave(w) BY <2>9, <3>2, LeaveType DEF Exists, Run, Idle
    <3> QED BY <2>9, <3>1, <3>2 DEF Exists
  <2>10. CASE Judge(w)
    <3>1. PICK pc \in Label : run' = [run EXCEPT ![w].pc = pc, ![w].at = row.at, ![w].status = row.status]
      BY <2>10, <2>l DEF Judge
    <3>2. row.at \in Nat /\ row.status \in Status OBVIOUS
    <3>3. run' \in [Worker -> Run] /\ \A v \in Worker : run'[v].ev = run[v].ev /\ (v # w => run'[v] = run[v])
      <4> HIDE DEF TypeOK
      <4> QED BY <3>1, <3>2, ReadType, Zenon
    <3> QED BY <2>10, <3>3 DEF Judge, Run
  <2>11. CASE Project(w)
    <3>1. CASE Go(w, IF e.kind = "updated" THEN "owner" ELSE "seal") /\ UNCHANGED <<order, closed, items, sealed, world>>
               /\ row' = [row EXCEPT !.at = e.at,
                          !.status = IF Incoming(e) = "unset" THEN @ ELSE Incoming(e),
                          !.plan = IF e.kind = "updated" THEN e.at ELSE @]
      <4>1. row' \in [sub : Sub \cup {None}, status : Status, at : Nat, plan : Nat, totals : Nat]
        BY <2>11, <3>1, EventType DEF Project
      <4> QED BY <2>11, <3>1, <4>1, <2>l, GoType DEF Project, Run
    <3>2. CASE Again(w, "judge") /\ UNCHANGED row
      <4>1. /\ run' \in [Worker -> Run] /\ \A v \in Worker : v # w => run'[v] = run[v]
            /\ run'[w] = Idle \/ run'[w].ev = run[w].ev
        <5> HIDE DEF TypeOK
        <5> QED BY <2>11, <3>2, <2>l, AgainType DEF Project
      <4>2. /\ Idle.pc = "idle"
            /\ UNCHANGED <<order, closed, items, row, sealed, stripe, clock, events>>
        BY <2>11, <3>2 DEF Project, Idle
      <4> QED BY <2>11, <4>1, <4>2 DEF Project, Run
    <3> QED BY <2>11, <3>1, <3>2 DEF Project
  <2>12. CASE Owner(w) BY <2>12, <2>l, GoType DEF Owner, Run
  <2>13. CASE Totals(w)
    <3>1. row' \in [sub : Sub \cup {None}, status : Status, at : Nat, plan : Nat, totals : Nat]
      BY <2>13, EventType DEF Totals
    <3> QED BY <2>13, <2>l, <3>1, GoType DEF Totals, Run
  <2>14. CASE Recover(w)
    <3>1. row' \in [sub : Sub \cup {None}, status : Status, at : Nat, plan : Nat, totals : Nat]
      BY <2>14, EventType DEF Recover, Status
    <3> QED BY <2>14, <2>l, <3>1, GoType DEF Recover, Run
  <2>15. CASE CancelRow(w)
    <3>1. row' \in [sub : Sub \cup {None}, status : Status, at : Nat, plan : Nat, totals : Nat]
      BY <2>15, EventType DEF CancelRow, Status
    <3> QED BY <2>15, <2>l, <3>1, GoType DEF CancelRow, Run
  <2>16. CASE Seal(w) BY <2>16, LeaveType, EventType DEF Seal, Run, Idle
  <2>17. CASE Drop(w) BY <2>17, LeaveType DEF Drop, Run, Idle
  <2> QED
    BY <1>3, <2>1, <2>2, <2>3, <2>4, <2>5, <2>6, <2>7, <2>8, <2>9, <2>10, <2>11, <2>12, <2>13,
       <2>14, <2>15, <2>16, <2>17, <2>18 DEF Work
<1>4. ASSUME NEW s \in Sub, Closes(s) PROVE TypeOK' BY <1>4 DEF Closes
<1> QED BY <1>1, <1>2, <1>3, <1>4 DEF Next, Finished

(* The projections, the workers and Stripe's stream keep their types. *)
THEOREM TypeCorrect == Spec => []TypeOK
BY SubscriptionsTypeInit, SubscriptionsType, PTL DEF Spec

-----------------------------------------------------------------------------
(* A CHECKOUT IS WHOLE *)

(* What a sealed checkout leaves: an order that is closed, or linked with   *)
(* its items.                                                               *)
Whole(s) == s \in closed \/ (Linked(s) /\ s \in items)

(* A checkout of an order goes through its two writes in order, or finds it *)
(* closed, and what moves an order afterwards names a status.               *)
Ordered(w) ==
  /\ ~At(w, "idle") /\ run[w].ev.kind = "order" => run[w].pc \in {"complete", "due", "snapshot", "seal"}
  /\ run[w].pc \in {"sync", "sync_write"} => Incoming(run[w].ev) # "unset"
  /\ At(w, "due") => Linked(run[w].ev.sub) \/ run[w].ev.sub \in closed
  /\ At(w, "snapshot") => Linked(run[w].ev.sub)
  /\ At(w, "seal") /\ run[w].ev.kind = "order" => Whole(run[w].ev.sub)

(* What Ordered says of a worker depends on its record, and is never undone *)
(* by an order that was linked or closed or a snapshot that was taken.      *)
LEMMA OrderedStays ==
  ASSUME NEW w \in Worker, Ordered(w), run'[w] = run[w], items \subseteq items',
         closed \subseteq closed', TypeOK, \A s \in Sub : Linked(s) => Linked(s)'
  PROVE  Ordered(w)'
<1>1. CASE At(w, "idle") BY <1>1 DEF Ordered
<1>2. CASE ~At(w, "idle") BY <1>2, EventType DEF Ordered, Whole
<1> QED BY <1>1, <1>2

(* No step of a worker unlinks an order, opens one or forgets a snapshot. *)
LEMMA LinkedStays ==
  ASSUME TypeOK, TypeOK', NEW w \in Worker, Work(w), Ordered(w)
  PROVE  (\A s \in Sub : Linked(s) => Linked(s)') /\ items \subseteq items' /\ closed' = closed
<1> USE DEF rows, world, Linked
<1>1. CASE Complete(w)
  <2>1. run[w].ev.sub \in Sub BY <1>1, EventType DEF Complete
  <2> QED BY <1>1, <2>1 DEF Complete, TypeOK
<1>2. CASE SyncWrite(w)
  <2>1. run[w].ev.sub \in Sub /\ Incoming(run[w].ev) # "unset" BY <1>2, EventType DEF SyncWrite, Ordered
  <2>2. order' = order \/ order' = [order EXCEPT ![run[w].ev.sub].status = Incoming(run[w].ev),
                                                ![run[w].ev.sub].at = run[w].ev.at]
    BY <1>2 DEF SyncWrite
  <2> QED BY <1>2, <2>1, <2>2 DEF SyncWrite, TypeOK
<1>3. CASE ~Complete(w) /\ ~SyncWrite(w)
  BY <1>3 DEF Work, Take, SnapshotDue, Snapshot, Find, Insert, Upsert, Sync, Exists, Judge, Project, Owner,
       Totals, Recover, CancelRow, Seal, Drop
<1> QED BY <1>1, <1>2, <1>3

(* A worker's own step keeps Ordered. *)
LEMMA OrderedStep ==
  ASSUME TypeOK, TypeOK', NEW w \in Worker, Work(w), Ordered(w)
  PROVE  Ordered(w)'
<1> DEFINE e == run[w].ev
<1>l. (\A s \in Sub : Linked(s) => Linked(s)') /\ items \subseteq items' /\ closed' = closed BY LinkedStays
<1>i. run'[w] = Idle => Ordered(w)' BY DEF Ordered, Idle
<1>j. Leave(w) => run'[w] = Idle BY LeaveType
<1>g. ASSUME NEW pc \in Label, Go(w, pc), ~At(w, "idle") PROVE run'[w].pc = pc /\ run'[w].ev = e
  BY <1>g, GoType
<1>a. ASSUME NEW pc \in Label \ {"idle"}, Again(w, pc), ~At(w, "idle")
      PROVE  run'[w] = Idle \/ (run'[w].pc = pc /\ run'[w].ev = e)
  BY <1>a, AgainType
<1>p. Platform(e) \in {"recover", "cancel", "judge"} BY DEF Platform
<1>o. ASSUME run'[w].ev = e, run[w].pc \notin {"idle", "complete", "due", "snapshot", "seal"},
             run'[w].pc \notin {"sync", "sync_write", "due", "snapshot"}
      PROVE  Ordered(w)'
  BY <1>o DEF Ordered
<1> HIDE DEF e
<1>1. ASSUME NEW f \in events, Take(w, f) PROVE Ordered(w)'
  <2> DEFINE first == CASE f.kind = "order" -> "complete"
                        [] f.kind = "plan" -> "find"
                        [] f.kind = "updated" /\ f.status = "unset" -> "exists"
                        [] OTHER -> "sync"
  <2>1. run'[w].pc = first /\ run'[w].ev = f BY <1>1 DEF Take, TypeOK, Idle
  <2>2. f.kind \in Kind BY DEF TypeOK, Event
  <2>3. f.kind = "order" => first = "complete" OBVIOUS
  <2>4. first \in {"complete", "find", "exists", "sync"} OBVIOUS
  <2>5. first = "sync" => Incoming(f) # "unset" BY <2>2 DEF Incoming, Kind, Checkout
  <2> QED BY <2>1, <2>3, <2>4, <2>5 DEF Ordered
<1>2. CASE Complete(w)
  <2> DEFINE open == ~Linked(e.sub) /\ e.sub \notin closed
  <2>1. e.sub \in Sub BY <1>2, EventType DEF Complete, e
  <2>2. CASE open
    <3>1. run'[w].pc = "snapshot" /\ run'[w].ev = e BY <1>2, <1>g, <2>2 DEF Complete, Label, e
    <3>2. order'[e.sub].status # "unset" BY <1>2, <2>1, <2>2 DEF Complete, e, TypeOK
    <3> QED BY <3>1, <3>2 DEF Ordered, Linked
  <2>3. CASE ~open
    <3>1. run'[w].pc = "due" /\ run'[w].ev = e BY <1>2, <1>g, <2>3 DEF Complete, Label, e
    <3>2. order' = order /\ closed' = closed BY <1>2, <2>3 DEF Complete, e
    <3> QED BY <2>3, <3>1, <3>2 DEF Ordered, Linked
  <2> QED BY <2>2, <2>3
<1>17. CASE SnapshotDue(w)
  <2>1. e.sub \in Sub BY <1>17, EventType DEF SnapshotDue, e
  <2>2. CASE Linked(e.sub) /\ e.sub \notin closed
    <3>1. run'[w].pc = "snapshot" /\ run'[w].ev = e BY <1>17, <1>g, <2>2 DEF SnapshotDue, Label, e
    <3>2. order' = order BY <1>17 DEF SnapshotDue, rows
    <3> QED BY <2>2, <3>1, <3>2 DEF Ordered, Linked
  <2>3. CASE ~(Linked(e.sub) /\ e.sub \notin closed)
    <3>1. run'[w].pc = "seal" /\ run'[w].ev = e BY <1>17, <1>g, <2>3 DEF SnapshotDue, Label, e
    <3>2. e.sub \in closed BY <1>17, <2>3 DEF SnapshotDue, Ordered, e
    <3> QED BY <1>l, <3>1, <3>2 DEF Ordered, Whole
  <2> QED BY <2>2, <2>3
<1>3. CASE Snapshot(w)
  <2>1. run'[w].pc = "seal" /\ run'[w].ev = e BY <1>3, <1>g DEF Snapshot, Label
  <2>2. e.sub \in Sub /\ Linked(e.sub) BY <1>3, EventType DEF Snapshot, Ordered, e
  <2>3. e.sub \in items' BY <1>3 DEF Snapshot, e
  <2> QED BY <1>l, <2>1, <2>2, <2>3 DEF Ordered, Whole
<1>4. CASE Find(w)
  <2>1. run'[w].pc \in {"insert", "upsert"} /\ run'[w].ev = e BY <1>4, <1>g DEF Find, Label
  <2> QED BY <1>4, <2>1, <1>o DEF Find
<1>5. CASE Insert(w)
  <2>1. run'[w].pc \in {"seal", "upsert"} /\ run'[w].ev = e BY <1>5, <1>g DEF Insert, Label
  <2> QED BY <1>5, <2>1, <1>o DEF Insert
<1>6. CASE Upsert(w)
  <2>1. run'[w].pc = "seal" /\ run'[w].ev = e BY <1>6, <1>g DEF Upsert, Label
  <2> QED BY <1>6, <2>1, <1>o DEF Upsert
<1>7. CASE Sync(w)
  <2>1. CASE Go(w, "exists") BY <1>7, <2>1, <1>g, <1>o DEF Sync, Label
  <2>2. CASE run' = [run EXCEPT ![w].pc = "sync_write", ![w].at = order[e.sub].at,
                                ![w].status = order[e.sub].status]
    <3>1. run'[w].pc = "sync_write" /\ run'[w].ev = run[w].ev BY <2>2 DEF TypeOK
    <3> QED BY <1>7, <3>1 DEF Sync, Ordered
  <2>3. CASE run' = [run EXCEPT ![w].pc = Platform(e), ![w].round = 1]
    <3>1. run'[w].pc = Platform(e) /\ run'[w].ev = e BY <2>3 DEF TypeOK, e
    <3> QED BY <1>7, <3>1, <1>p, <1>o DEF Sync
  <2> QED BY <1>7, <2>1, <2>2, <2>3 DEF Sync, e
<1>8. CASE SyncWrite(w)
  <2>1. CASE run' = [run EXCEPT ![w].pc = Platform(e), ![w].round = 1]
    <3>1. run'[w].pc = Platform(e) /\ run'[w].ev = e BY <2>1 DEF TypeOK, e
    <3> QED BY <1>8, <3>1, <1>p, <1>o DEF SyncWrite
  <2>2. CASE Again(w, "sync")
    <3>1. run'[w] = Idle \/ (run'[w].pc = "sync" /\ run'[w].ev = e)
      BY <1>8, <2>2, <1>a DEF SyncWrite, Label
    <3> QED BY <1>8, <3>1, <1>i DEF SyncWrite, Ordered, e
  <2> QED BY <1>8, <2>1, <2>2 DEF SyncWrite, e
<1>9. CASE Exists(w)
  <2>1. CASE run' = [run EXCEPT ![w].pc = Platform(e), ![w].round = 1]
    <3>1. run'[w].pc = Platform(e) /\ run'[w].ev = e BY <2>1 DEF TypeOK, e
    <3> QED BY <1>9, <3>1, <1>p, <1>o DEF Exists
  <2> QED BY <1>9, <2>1, <1>i, <1>j DEF Exists, e
<1>10. CASE Judge(w)
  <2>1. run'[w].pc \in {"project", "owner", "seal"} /\ run'[w].ev = e BY <1>10 DEF Judge, TypeOK, e
  <2> QED BY <1>10, <2>1, <1>o DEF Judge
<1>11. CASE Project(w)
  <2>1. \/ run'[w] = Idle
        \/ run'[w].pc \in {"owner", "seal", "judge"} /\ run'[w].ev = e
    BY <1>11, <1>a, <1>g DEF Project, Label
  <2> QED BY <1>11, <2>1, <1>i, <1>o DEF Project
<1>12. CASE Owner(w)
  <2>1. run'[w].pc \in {"totals", "seal"} /\ run'[w].ev = e BY <1>12, <1>g DEF Owner, Label
  <2> QED BY <1>12, <2>1, <1>o DEF Owner
<1>13. CASE Totals(w)
  <2>1. run'[w].pc = "seal" /\ run'[w].ev = e BY <1>13, <1>g DEF Totals, Label
  <2> QED BY <1>13, <2>1, <1>o DEF Totals
<1>14. CASE Recover(w)
  <2>1. run'[w].pc = "seal" /\ run'[w].ev = e BY <1>14, <1>g DEF Recover, Label
  <2> QED BY <1>14, <2>1, <1>o DEF Recover
<1>15. CASE CancelRow(w)
  <2>1. run'[w].pc = "seal" /\ run'[w].ev = e BY <1>15, <1>g DEF CancelRow, Label
  <2> QED BY <1>15, <2>1, <1>o DEF CancelRow
<1>16. CASE Seal(w) \/ Drop(w) BY <1>16, <1>i, <1>j DEF Seal, Drop
<1> QED BY <1>1, <1>2, <1>3, <1>4, <1>5, <1>6, <1>7, <1>8, <1>9, <1>10, <1>11, <1>12, <1>13,
          <1>14, <1>15, <1>16, <1>17 DEF Work

(* A worker's step leaves the other workers alone. *)
LEMMA OthersStay ==
  ASSUME TypeOK, NEW w \in Worker, Work(w), NEW v \in Worker, v # w
  PROVE  run'[v] = run[v]
BY DEF TypeOK, Work, Take, Complete, SnapshotDue, Snapshot, Find, Insert, Upsert, Sync, SyncWrite, Exists, Judge,
       Project, Owner, Totals, Recover, CancelRow, Seal, Drop, Go, Leave, Again

WholeInv == CheckoutIsWhole /\ \A w \in Worker : Ordered(w)

(* Every step keeps the checkouts whole. *)
LEMMA WholeStep == TypeOK /\ TypeOK' /\ WholeInv /\ [Next]_vars => WholeInv'
<1> SUFFICES ASSUME TypeOK, TypeOK', WholeInv, [Next]_vars PROVE WholeInv'
  OBVIOUS
<1>1. CASE UNCHANGED <<order, items, sealed, run>> /\ closed \subseteq closed'
  <2>1. CheckoutIsWhole' BY <1>1 DEF WholeInv, CheckoutIsWhole, Linked
  <2>2. \A w \in Worker : Ordered(w)' BY <1>1, OrderedStays DEF WholeInv, Linked
  <2> QED BY <2>1, <2>2 DEF WholeInv
<1>2. ASSUME NEW w \in Worker, Work(w) PROVE WholeInv'
  <2>1. (\A s \in Sub : Linked(s) => Linked(s)') /\ items \subseteq items' /\ closed' = closed
    BY <1>2, LinkedStays DEF WholeInv
  <2>2. \A v \in Worker : Ordered(v)'
    BY <1>2, <2>1, OrderedStep, OrderedStays, OthersStay DEF WholeInv
  <2>3. sealed' = sealed \/ (Seal(w) /\ sealed' = sealed \cup {run[w].ev})
    BY <1>2 DEF Work, Take, Complete, SnapshotDue, Snapshot, Find, Insert, Upsert, Sync, SyncWrite, Exists, Judge,
       Project, Owner, Totals, Recover, CancelRow, Seal, Drop
  <2>4. \A e \in sealed : e.sub \in Sub BY DEF TypeOK, Event
  <2>5. CASE sealed' = sealed BY <2>1, <2>2, <2>4, <2>5 DEF WholeInv, CheckoutIsWhole
  <2>6. CASE Seal(w) /\ sealed' = sealed \cup {run[w].ev}
    <3>1. run[w].ev.kind = "order" => Whole(run[w].ev.sub) BY <2>6 DEF Seal, WholeInv, Ordered
    <3>2. run[w].ev.sub \in Sub BY <2>6, EventType DEF Seal
    <3> QED BY <2>1, <2>2, <2>4, <2>6, <3>1, <3>2 DEF WholeInv, CheckoutIsWhole, Whole
  <2> QED BY <2>2, <2>3, <2>5, <2>6 DEF WholeInv
<1>3. ASSUME NEW s \in Sub, Bills(s) \/ Closes(s)
      PROVE  UNCHANGED <<order, items, sealed, run>> /\ closed \subseteq closed'
  BY <1>3 DEF Bills, Subscribes, Fails, Lapses, Pays, Changes, Cancels, Leftover, Sends, rows, Closes
<1> QED BY <1>1, <1>2, <1>3 DEF Next, Finished, vars

(* A checkout that is sealed left its order linked and its items recorded,  *)
(* wherever a delivery stopped between reconcile_checkout_session and       *)
(* snapshot_from_purchase, unless the order failed or was refunded.         *)
THEOREM CheckoutsAreWhole == Spec => []CheckoutIsWhole
<1>1. Init => WholeInv
  BY DEF Init, WholeInv, CheckoutIsWhole, Ordered, Idle
<1>2. WholeInv => CheckoutIsWhole BY DEF WholeInv
<1> QED BY <1>1, <1>2, WholeStep, TypeCorrect, PTL DEF Spec

-----------------------------------------------------------------------------
(* A PROJECTION ONLY GOES FORWARD *)

Ends(e) == e.kind = "deleted" \/ e.status = "canceled"

(* A checkout of a subscription is older than what ends it. *)
Before == \A c, d \in events : c.kind \in Checkout /\ Ends(d) /\ c.sub = d.sub => c.at < d.at

Stream == Before /\ \A e \in events : stripe[e.sub] # "none"

(* An event that is new is one of those sent. *)
LEMMA SendsNew ==
  ASSUME NEW s \in Sub, NEW t, NEW sent, Sends(s, t, sent), NEW n \in events' \ events
  PROVE  \E m \in sent : n.kind = m[1] /\ n.sub = s /\ n.status = m[2] /\ n.at = t
BY DEF Sends

(* What Stripe sends about a subscription: a checkout only when there was   *)
(* nothing, an end only after every checkout.                               *)
LEMMA BillsNew ==
  ASSUME TypeOK, NEW s \in Sub, Bills(s)
  PROVE  /\ events \subseteq events'
         /\ \A r \in Sub : stripe'[r] = IF r = s THEN stripe'[s] ELSE stripe[r]
         /\ stripe'[s] # "none"
         /\ \A n \in events' \ events :
              /\ n.sub = s
              /\ n.kind \in Checkout => stripe[s] = "none"
              /\ Ends(n) => stripe[s] # "none" /\ \A c \in events : c.kind \in Checkout => c.at < n.at
<1> USE DEF TypeOK, Checkout, Ends
<1>1. CASE Subscribes(s)
  <2>1. PICK kind \in Checkout : Sends(s, Now, {<<kind, "unset">>}) BY <1>1 DEF Subscribes
  <2>2. \A n \in events' \ events : n.kind = kind /\ n.sub = s /\ n.status = "unset"
    BY <2>1, SendsNew
  <2> QED BY <1>1, <2>1, <2>2 DEF Subscribes, Becomes, Sends
<1>2. CASE Fails(s)
  <2>2. \A n \in events' \ events : n.kind \in {"failed", "updated"} /\ n.sub = s /\ n.status \in {"unset", "past_due"}
    BY <1>2, SendsNew DEF Fails
  <2> QED BY <1>2, <2>2 DEF Fails, Becomes, Sends
<1>3. CASE Lapses(s)
  <2>2. \A n \in events' \ events : n.kind = "updated" /\ n.sub = s /\ n.status = "unpaid"
    BY <1>3, SendsNew DEF Lapses
  <2> QED BY <1>3, <2>2 DEF Lapses, Becomes, Sends
<1>4. CASE Pays(s)
  <2>2. \A n \in events' \ events : n.kind \in {"paid", "updated"} /\ n.sub = s /\ n.status \in {"unset", "active"}
    BY <1>4, SendsNew DEF Pays
  <2> QED BY <1>4, <2>2 DEF Pays, Becomes, Sends
<1>5. CASE Changes(s)
  <2>1. PICK status \in {stripe[s], "unset"} : Sends(s, Now, {<<"updated", status>>})
    BY <1>5 DEF Changes
  <2>2. \A n \in events' \ events : n.kind = "updated" /\ n.sub = s /\ n.status = status
    BY <2>1, SendsNew
  <2> QED BY <1>5, <2>1, <2>2 DEF Changes, Sends
<1>6. CASE Cancels(s)
  <2>1. PICK t \in {clock, Now}, status \in {stripe[s], "canceled"} :
          /\ \A e \in events : e.kind \in Checkout => e.at < t
          /\ Sends(s, t, {<<"updated", status>>, <<"deleted", "unset">>}) BY <1>6 DEF Cancels
  <2>2. \A n \in events' \ events : n.kind \in {"updated", "deleted"} /\ n.sub = s /\ n.at = t
    BY <2>1, SendsNew
  <2> QED BY <1>6, <2>1, <2>2 DEF Cancels, Becomes, Sends
<1>7. CASE Leftover(s)
  <2>1. PICK kind \in {"failed", "paid"} : Sends(s, Now, {<<kind, "unset">>}) BY <1>7 DEF Leftover
  <2>2. \A n \in events' \ events : n.kind = kind /\ n.sub = s /\ n.status = "unset"
    BY <2>1, SendsNew
  <2> QED BY <1>7, <2>1, <2>2 DEF Leftover, Sends
<1> QED BY <1>1, <1>2, <1>3, <1>4, <1>5, <1>6, <1>7 DEF Bills

(* Stripe's stream stays in order. *)
LEMMA StreamStep ==
  ASSUME TypeOK, TypeOK', Stream, NEW s \in Sub, Bills(s)
  PROVE  Stream'
<1>1. \A e \in events : e.sub \in Sub /\ stripe[e.sub] # "none" BY DEF TypeOK, Event, Stream
<1>2. \A e \in events' : stripe'[e.sub] # "none" BY <1>1, BillsNew
<1>3. ASSUME NEW c \in events', NEW d \in events', c.kind \in Checkout, Ends(d), c.sub = d.sub
      PROVE  c.at < d.at
  <2>1. CASE c \in events /\ d \in events BY <1>3, <2>1 DEF Stream, Before
  <2>2. CASE d \in events' \ events
    <3>1. c \in events BY <1>3, <2>2, BillsNew
    <3> QED BY <1>3, <2>2, <3>1, BillsNew
  <2>3. CASE d \in events /\ c \in events' \ events
    <3>1. stripe[s] = "none" /\ c.sub = s BY <1>3, <2>3, BillsNew
    <3> QED BY <1>1, <1>3, <2>3, <3>1
  <2> QED BY <2>1, <2>2, <2>3
<1> QED BY <1>2, <1>3 DEF Stream, Before

(* What a worker is about to write was judged against what it read. *)
Judged(w) ==
  LET e == run[w].ev
      incoming == IF Incoming(e) = "unset" THEN run[w].status ELSE Incoming(e)
  IN /\ At(w, "sync_write") => Allowed(run[w].status, run[w].at, Incoming(e), e.at)
     /\ At(w, "project") => Allowed(run[w].status, run[w].at, incoming, e.at)
     /\ run[w].pc \in {"find", "insert", "upsert"} => e.kind = "plan"
     /\ At(w, "cancel") => e.kind = "deleted"

(* A worker's own step keeps Judged. *)
LEMMA JudgedStep ==
  ASSUME TypeOK, TypeOK', NEW w \in Worker, Work(w), Judged(w)
  PROVE  Judged(w)'
<1> DEFINE e == run[w].ev
<1>o. run'[w].pc \notin {"sync_write", "project", "find", "insert", "upsert", "cancel"} => Judged(w)'
  BY DEF Judged
<1>j. Leave(w) => Judged(w)' BY <1>o, LeaveType DEF Idle
<1>g. ASSUME NEW pc \in Label, Go(w, pc), ~At(w, "idle") PROVE run'[w].pc = pc /\ run'[w].ev = e
  BY <1>g, GoType
<1>a. ASSUME NEW pc \in {"sync", "judge"}, Again(w, pc), ~At(w, "idle") PROVE Judged(w)'
  BY <1>a, <1>o, AgainType DEF Label, Idle
<1>p. ASSUME run' = [run EXCEPT ![w].pc = Platform(e), ![w].round = 1] PROVE Judged(w)'
  <2>1. run'[w].pc = Platform(e) /\ run'[w].ev = e BY <1>p DEF TypeOK
  <2>2. Platform(e) \in {"recover", "cancel", "judge"} /\ (Platform(e) = "cancel" => e.kind = "deleted")
    BY DEF Platform
  <2> QED BY <2>1, <2>2 DEF Judged
<1> HIDE DEF e
<1>1. ASSUME NEW f \in events, Take(w, f) PROVE Judged(w)'
  <2> DEFINE first == CASE f.kind = "order" -> "complete"
                        [] f.kind = "plan" -> "find"
                        [] f.kind = "updated" /\ f.status = "unset" -> "exists"
                        [] OTHER -> "sync"
  <2>1. run'[w].pc = first /\ run'[w].ev = f BY <1>1 DEF Take, TypeOK, Idle
  <2>2. first \in {"complete", "find", "exists", "sync"} /\ (first = "find" => f.kind = "plan") OBVIOUS
  <2> QED BY <2>1, <2>2 DEF Judged
<1>2. CASE Complete(w) \/ SnapshotDue(w) \/ Snapshot(w) \/ Owner(w) \/ Totals(w) \/ Recover(w) \/ CancelRow(w) \/ Upsert(w)
  <2>1. run'[w].pc \in {"due", "snapshot", "seal", "totals"}
    BY <1>2, <1>g DEF Complete, SnapshotDue, Snapshot, Owner, Totals, Recover, CancelRow, Upsert, Label
  <2> QED BY <2>1, <1>o
<1>3. CASE Find(w) \/ Insert(w)
  <2>1. run'[w].pc \in {"insert", "upsert", "seal"} /\ run'[w].ev = e BY <1>3, <1>g DEF Find, Insert, Label
  <2>2. e.kind = "plan" BY <1>3 DEF Find, Insert, Judged, e
  <2> QED BY <2>1, <2>2 DEF Judged
<1>4. CASE Sync(w)
  <2>1. CASE Go(w, "exists") BY <1>4, <2>1, <1>g, <1>o DEF Sync, Label
  <2>2. CASE /\ run' = [run EXCEPT ![w].pc = "sync_write", ![w].at = order[e.sub].at,
                                   ![w].status = order[e.sub].status]
             /\ Allowed(order[e.sub].status, order[e.sub].at, Incoming(e), e.at)
    <3>1. /\ run'[w].pc = "sync_write" /\ run'[w].ev = e
          /\ run'[w].at = order[e.sub].at /\ run'[w].status = order[e.sub].status
      BY <2>2 DEF TypeOK, e
    <3> QED BY <2>2, <3>1 DEF Judged
  <2> QED BY <1>4, <2>1, <2>2, <1>p DEF Sync, e
<1>5. CASE SyncWrite(w) BY <1>5, <1>p, <1>a DEF SyncWrite, e
<1>6. CASE Exists(w) BY <1>6, <1>p, <1>j DEF Exists, e
<1>7. CASE Judge(w)
  <2> DEFINE incoming == IF Incoming(e) = "unset" THEN row.status ELSE Incoming(e)
             pc == IF row.sub = e.sub /\ Allowed(row.status, row.at, incoming, e.at)
                   THEN "project" ELSE IF e.kind = "updated" THEN "owner" ELSE "seal"
  <2>1. run' = [run EXCEPT ![w].pc = pc, ![w].at = row.at, ![w].status = row.status]
    BY <1>7 DEF Judge, e
  <2>2. /\ run'[w].pc = pc /\ run'[w].ev = e /\ run'[w].at = row.at /\ run'[w].status = row.status
    <3> HIDE DEF pc
    <3> QED BY <2>1 DEF TypeOK, e
  <2>3. pc \in {"project", "owner", "seal"} OBVIOUS
  <2>4. pc = "project" => Allowed(row.status, row.at, incoming, e.at) OBVIOUS
  <2> QED BY <2>2, <2>3, <2>4 DEF Judged
<1>8. CASE Project(w)
  <2>1. Again(w, "judge") \/ run'[w].pc \in {"owner", "seal"} BY <1>8, <1>g DEF Project, Label
  <2> QED BY <1>8, <2>1, <1>a, <1>o DEF Project
<1>9. CASE Seal(w) \/ Drop(w) BY <1>9, <1>j DEF Seal, Drop
<1> QED BY <1>1, <1>2, <1>3, <1>4, <1>5, <1>6, <1>7, <1>8, <1>9 DEF Work

(* The user's row: its plan is no newer than its stamp, and a row that      *)
(* ended is newer than the checkout of its subscription.                    *)
RowInv ==
  /\ row.plan <= row.at
  /\ row.sub = None => ~Terminal(row.status)
  /\ row.sub # None => stripe[row.sub] # "none"
  /\ Terminal(row.status) => \A c \in events : c.kind \in Checkout /\ c.sub = row.sub => c.at < row.at

(* A worker moves the row forward. *)
LEMMA RowStep ==
  ASSUME TypeOK, TypeOK', Stream, RowInv, NEW w \in Worker, Work(w), Judged(w)
  PROVE  /\ RowInv'
         /\ row.sub # None => row.at <= row'.at /\ row.plan <= row'.plan
         /\ row'.sub = row.sub /\ Terminal(row.status) => Terminal(row'.status)
<1> DEFINE e == run[w].ev
<1>r. row.at \in Nat /\ row.plan \in Nat BY DEF TypeOK
<1>w. stripe' = stripe /\ events' = events
  BY DEF Work, Take, Complete, SnapshotDue, Snapshot, Find, Insert, Upsert, Sync, SyncWrite, Exists, Judge,
     Project, Owner, Totals, Recover, CancelRow, Seal, Drop, world
<1>u. CASE row' = row BY <1>u, <1>r, <1>w DEF RowInv
<1>e. ASSUME run[w].pc # "idle"
      PROVE  /\ e \in events /\ e.sub \in Sub /\ e.at \in Nat /\ e.kind \in Kind
             /\ stripe[e.sub] # "none" /\ e.sub # None
  BY <1>e, EventType, NoneAssumption DEF Stream
<1> HIDE DEF e
<1>1. CASE Insert(w)
  <2>1. CASE row.sub = None /\ row' = [sub |-> e.sub, status |-> "active", at |-> e.at, plan |-> e.at,
                                       totals |-> 0]
    BY <1>1, <2>1, <1>w, <1>e DEF Insert, RowInv, Terminal
  <2> QED BY <1>1, <2>1, <1>u DEF Insert, e
<1>2. CASE Upsert(w)
  <2>1. CASE row.at <= e.at /\ row' = [row EXCEPT !.sub = e.sub, !.status = "active", !.at = e.at, !.plan = e.at]
    <3>1. /\ row'.sub = e.sub /\ row'.status = "active" /\ row'.at = e.at /\ row'.plan = e.at
      BY <2>1 DEF TypeOK
    <3>2. e.kind \in Checkout BY <1>2 DEF Upsert, Judged, Checkout, e
    <3>3. ~(row.sub = e.sub /\ Terminal(row.status)) BY <1>2, <1>e, <1>r, <2>1, <3>2 DEF Upsert, RowInv
    <3> QED BY <1>2, <1>e, <1>r, <1>w, <2>1, <3>1, <3>3 DEF Upsert, RowInv, Terminal
  <2> QED BY <1>2, <2>1, <1>u DEF Upsert, e
<1>3. CASE Project(w)
  <2>1. CASE /\ row.sub = e.sub /\ row.at = run[w].at /\ row.status = run[w].status
             /\ row' = [row EXCEPT !.at = e.at,
                          !.status = IF Incoming(e) = "unset" THEN @ ELSE Incoming(e),
                          !.plan = IF e.kind = "updated" THEN e.at ELSE @]
    <3> DEFINE incoming == IF Incoming(e) = "unset" THEN row.status ELSE Incoming(e)
    <3>1. Allowed(row.status, row.at, incoming, e.at) BY <1>3, <2>1 DEF Project, Judged, e
    <3>2. /\ row'.sub = row.sub /\ row'.status = incoming /\ row'.at = e.at
          /\ row'.plan = IF e.kind = "updated" THEN e.at ELSE row.plan
      BY <2>1 DEF TypeOK
    <3>3. row.at <= e.at /\ (Terminal(row.status) => Terminal(incoming)) BY <3>1 DEF Allowed
    <3>4. ASSUME Terminal(incoming), NEW c \in events, c.kind \in Checkout, c.sub = row.sub
          PROVE  c.at < e.at
      <4>0. c.at \in Nat BY DEF TypeOK, Event
      <4>1. CASE Terminal(row.status) BY <4>0, <4>1, <1>r, <1>e, <1>3, <3>3, <3>4 DEF RowInv, Project
      <4>2. CASE ~Terminal(row.status)
        <5>1. Incoming(e) = "canceled" BY <3>4, <4>2 DEF Terminal
        <5>2. Ends(e) BY <5>1, <1>3, <1>e DEF Incoming, Ends, Project, Kind
        <5> QED BY <5>2, <2>1, <3>4, <1>3, <1>e DEF Stream, Before, Project
      <4> QED BY <4>1, <4>2
    <3> HIDE DEF incoming
    <3>5. row'.plan <= row'.at /\ row.plan <= row'.plan /\ row.at <= row'.at
      BY <1>3, <1>e, <1>r, <3>2, <3>3 DEF RowInv, Project
    <3>6. row.sub # None BY <1>3, <1>e, <2>1 DEF Project
    <3>7. Terminal(row'.status) => \A c \in events' : c.kind \in Checkout /\ c.sub = row'.sub => c.at < row'.at
      BY <1>w, <3>2, <3>4
    <3> QED BY <1>w, <3>2, <3>3, <3>5, <3>6, <3>7 DEF RowInv
  <2> QED BY <1>3, <2>1, <1>u DEF Project, e
<1>4. CASE Totals(w)
  <2>1. row'.sub = row.sub /\ row'.status = row.status /\ row'.at = row.at /\ row'.plan = row.plan
    BY <1>4 DEF Totals, TypeOK
  <2> QED BY <2>1, <1>w, <1>r DEF RowInv
<1>5. CASE Recover(w)
  <2>1. CASE /\ row.sub = e.sub /\ row.status = "past_due" /\ row.at <= e.at
             /\ row' = [row EXCEPT !.status = "active", !.at = e.at]
    <3>1. row'.sub = row.sub /\ row'.status = "active" /\ row'.at = e.at /\ row'.plan = row.plan
      BY <2>1 DEF TypeOK
    <3> QED BY <1>5, <2>1, <3>1, <1>w, <1>r, <1>e DEF RowInv, Terminal, Recover
  <2> QED BY <1>5, <2>1, <1>u DEF Recover, e
<1>6. CASE CancelRow(w)
  <2>1. CASE /\ row.sub = e.sub /\ row.at <= e.at
             /\ row' = [row EXCEPT !.status = "canceled", !.totals = 0, !.at = e.at]
    <3>1. row'.sub = row.sub /\ row'.status = "canceled" /\ row'.at = e.at /\ row'.plan = row.plan
      BY <2>1 DEF TypeOK
    <3>2. \A c \in events : c.kind \in Checkout /\ c.sub = row.sub => c.at < e.at
      BY <1>6, <2>1, <1>e DEF CancelRow, Judged, Stream, Before, Ends, e
    <3> QED BY <1>6, <2>1, <3>1, <3>2, <1>w, <1>r, <1>e DEF RowInv, Terminal, CancelRow
  <2> QED BY <1>6, <2>1, <1>u DEF CancelRow, e
<1>7. CASE ~(Insert(w) \/ Upsert(w) \/ Project(w) \/ Totals(w) \/ Recover(w) \/ CancelRow(w))
  <2>1. row' = row
    BY <1>7 DEF Work, Take, Complete, SnapshotDue, Snapshot, Find, Sync, SyncWrite, Exists, Judge, Owner, Seal, Drop, rows
  <2> QED BY <2>1, <1>u
<1> QED BY <1>1, <1>2, <1>3, <1>4, <1>5, <1>6, <1>7

(* A worker moves the orders forward. *)
LEMMA OrderStep ==
  ASSUME TypeOK, NEW w \in Worker, Work(w), Judged(w), NEW s \in Sub
  PROVE  order[s].at <= order'[s].at /\ (Terminal(order[s].status) => Terminal(order'[s].status))
<1> DEFINE e == run[w].ev
<1>o. order[s].at \in Nat BY DEF TypeOK
<1>1. CASE Complete(w)
  <2>1. run[w].ev.sub \in Sub BY <1>1, EventType DEF Complete
  <2>2. order'[s].at = order[s].at /\ (order'[s].status = order[s].status \/ order[s].status = "unset")
    BY <1>1, <2>1 DEF Complete, TypeOK, Linked
  <2> QED BY <1>o, <2>2 DEF Terminal
<1>2. CASE SyncWrite(w)
  <2>1. e.sub \in Sub /\ e.at \in Nat BY <1>2, EventType DEF SyncWrite
  <2>2. CASE /\ order[e.sub].at = run[w].at /\ order[e.sub].status = run[w].status
             /\ order' = [order EXCEPT ![e.sub].status = Incoming(e), ![e.sub].at = e.at]
    <3>1. Allowed(order[e.sub].status, order[e.sub].at, Incoming(e), e.at)
      BY <1>2, <2>2 DEF SyncWrite, Judged
    <3>2. order[e.sub].at <= e.at /\ (Terminal(order[e.sub].status) => Terminal(Incoming(e)))
      BY <3>1 DEF Allowed
    <3>3. CASE s = e.sub
      <4>1. order'[s].at = e.at /\ order'[s].status = Incoming(e) BY <2>1, <2>2, <3>3 DEF TypeOK
      <4> QED BY <3>2, <3>3, <4>1
    <3>4. CASE s # e.sub
      <4>1. order'[s] = order[s] BY <2>2, <3>4 DEF TypeOK
      <4> QED BY <1>o, <4>1
    <3> QED BY <3>3, <3>4
  <2>3. CASE order' = order BY <1>o, <2>3
  <2> QED BY <1>2, <2>2, <2>3 DEF SyncWrite
<1>3. CASE ~Complete(w) /\ ~SyncWrite(w)
  <2>1. order' = order
    BY <1>3 DEF Work, Take, SnapshotDue, Snapshot, Find, Insert, Upsert, Sync, Exists, Judge, Project, Owner,
       Totals, Recover, CancelRow, Seal, Drop, rows
  <2> QED BY <1>o, <2>1
<1> QED BY <1>1, <1>2, <1>3

ForwardInv == Stream /\ RowInv /\ \A w \in Worker : Judged(w)

(* Every step keeps the invariant and goes forward. *)
LEMMA ForwardStep == TypeOK /\ TypeOK' /\ ForwardInv /\ [Next]_vars => ForwardInv' /\ [Forward]_vars
<1> SUFFICES ASSUME TypeOK, TypeOK', ForwardInv, [Next]_vars PROVE ForwardInv' /\ [Forward]_vars
  OBVIOUS
<1> USE DEF ForwardInv
<1>n. (\A s \in Sub : order[s].at \in Nat) /\ row.at \in Nat /\ row.plan \in Nat BY DEF TypeOK
<1>1. CASE UNCHANGED <<order, row, run, world>>
  <2> USE <1>1 DEF world
  <2>1. Stream' BY DEF Stream, Before
  <2>2. RowInv' BY DEF RowInv
  <2>3. \A w \in Worker : Judged(w)' BY DEF Judged
  <2>4. Forward BY <1>n DEF Forward
  <2> QED BY <2>1, <2>2, <2>3, <2>4
<1>2. ASSUME NEW w \in Worker, Work(w) PROVE ForwardInv' /\ Forward
  <2>1. Judged(w)' BY <1>2, JudgedStep
  <2>2. ASSUME NEW v \in Worker, v # w PROVE Judged(v)'
    <3>1. run'[v] = run[v] BY <1>2, <2>2, OthersStay
    <3> QED BY <3>1 DEF Judged
  <2>3. stripe' = stripe /\ events' = events
    BY <1>2 DEF Work, Take, Complete, SnapshotDue, Snapshot, Find, Insert, Upsert, Sync, SyncWrite, Exists, Judge,
       Project, Owner, Totals, Recover, CancelRow, Seal, Drop, world
  <2>4. Stream' BY <2>3 DEF Stream, Before
  <2> QED BY <1>2, <2>1, <2>2, <2>4, RowStep, OrderStep DEF Forward
<1>3. ASSUME NEW s \in Sub, Bills(s) PROVE ForwardInv' /\ Forward
  <2>1. UNCHANGED <<order, items, row, run>>
    BY <1>3 DEF Bills, Subscribes, Fails, Lapses, Pays, Changes, Cancels, Leftover, Sends, rows
  <2>2. Stream' BY <1>3, StreamStep
  <2>3. \A w \in Worker : Judged(w)' BY <2>1 DEF Judged
  <2>4. RowInv'
    <3>1. row.sub # None => row.sub \in Sub /\ stripe[row.sub] # "none" BY DEF TypeOK, RowInv
    <3>2. row.sub # None => stripe'[row.sub] # "none" BY <1>3, <3>1, BillsNew
    <3>3. ASSUME Terminal(row.status), NEW c \in events', c.kind \in Checkout, c.sub = row.sub
          PROVE  c.at < row.at
      BY <1>3, <3>1, <3>3, BillsNew DEF RowInv
    <3> QED BY <2>1, <3>2, <3>3 DEF RowInv
  <2>5. Forward BY <1>n, <2>1 DEF Forward
  <2> QED BY <2>2, <2>3, <2>4, <2>5
<1>4. ASSUME NEW s \in Sub, Closes(s) PROVE UNCHANGED <<order, row, run, world>>
  BY <1>4 DEF Closes, world
<1> QED BY <1>1, <1>2, <1>3, <1>4 DEF Next, Finished, vars, world

(* No interleaving of deliveries takes an order or the user's row back in   *)
(* time, out of a terminal status or to an older plan: the checks of        *)
(* subscription_transition_allowed and the conditional writes that follow   *)
(* them are enough.                                                         *)
THEOREM ProjectionsGoForward == Spec => ForwardOnly
<1>1. Init => ForwardInv
  <2>1. Init => Stream BY DEF Init, Stream, Before
  <2>2. Init => RowInv BY DEF Init, RowInv, Terminal
  <2>3. Init => \A w \in Worker : Judged(w) BY DEF Init, Judged, Idle
  <2> QED BY <2>1, <2>2, <2>3 DEF ForwardInv
<1> QED BY <1>1, ForwardStep, TypeCorrect, PTL DEF Spec, ForwardOnly
=============================================================================

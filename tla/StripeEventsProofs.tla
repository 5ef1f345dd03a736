-------------------------- MODULE StripeEventsProofs --------------------------
(***************************************************************************)
(* LeaseExclusion, SealedOnce and NoSilentLoss of StripeEvents, for any    *)
(* deliveries, lease, budget and delays.  EventInv is inductive: a worker  *)
(* holds the row or has outlived its lease, because a takeover compares    *)
(* the owner it read, and that owner's lease had run out when it was read. *)
(***************************************************************************)
EXTENDS StripeEvents, TLAPS

USE DEF Outcomes, Outcome, Lands, Go

(* Both invariants hold of the empty table. *)
LEMMA EventsInit == Init => TypeOK /\ EventInv
<1>1. NoRow \in Row BY DEF NoRow, Row, Status
<1>2. Init => TypeOK
  <2> SUFFICES ASSUME Init PROVE TypeOK
    OBVIOUS
  <2>1. applied \in BOOLEAN /\ resets \in BOOLEAN BY Zenon DEF Init
  <2>2. /\ clock \in Nat /\ event \in Row /\ faults \in Nat
        /\ pc \in [Delivery -> Label] /\ replays \subseteq Delivery
        /\ now \in [Delivery -> Nat] /\ snap \in [Delivery -> Row]
        /\ attempts \in [Delivery -> Nat \ {0}] /\ claims \in Nat
    BY <1>1, SMT DEF Init, Label
  <2> QED BY <2>1, <2>2, Zenon DEF TypeOK
<1>3. Init => EventInv
  BY DEF Init, EventInv, LeaseStamped, BeganInPast, ClaimsFromSnapshot,
     ResetsFromSnapshot, WorkHoldsLease, ReadsARow, SealsAfterWork,
     ProcessedIsApplied, SealedOnce, NoSilentLoss, NoRow, Working, Acknowledged
<1> QED BY <1>2, <1>3

(* The rows the statements write are rows. *)
LEMMA RowsTyped ==
  ASSUME TypeOK, NEW d \in Delivery
  PROVE  /\ event.status \in Status /\ event.attempts \in Nat
         /\ event.owner \in Delivery \cup {NoOwner}
         /\ event.started \in Nat /\ event.retry \in Nat
         /\ \A n \in Nat : Held(d, n) \in Row
         /\ \A st \in Status, n, at \in Nat : Settled(st, n, at) \in Row
<1>1. now[d] \in Nat BY DEF TypeOK
<1>2. event \in Row BY DEF TypeOK
<1>3. \A n \in Nat : Held(d, n) \in Row
  BY <1>1 DEF Held, Row, Status
<1>4. \A st \in Status, n, at \in Nat : Settled(st, n, at) \in Row
  BY DEF Settled, Row
<1> QED BY <1>2, <1>3, <1>4 DEF Row

(* Every step keeps the types. *)
LEMMA EventsType == TypeOK /\ [Next]_vars => TypeOK'
<1> SUFFICES ASSUME TypeOK, [Next]_vars PROVE TypeOK'
  OBVIOUS
<1> USE DEF TypeOK
<1>1. CASE Tick BY <1>1 DEF Tick
<1>2. CASE UNCHANGED vars BY <1>2 DEF vars
<1>3. ASSUME NEW d \in Delivery, Step(d) PROVE TypeOK'
  <2>r. /\ event.status \in Status /\ event.attempts \in Nat
        /\ \A n \in Nat : Held(d, n) \in Row
        /\ \A st \in Status, n, at \in Nat : Settled(st, n, at) \in Row
    BY RowsTyped
  <2>1. CASE Deliver(d) BY <2>1 DEF Deliver, Label
  <2>2. CASE ReadRow(d)
    <3>1. Classify(d) \in Label BY DEF Classify, Label
    <3> QED BY <2>2, <2>r, <3>1 DEF ReadRow
  <2>3. CASE Work(d) BY <2>3 DEF Work, Label
  <2>4. CASE ReplayStart(d) BY <2>4 DEF ReplayStart, Label
  <2>5. CASE ReplayRead(d) BY <2>5 DEF ReplayRead, Label
  <2>6. CASE ReadFails(d) BY <2>6 DEF ReadFails, Label
  <2>7. ASSUME NEW o \in Outcomes, Insert(d, o) PROVE TypeOK'
    BY <2>7, <2>r DEF Insert, Label
  <2>8. ASSUME NEW o \in Outcomes, Claim(d, o) PROVE TypeOK'
    BY <2>8, <2>r DEF Claim, Label
  <2>9. ASSUME NEW o \in Outcomes, Exhaust(d, o) PROVE TypeOK'
    BY <2>9, <2>r DEF Exhaust, Label, Status
  <2>10. ASSUME NEW o \in Outcomes, MarkProcessed(d, o) PROVE TypeOK'
    BY <2>10, <2>r DEF MarkProcessed, Label, Status
  <2>11. ASSUME NEW o \in Outcomes, MarkFailed(d, o) PROVE TypeOK'
    <3>1. attempts[d] < MaxAttempts => clock + Delay[attempts[d]] \in Nat
      <4> SUFFICES ASSUME attempts[d] < MaxAttempts PROVE Delay[attempts[d]] \in Nat
        OBVIOUS
      <4>1. attempts[d] \in 1 .. MaxAttempts BY BudgetAssumption
      <4> QED BY <4>1, DelayAssumption
    <3>2. attempts[d] \in Nat /\ MaxAttempts \in Nat BY BudgetAssumption
    <3>3. event' \in Row BY <2>11, <2>r, <3>1, <3>2 DEF MarkFailed, Status
    <3>4. pc' \in [Delivery -> Label] /\ faults' \in Nat
      BY <2>11, SMT DEF MarkFailed, Label
    <3>5. UNCHANGED <<clock, replays, now, snap, attempts, applied, claims, resets>>
      BY <2>11 DEF MarkFailed
    <3> QED BY <3>3, <3>4, <3>5
  <2>12. ASSUME NEW o \in Outcomes, ReplayReset(d, o) PROVE TypeOK'
    <3>1. resets' \in BOOLEAN BY <2>12, Zenon DEF ReplayReset
    <3>2. /\ event' \in Row /\ claims' \in Nat /\ faults' \in Nat
          /\ pc' \in [Delivery -> Label]
      BY <2>12, <2>r, SMT DEF ReplayReset, Label, Status
    <3>3. UNCHANGED <<clock, replays, now, snap, attempts, applied>>
      BY <2>12 DEF ReplayReset
    <3> QED BY <3>1, <3>2, <3>3
  <2> QED BY <1>3, <2>1, <2>2, <2>3, <2>4, <2>5, <2>6, <2>7, <2>8, <2>9,
             <2>10, <2>11, <2>12 DEF Step
<1> QED BY <1>1, <1>2, <1>3 DEF Next

(* The fields of the rows the statements write. *)
LEMMA RowFields ==
  ASSUME NEW d, NEW n, NEW st, NEW at
  PROVE  /\ Held(d, n).status = "processing" /\ Held(d, n).owner = d
         /\ Held(d, n).started = now[d]
         /\ Settled(st, n, at).status = st
BY DEF Held, Settled

(* Time is what the lease is measured by. *)
LEMMA TickKeeps == TypeOK /\ EventInv /\ Tick => EventInv'
<1> SUFFICES ASSUME TypeOK, EventInv, Tick PROVE EventInv'
  OBVIOUS
<1> USE LeaseAssumption DEF TypeOK, Tick, EventInv
<1>1. LeaseStamped' BY DEF LeaseStamped, Began
<1>2. BeganInPast' BY DEF BeganInPast
<1>3. ClaimsFromSnapshot' BY DEF ClaimsFromSnapshot, Began
<1>4. WorkHoldsLease' BY DEF WorkHoldsLease, OwnsLease
<1>5. /\ ResetsFromSnapshot' /\ ReadsARow' /\ SealsAfterWork' /\ ProcessedIsApplied'
      /\ SealedOnce' /\ NoSilentLoss'
  BY DEF ResetsFromSnapshot, ReadsARow, SealsAfterWork, ProcessedIsApplied, SealedOnce, NoSilentLoss
<1> QED BY <1>1, <1>2, <1>3, <1>4, <1>5

(* A delivery's own steps, up to what it does to the row. *)
LEMMA LocalKeeps ==
  ASSUME TypeOK, EventInv, NEW d \in Delivery,
         Deliver(d) \/ ReadRow(d) \/ Work(d) \/ ReplayStart(d) \/ ReplayRead(d)
           \/ ReadFails(d)
  PROVE  EventInv'
<1> USE LeaseAssumption DEF TypeOK, EventInv
<1> DEFINE Local == \/ Deliver(d) \/ ReadRow(d) \/ Work(d) \/ ReplayStart(d)
                    \/ ReplayRead(d) \/ ReadFails(d)
<1>0. event' = event /\ clock' = clock /\ resets' = resets
  BY DEF Deliver, ReadRow, Work, ReplayStart, ReplayRead, ReadFails
<1>a. applied => applied'
  BY Zenon DEF Deliver, ReadRow, Work, ReplayStart, ReplayRead, ReadFails
<1>b. \A e \in Delivery : e # d => /\ pc'[e] = pc[e] /\ now'[e] = now[e]
                                  /\ snap'[e] = snap[e]
  BY DEF Deliver, ReadRow, Work, ReplayStart, ReplayRead, ReadFails
<1>c. pc'[d] = Classify(d) \/ pc'[d] \in {"insert", "seal", "release", "replay_read",
                                         "replay_reset", "refused", "retry"}
  BY DEF Deliver, ReadRow, Work, ReplayStart, ReplayRead, ReadFails
<1>d. Began(d) => pc'[d] \notin Early /\ now'[d] = now[d]
  BY <1>c DEF Deliver, ReadRow, Work, ReplayStart, ReplayRead, ReadFails, Began, Early, Classify
<1>1. LeaseStamped'
  BY <1>0, <1>b, <1>d DEF LeaseStamped, Began
<1>2. BeganInPast'
  BY <1>0 DEF BeganInPast, Deliver, ReadRow, Work, ReplayStart, ReplayRead, ReadFails
<1>3. ClaimsFromSnapshot'
  <2> SUFFICES ASSUME NEW e \in Delivery, pc'[e] = "claim"
               PROVE  /\ snap'[e].status \in {"pending", "processing", "failed"}
                      /\ snap'[e].status = "processing" =>
                           /\ snap'[e].owner \in Delivery /\ pc'[snap'[e].owner] \notin Early
                           /\ now'[e] - now'[snap'[e].owner] >= Lease
    BY DEF ClaimsFromSnapshot, Began
  <2>1. CASE e # d
    <3>1. pc[e] = "claim" /\ snap'[e] = snap[e] /\ now'[e] = now[e] BY <2>1, <1>b
    <3>2. \A f \in Delivery : Began(f) => pc'[f] \notin Early /\ now'[f] = now[f]
      BY <1>b, <1>d DEF Began
    <3> QED BY <3>1, <3>2 DEF ClaimsFromSnapshot
  <2>2. CASE e = d
    <3>1. ReadRow(d) /\ Classify(d) = "claim"
      BY <2>2 DEF Deliver, ReadRow, Work, ReplayStart, ReplayRead, ReadFails
    <3>2. snap'[d] = event /\ now'[d] = now[d] /\ now' = now BY <3>1 DEF ReadRow
    <3>3. /\ event.status \in {"none", "pending", "processing", "failed"}
          /\ event.status = "processing" => ~(now[d] - event.started < Lease)
      BY <3>1, RowsTyped DEF Classify, LeaseIsLive, Status
    <3>4. event.status # "none" BY <3>1 DEF ReadRow, ReadsARow
    <3>5. event.status = "processing" =>
            /\ event.owner \in Delivery /\ pc'[event.owner] \notin Early
            /\ now[d] - now[event.owner] >= Lease
      BY <3>3, <1>d, <1>b DEF LeaseStamped, Began
    <3> QED BY <2>2, <3>2, <3>3, <3>4, <3>5
  <2> QED BY <2>1, <2>2
<1>4. ResetsFromSnapshot'
  BY <1>b DEF ResetsFromSnapshot, Deliver, ReadRow, Work, ReplayStart, ReplayRead, ReadFails, Classify
<1>5. WorkHoldsLease'
  BY <1>0, <1>b DEF WorkHoldsLease, OwnsLease, Working, Deliver, ReadRow, Work,
     ReplayStart, ReplayRead, ReadFails, Classify
<1>6. SealsAfterWork' /\ ProcessedIsApplied'
  BY <1>0, <1>a, <1>b DEF SealsAfterWork, ProcessedIsApplied, Deliver, ReadRow, Work,
     ReplayStart, ReplayRead, ReadFails, Classify
<1>7. SealedOnce'
  BY <1>0, <1>b, <1>c DEF SealedOnce, Classify
<1>8. NoSilentLoss'
  BY <1>0, <1>a, <1>b, <1>c DEF NoSilentLoss, ProcessedIsApplied, Acknowledged, Classify
<1>9. ReadsARow'
  BY <1>0, <1>b, <1>c DEF ReadsARow, Classify
<1> QED BY <1>1, <1>2, <1>3, <1>4, <1>5, <1>6, <1>7, <1>8, <1>9

(* What every statement on the row leaves as it was: time, what the        *)
(* deliveries have read, and where the others are.                         *)
LEMMA FrameKeeps ==
  ASSUME TypeOK, EventInv, NEW d \in Delivery, NEW l, pc' = [pc EXCEPT ![d] = l],
         UNCHANGED <<clock, now, snap, applied>>,
         pc[d] \notin Early => l \notin Early,
         l \notin {"claim", "replay_reset", "seal"}
  PROVE  /\ BeganInPast' /\ ClaimsFromSnapshot' /\ ResetsFromSnapshot' /\ SealsAfterWork'
         /\ \A e \in Delivery : e # d => pc'[e] = pc[e]
         /\ pc'[d] = l
         /\ \A e \in Delivery : Began(e) => pc'[e] \notin Early
<1> USE DEF TypeOK, EventInv
<1>1. (\A e \in Delivery : e # d => pc'[e] = pc[e]) /\ pc'[d] = l OBVIOUS
<1>2. \A e \in Delivery : Began(e) => pc'[e] \notin Early BY <1>1 DEF Began
<1>3. BeganInPast' BY DEF BeganInPast
<1>4. ClaimsFromSnapshot'
  BY <1>1, <1>2 DEF ClaimsFromSnapshot, Began
<1>5. ResetsFromSnapshot' /\ SealsAfterWork'
  BY <1>1 DEF ResetsFromSnapshot, SealsAfterWork
<1> QED BY <1>1, <1>2, <1>3, <1>4, <1>5

(* The row is claimed: by the first insert, or from the state it was read in. *)
LEMMA ClaimKeeps ==
  ASSUME TypeOK, EventInv, NEW d \in Delivery, NEW o \in Outcomes,
         Insert(d, o) \/ Claim(d, o)
  PROVE  EventInv'
<1> USE LeaseAssumption DEF TypeOK, EventInv
<1> DEFINE l == IF Insert(d, o)
                THEN IF o # "ok" THEN "retry"
                     ELSE IF event.status = "none" THEN "work" ELSE "read"
                ELSE IF o = "ok" /\ Unchanged(d) THEN "work" ELSE "retry"
<1>1. /\ pc' = [pc EXCEPT ![d] = l] /\ l \in {"work", "read", "retry"}
      /\ pc[d] \in {"insert", "claim"}
  BY DEF Insert, Claim
<1>2. UNCHANGED <<clock, now, snap, applied, resets>>
  BY DEF Insert, Claim
<1>3. /\ BeganInPast' /\ ClaimsFromSnapshot' /\ ResetsFromSnapshot' /\ SealsAfterWork'
      /\ \A e \in Delivery : e # d => pc'[e] = pc[e]
      /\ pc'[d] = l
      /\ \A e \in Delivery : Began(e) => pc'[e] \notin Early
  <2> HIDE DEF l
  <2> QED BY <1>1, <1>2, FrameKeeps DEF Early
<1>4. \/ event' = event
      \/ /\ event'.status = "processing" /\ event'.owner = d /\ event'.started = now[d]
         /\ event.status = "none" \/ (pc[d] = "claim" /\ Unchanged(d))
  BY DEF Insert, Claim, Held
<1>5. l = "work" => /\ event'.status = "processing" /\ event'.owner = d
                    /\ event'.started = now[d]
  BY DEF Insert, Claim, Held
<1>6. l = "read" => event' = event /\ event.status # "none"
  BY DEF Insert, Claim
<1>7. event.status = "none" \/ (pc[d] = "claim" /\ Unchanged(d)) =>
        event.status \in {"none", "pending", "processing", "failed"}
  BY DEF ClaimsFromSnapshot, Unchanged
<1> HIDE DEF l
<1>8. LeaseStamped'
  <2>1. pc'[d] \notin Early BY <1>1, <1>3 DEF Early
  <2> QED BY <1>2, <1>3, <1>4, <2>1 DEF LeaseStamped, Began
<1>9. WorkHoldsLease'
  <2> SUFFICES ASSUME NEW e \in Delivery, pc'[e] \in Working
               PROVE  OwnsLease(e)' \/ clock - now[e] >= Lease
    BY <1>2 DEF WorkHoldsLease
  <2>1. CASE e = d BY <2>1, <1>1, <1>3, <1>5 DEF OwnsLease, Working
  <2>2. CASE e # d
    <3>1. OwnsLease(e) \/ clock - now[e] >= Lease
      BY <2>2, <1>3 DEF WorkHoldsLease
    <3>2. CASE event' = event BY <3>1, <3>2 DEF OwnsLease
    <3>3. CASE OwnsLease(e) /\ pc[d] = "claim" /\ Unchanged(d)
      <4>1. snap[d].status = "processing" /\ snap[d].owner = e
        BY <3>3 DEF OwnsLease, Unchanged
      <4>2. now[d] - now[e] >= Lease BY <4>1, <3>3 DEF ClaimsFromSnapshot
      <4>3. now[d] <= clock BY DEF BeganInPast
      <4>4. clock \in Nat /\ now[d] \in Nat /\ now[e] \in Nat OBVIOUS
      <4> QED BY <4>2, <4>3, <4>4
    <3> QED BY <3>1, <3>2, <3>3, <1>4 DEF OwnsLease
  <2> QED BY <2>1, <2>2
<1>10. ReadsARow'
  BY <1>1, <1>3, <1>4, <1>6 DEF ReadsARow
<1>11. ProcessedIsApplied'
  BY <1>2, <1>4 DEF ProcessedIsApplied
<1>12. SealedOnce'
  BY <1>1, <1>3, <1>4, <1>7 DEF SealedOnce
<1>13. NoSilentLoss'
  BY <1>1, <1>2, <1>3, <1>4, <1>7 DEF NoSilentLoss, Acknowledged
<1> QED BY <1>3, <1>8, <1>9, <1>10, <1>11, <1>12, <1>13

(* The row is settled: dead-lettered, sealed, released or reset.  None of  *)
(* these writes can find the row of a worker whose lease is live, but its  *)
(* own.                                                                    *)
LEMMA SettleKeeps ==
  ASSUME TypeOK, EventInv, NEW d \in Delivery, NEW o \in Outcomes,
         Exhaust(d, o) \/ MarkProcessed(d, o) \/ MarkFailed(d, o) \/ ReplayReset(d, o)
  PROVE  EventInv'
<1> USE LeaseAssumption DEF TypeOK, EventInv
<1>1. PICK l \in {"dead_letter", "received", "retry", "replayed", "refused"} :
        /\ pc' = [pc EXCEPT ![d] = l]
        /\ l = "dead_letter" => Exhaust(d, o) /\ o = "ok" /\ Unchanged(d)
        /\ l = "received" => MarkProcessed(d, o) /\ o = "ok" /\ OwnsLease(d)
        /\ l = "replayed" => ReplayReset(d, o)
        /\ l = "refused" => ReplayReset(d, o)
  BY DEF Exhaust, MarkProcessed, MarkFailed, ReplayReset
<1>2. /\ UNCHANGED <<clock, now, snap, applied>>
      /\ resets => resets'
  BY Zenon DEF Exhaust, MarkProcessed, MarkFailed, ReplayReset
<1>3. pc[d] \in {"claim", "seal", "release", "replay_reset"} /\ (pc[d] \notin Early => l # "replayed")
  BY <1>1 DEF Exhaust, MarkProcessed, MarkFailed, ReplayReset, Early
<1>4. /\ BeganInPast' /\ ClaimsFromSnapshot' /\ ResetsFromSnapshot' /\ SealsAfterWork'
      /\ \A e \in Delivery : e # d => pc'[e] = pc[e]
      /\ pc'[d] = l
      /\ \A e \in Delivery : Began(e) => pc'[e] \notin Early
  BY <1>1, <1>2, <1>3, FrameKeeps DEF Early
<1>5. \/ event' = event /\ l \notin {"dead_letter", "received"}
      \/ event'.status = "dead_letter" /\ pc[d] = "claim" /\ Unchanged(d) /\ l # "received"
      \/ event'.status = "processed" /\ pc[d] = "seal" /\ OwnsLease(d)
      \/ event'.status \in {"failed", "dead_letter"} /\ OwnsLease(d) /\ l = "retry"
      \/ /\ event'.status = "pending" /\ pc[d] = "replay_reset" /\ resets'
         /\ event.status = snap[d].status /\ l \in {"replayed", "refused"}
  <2>1. CASE Exhaust(d, o) BY <1>1, <2>1 DEF Exhaust, Settled
  <2>2. CASE MarkProcessed(d, o) BY <1>1, <2>2 DEF MarkProcessed, Settled
  <2>3. CASE MarkFailed(d, o) BY <1>1, <2>3 DEF MarkFailed, Settled
  <2>4. CASE ReplayReset(d, o)
    <3>1. l \in {"replayed", "refused"} BY <1>1, <2>4 DEF ReplayReset
    <3>2. \/ event' = event
          \/ resets' /\ event' = Settled("pending", 0, 0) /\ event.status = snap[d].status
      BY <2>4, Zenon DEF ReplayReset
    <3>3. pc[d] = "replay_reset" BY <2>4 DEF ReplayReset
    <3> QED BY <3>1, <3>2, <3>3, RowFields
  <2> QED BY <2>1, <2>2, <2>3, <2>4
<1>6. LeaseStamped'
  BY <1>2, <1>4, <1>5 DEF LeaseStamped, Began
<1>7. WorkHoldsLease'
  <2> SUFFICES ASSUME NEW e \in Delivery, pc'[e] \in Working
               PROVE  OwnsLease(e)' \/ clock - now[e] >= Lease
    BY <1>2 DEF WorkHoldsLease
  <2>1. e # d BY <1>1, <1>4 DEF Working
  <2>2. OwnsLease(e) \/ clock - now[e] >= Lease
    BY <2>1, <1>4 DEF WorkHoldsLease
  <2>3. CASE event' = event BY <2>2, <2>3 DEF OwnsLease
  <2>4. CASE OwnsLease(e) /\ pc[d] = "claim" /\ Unchanged(d)
    <3>1. snap[d].status = "processing" /\ snap[d].owner = e
      BY <2>4 DEF OwnsLease, Unchanged
    <3>2. now[d] - now[e] >= Lease BY <3>1, <2>4 DEF ClaimsFromSnapshot
    <3>3. now[d] <= clock BY DEF BeganInPast
    <3>4. clock \in Nat /\ now[d] \in Nat /\ now[e] \in Nat OBVIOUS
    <3> QED BY <3>2, <3>3, <3>4
  <2>5. ~(OwnsLease(e) /\ OwnsLease(d)) BY <2>1 DEF OwnsLease
  <2>6. ~(OwnsLease(e) /\ pc[d] = "replay_reset" /\ event.status = snap[d].status)
    BY DEF OwnsLease, ResetsFromSnapshot
  <2> QED BY <2>2, <2>3, <2>4, <2>5, <2>6, <1>5
<1>8. ReadsARow'
  BY <1>1, <1>4, <1>5 DEF ReadsARow
<1>9. ProcessedIsApplied'
  BY <1>2, <1>5 DEF ProcessedIsApplied, SealsAfterWork
<1>10. SealedOnce'
  BY <1>1, <1>4, <1>5 DEF SealedOnce, OwnsLease, Unchanged, ClaimsFromSnapshot, ResetsFromSnapshot
<1>11. NoSilentLoss'
  <2>1. applied => applied' BY <1>2
  <2>2. SUFFICES ASSUME NEW e \in Delivery, pc'[e] \in Acknowledged
                 PROVE  applied' \/ event'.status = "dead_letter" \/ resets'
    BY DEF NoSilentLoss
  <2>3. CASE e = d
    BY <2>3, <2>2, <2>1, <1>1, <1>4, <1>5 DEF Acknowledged, SealsAfterWork
  <2>4. CASE e # d
    <3>1. applied \/ event.status = "dead_letter" \/ resets
      BY <2>2, <2>4, <1>4 DEF NoSilentLoss
    <3> QED BY <3>1, <2>1, <1>2, <1>5 DEF OwnsLease, Unchanged, ClaimsFromSnapshot, SealsAfterWork
  <2> QED BY <2>3, <2>4
<1> QED BY <1>4, <1>6, <1>7, <1>8, <1>9, <1>10, <1>11

(* Every step keeps the invariant. *)
LEMMA EventsNext == TypeOK /\ EventInv /\ [Next]_vars => EventInv'
<1> SUFFICES ASSUME TypeOK, EventInv, [Next]_vars PROVE EventInv'
  OBVIOUS
<1>1. CASE Tick BY <1>1, TickKeeps
<1>2. CASE UNCHANGED vars
  BY <1>2 DEF vars, EventInv, LeaseStamped, BeganInPast, ClaimsFromSnapshot,
     ResetsFromSnapshot, WorkHoldsLease, ReadsARow, SealsAfterWork,
     ProcessedIsApplied, SealedOnce, NoSilentLoss, Began, OwnsLease
<1>3. ASSUME NEW d \in Delivery, Step(d) PROVE EventInv'
  BY <1>3, LocalKeeps, ClaimKeeps, SettleKeeps DEF Step
<1> QED BY <1>1, <1>2, <1>3 DEF Next

(* The types and the inductive invariant hold in every state, whatever     *)
(* races, stalls and faults the deliveries meet.                           *)
THEOREM EventsInvariant == Spec => [](TypeOK /\ EventInv)
<1>1. Init => TypeOK /\ EventInv BY EventsInit
<1>2. TypeOK /\ EventInv /\ [Next]_vars => TypeOK' /\ EventInv'
  BY EventsType, EventsNext
<1> QED BY <1>1, <1>2, PTL DEF Spec

(* The event's row, and what each delivery read of it, keep their types:   *)
(* mark_event_failed never dates a retry before the epoch.                 *)
THEOREM TypeCorrect == Spec => []TypeOK
BY EventsInvariant, PTL

(* An event is in the hands of two deliveries at once only when one has    *)
(* outlived its lease.                                                     *)
THEOREM LeaseIsExclusive == Spec => []LeaseExclusion
<1>1. TypeOK /\ EventInv => LeaseExclusion
  <2> SUFFICES ASSUME EventInv, NEW a \in Delivery, NEW b \in Delivery, a # b,
                      pc[a] \in Working, pc[b] \in Working
               PROVE  clock - now[a] >= Lease \/ clock - now[b] >= Lease
    BY DEF LeaseExclusion
  <2> QED BY DEF EventInv, WorkHoldsLease, OwnsLease
<1> QED BY <1>1, EventsInvariant, PTL

(* One delivery at most is answered as the one that processed the event,   *)
(* and the row stays processed from then on.                               *)
THEOREM SealsOnce == Spec => []SealedOnce
<1>1. TypeOK /\ EventInv => SealedOnce BY DEF EventInv
<1> QED BY <1>1, EventsInvariant, PTL

(* An acknowledged event that no operator has reset was applied in full or *)
(* is dead-lettered.                                                       *)
THEOREM NothingLostSilently == Spec => []NoSilentLoss
<1>1. TypeOK /\ EventInv => NoSilentLoss BY DEF EventInv
<1> QED BY <1>1, EventsInvariant, PTL
=============================================================================

---------------------------- MODULE SandboxProofs ----------------------------
(***************************************************************************)
(* The callers of the dev sandbox, for any requests, sites, windows and    *)
(* bounds: types, nobody is stranded in the queue, and the queue, the      *)
(* journal, the crashes and the boots implement Publication.               *)
(***************************************************************************)
EXTENDS Sandbox, TLAPS, FiniteSetTheorems

-----------------------------------------------------------------------------
(* THE INVARIANT *)

(* Who drives, who runs and who waits agree. *)
QueueInv ==
  /\ queue.driver = Nobody => queue = NoQueue
  /\ queue.driver # Nobody => act.by = queue.driver /\ client[queue.driver].pc = "driving"
  /\ act.by \in {queue.driver, Boot}
  /\ act.by = Nobody <=> act.pc = "idle"
  /\ act.by \notin Client => act.waiters = {}
  /\ \A c \in Client : client[c].pc = "asking" => client[c].kind # "none"
  /\ act.by = Boot => ~up /\ act.pc \notin {"stage", "adopt", "answer"} /\ act.kind = "boot"
  /\ act.by # Boot => act.pc \notin {"reboot", "bootup"} /\ act.kind # "boot"
  /\ ~up => /\ queue.driver = Nobody
            /\ \A c \in Client : client[c].pc \notin {"asking", "waiting", "driving"}
  /\ \A c \in Client :
       /\ client[c].pc = "driving" => c = queue.driver
       /\ c \in act.waiters => client[c].pc = "waiting" /\ c \notin queue.waiters
       /\ c \in queue.waiters => client[c].pc \in {"waiting", "gone"}
       /\ client[c].pc = "waiting" => c \in queue.waiters \cup act.waiters

(* The activation works on a generation it has staged. *)
Working == {"journal", "validate", "build", "publish", "restore", "abandon", "close", "activate",
            "supersede", "commit"}

(* Everybody the activation will answer asked before its generation was     *)
(* composed.                                                                *)
Fresh == \A c \in Client : c \in act.waiters \/ (c = queue.driver /\ queue.mine = "none")
                           => client[c].seen < act.gen

PromiseInv ==
  /\ \A c \in Client : /\ client[c].seen <= minted
                       /\ client[c].pc \in {"new", "asking"} => client[c].seen = 0
  /\ journal.desired # None => lived < journal.desired /\ journal.desired <= minted
  /\ act.pc \in Working => lived < act.gen /\ act.gen <= minted /\ Fresh
  /\ act.pc \in {"reread", "adopt"} \/ (act.pc = "answer" /\ act.told = "live")
       => act.gen <= lived /\ Fresh
  /\ queue.mine = "live" => client[queue.driver].seen < lived

(* Callers that have asked; one generation each at most. *)
Askers == {c \in Client : client[c].seen > 0}

CountInv ==
  minted - 1 + (IF act.pc = "stage" THEN 1 ELSE 0) + (IF queue.waiters # {} THEN 1 ELSE 0)
    <= Cardinality(Askers)

Inv == TypeOK /\ QueueInv /\ PromiseInv /\ CountInv

-----------------------------------------------------------------------------
(* WHAT THE OPERATORS RETURN *)

LEMMA GenType == Cardinality(Client) \in Nat /\ 1 \in Gen /\ Gen \subseteq Nat /\ None \notin Gen
  BY ProcessAssumption, FS_CardinalityType DEF Gen, None

LEMMA GenNat == ASSUME NEW g \in {None} \cup Gen PROVE g \in Nat
  BY GenType DEF Gen, None

LEMMA IdleType == Idle \in Act /\ NoQueue \in Queue /\ Empty \in Site
  BY DEF Idle, Act, NoQueue, Queue, Empty, Site

LEMMA Counters ==
  ASSUME Inv PROVE owed + 1 \in Nat /\ crashes + 1 \in Nat /\ faults + 1 \in Nat /\ faults \in Nat
<1>1. owed \in Nat /\ crashes \in Nat /\ faults \in Nat
  BY DEF Inv, TypeOK
<1> QED
  BY <1>1

(* Two steps of an activation are about the same thing. *)
Same(a, b) ==
  /\ b.by = a.by /\ b.kind = a.kind /\ b.gen = a.gen /\ b.base = a.base /\ b.site = a.site
  /\ b.blocks = a.blocks /\ b.old = a.old /\ b.oldBlocks = a.oldBlocks /\ b.waiters = a.waiters

LEMMA OnwardIs ==
  ASSUME NEW a \in Act, a.pc \in {"publish", "restore", "reboot"}
  PROVE  /\ Onward(a) \in Act /\ Same(a, Onward(a))
         /\ Onward(a).todo = a.todo /\ Onward(a).rebuilt = a.rebuilt /\ Onward(a).told = a.told
         /\ a.todo # {} => Onward(a).pc = a.pc
         /\ a.todo = {} => /\ a.pc = "publish" => Onward(a).pc = "activate"
                           /\ a.pc = "restore" => Onward(a).pc = "abandon"
                           /\ a.pc = "reboot" => Onward(a).pc = "bootup"
<1>1. CASE a.todo # {}
  BY <1>1 DEF Onward, Same
<1>2. CASE a.todo = {} /\ a.pc = "publish"
  BY <1>2 DEF Onward, Same, Act
<1>3. CASE a.todo = {} /\ a.pc = "restore"
  BY <1>3 DEF Onward, Same, Act
<1>4. CASE a.todo = {} /\ a.pc = "reboot"
  BY <1>4 DEF Onward, Same, Act
<1> QED
  BY <1>1, <1>2, <1>3, <1>4

LEMMA ReturnIs ==
  ASSUME NEW a \in Act, NEW told \in {"live", "refused"}
  PROVE  /\ Return(a, told) \in Act /\ Same(a, Return(a, told))
         /\ a.by # Boot => Return(a, told).pc = "answer" /\ Return(a, told).told = told
         /\ a.by = Boot => Return(a, told).pc \in {"reboot", "bootup"}
<1>1. CASE a.by # Boot
  BY <1>1 DEF Return, Same, Act
<1>2. CASE a.by = Boot /\ told = "refused" /\ a.base # None
  <2> DEFINE b == [a EXCEPT !.pc = "reboot", !.todo = Changed(a.site, a.old)]
  <2>1. Changed(a.site, a.old) \subseteq Path
    BY DEF Changed
  <2>2. b \in Act /\ b.pc = "reboot" /\ Same(a, b)
    BY <2>1 DEF Act, Same
  <2>3. Return(a, told) = Onward(b)
    BY <1>2 DEF Return
  <2> HIDE DEF b
  <2> QED
    BY <1>2, <2>2, <2>3, OnwardIs DEF Same
<1>3. CASE a.by = Boot /\ ~(told = "refused" /\ a.base # None)
  BY <1>3 DEF Return, Same, Act
<1> QED
  BY <1>1, <1>2, <1>3

LEMMA PublishingIs ==
  ASSUME NEW a \in Act
  PROVE  /\ Publishing(a) \in Act /\ Same(a, Publishing(a)) /\ Publishing(a).rebuilt = a.rebuilt
         /\ Publishing(a).todo = Changed(a.old, a.site) /\ Publishing(a).told = a.told
         /\ Publishing(a).pc = IF Changed(a.old, a.site) = {} THEN "activate" ELSE "publish"
<1> DEFINE b == [a EXCEPT !.pc = "publish", !.todo = Changed(a.old, a.site)]
<1>1. Changed(a.old, a.site) \subseteq Path
  BY DEF Changed
<1>2. /\ b \in Act /\ b.pc = "publish" /\ Same(a, b) /\ b.todo = Changed(a.old, a.site)
      /\ b.rebuilt = a.rebuilt /\ b.told = a.told
  BY <1>1 DEF Act, Same
<1>3. Publishing(a) = Onward(b)
  BY DEF Publishing
<1> HIDE DEF b
<1> QED
  BY <1>2, <1>3, OnwardIs DEF Same

-----------------------------------------------------------------------------
(* THE FRAMES *)

promised == <<minted, lived, [c \in Client |-> client[c].seen], [c \in Client |-> Told(c)]>>

(* What a step leaves: the invariant, and a step of Publication or none. *)
Good == Inv' /\ [P!Next]_promised

(* A step that the callers do not see. *)
LEMMA Unseen ==
  ASSUME UNCHANGED <<minted, lived, client>> PROVE UNCHANGED promised
  BY DEF promised, Told

(* A step of the activation that goes on with the same generation. *)
LEMMA ActMoves ==
  ASSUME Inv, TypeOK', NEW a \in Act, act' = a, Same(act, a), act.pc # "idle",
         UNCHANGED <<queue, client, up, minted, lived>>,
         \/ journal'.desired \in {journal.desired, None}
         \/ journal'.desired = act.gen /\ act.pc \in Working,
         a.pc \notin {"idle", "stage"}, a.pc \in Working => act.pc \in Working,
         a.pc # "reread", a.pc = "adopt" => act.pc = "reread" /\ act.by # Boot,
         a.pc = "answer" /\ a.told = "live" => act.pc \in {"reread", "adopt"},
         a.pc \in {"reboot", "bootup"} => act.by = Boot, a.pc = "answer" => act.by # Boot
  PROVE  Good
<1>1. QueueInv'
  BY DEF Inv, QueueInv, Same
<1>2. PromiseInv'
  BY DEF Inv, PromiseInv, Same, Fresh, Working
<1>3. CountInv'
  <2>1. Askers' = Askers
    BY DEF Askers
  <2>2. CASE act.pc = "stage"
    <3>1. Cardinality(Askers) \in Nat /\ minted \in Nat
      <4>1. IsFiniteSet(Askers)
        BY ProcessAssumption, FS_Subset DEF Askers
      <4> QED
        BY <4>1, FS_CardinalityType, GenType DEF Inv, TypeOK
    <3> QED
      BY <2>1, <2>2, <3>1 DEF Inv, CountInv
  <2>3. CASE act.pc # "stage"
    BY <2>1, <2>3 DEF Inv, CountInv
  <2> QED
    BY <2>2, <2>3
<1> QED
  BY <1>1, <1>2, <1>3, Unseen DEF Good, Inv

(* A step beside the activation. *)
LEMMA Beside ==
  ASSUME Inv, TypeOK', UNCHANGED <<queue, client, act, up, minted, lived>>,
         journal'.desired = journal.desired
  PROVE  Good
<1>1. QueueInv'
  BY DEF Inv, QueueInv
<1>2. PromiseInv'
  BY DEF Inv, PromiseInv, Fresh
<1>3. CountInv'
  BY DEF Inv, CountInv, Askers
<1> QED
  BY <1>1, <1>2, <1>3, Unseen DEF Good, Inv

-----------------------------------------------------------------------------
(* THE ACTIVATION *)

(* The journal names the generation that is staged. *)
LEMMA JournalStep == ASSUME Inv, Journal PROVE Good
<1> DEFINE a == [act EXCEPT !.pc = "validate"]
<1>1. act \in Act /\ act.pc = "journal" /\ act.gen \in {None} \cup Gen /\ act.base \in {None} \cup Gen
  BY DEF Inv, TypeOK, Act, Journal
<1>2. a \in Act /\ Same(act, a) /\ a.pc = "validate"
  BY <1>1 DEF Act, Same
<1>3. /\ act' = a /\ UNCHANGED <<queue, client, up, minted, lived, work, folder, blobs, runtime, gc, owed,
                                 crashes, faults>>
      /\ journal' = [active |-> act.base, desired |-> act.gen]
      /\ row' = [row EXCEPT ![act.gen].status = "inflight"]
      /\ stray' = (stray \/ journal.desired \notin {None, act.gen})
  BY DEF Journal
<1>4. row' \in [Gen -> Row] /\ stray' \in BOOLEAN
  BY <1>3 DEF Inv, TypeOK, Row
<1>5. TypeOK'
  BY <1>1, <1>2, <1>3, <1>4 DEF Inv, TypeOK
<1> QED
  BY <1>1, <1>2, <1>3, <1>5, ActMoves DEF Working

(* A step of the activation that returns: it answers its request, or the    *)
(* boot goes on.                                                            *)
LEMMA Returns ==
  ASSUME Inv, TypeOK', NEW told \in {"live", "refused"}, act' = Return(act, told), act.pc # "idle",
         told = "live" => act.pc \in {"reread", "adopt"}, UNCHANGED <<queue, client, up, minted, lived>>,
         journal'.desired \in {journal.desired, None}
  PROVE  Good
<1>1. act \in Act
  BY DEF Inv, TypeOK
<1>2. PICK a \in Act : a = Return(act, told)
  BY <1>1, ReturnIs
<1>3. /\ Same(act, a)
      /\ act.by # Boot => a.pc = "answer" /\ a.told = told
      /\ act.by = Boot => a.pc \in {"reboot", "bootup"}
  BY <1>1, <1>2, ReturnIs
<1> QED
  BY <1>2, <1>3, ActMoves DEF Working

(* Validation goes on to a build or a publish, or gives the generation up. *)
LEMMA ValidateStep == ASSUME Inv, Validate PROVE Good
<1>1. act \in Act /\ act.pc = "validate" /\ UNCHANGED <<disk, runtime, queue, client, gc, owed, up,
                                                       crashes, faults, stray, lived>>
  BY DEF Inv, TypeOK, Validate
<1>2. PICK a : a = act'
  OBVIOUS
<1>3. a \in Act /\ Same(act, a) /\ a.pc \in {"abandon", "build", "activate", "publish"}
  <2>1. CASE a = [act EXCEPT !.pc = "abandon"] \/ a = [act EXCEPT !.pc = "build"]
    BY <1>1, <2>1 DEF Act, Same
  <2>2. CASE a = Publishing(act)
    BY <1>1, <2>2, PublishingIs
  <2> QED
    BY <1>2, <2>1, <2>2 DEF Validate
<1>4. TypeOK'
  BY <1>1, <1>2, <1>3 DEF Inv, TypeOK, disk
<1> QED
  BY <1>1, <1>2, <1>3, <1>4, ActMoves DEF Working, disk

(* The runtime is rebuilt, or the block set refused. *)
LEMMA RebuildStep == ASSUME Inv, Rebuild PROVE Good
<1>1. act \in Act /\ act.pc = "build" /\ UNCHANGED <<disk, queue, client, gc, owed, up, crashes, faults,
                                                    stray, lived>>
  BY DEF Inv, TypeOK, Rebuild
<1>2. PICK a : a = act'
  OBVIOUS
<1>3. a \in Act /\ Same(act, a) /\ a.pc \in {"abandon", "activate", "publish"}
  <2>1. CASE a = [act EXCEPT !.pc = "abandon"]
    BY <1>1, <2>1 DEF Act, Same
  <2>2. CASE a = [Publishing(act) EXCEPT !.rebuilt = TRUE]
    <3>1. PICK b \in Act : b = Publishing(act)
      BY <1>1, PublishingIs
    <3>2. Same(act, b) /\ b.pc \in {"activate", "publish"}
      BY <1>1, <3>1, PublishingIs
    <3>3. a = [b EXCEPT !.rebuilt = TRUE]
      BY <2>2, <3>1
    <3> QED
      BY <3>2, <3>3 DEF Act, Same
  <2> QED
    BY <1>2, <2>1, <2>2 DEF Rebuild
<1>4. runtime' \in [now : SUBSET Block, before : SUBSET Block]
  BY <1>1 DEF Rebuild, Inv, TypeOK, Act
<1>5. TypeOK'
  BY <1>1, <1>2, <1>3, <1>4 DEF Inv, TypeOK, disk
<1> QED
  BY <1>1, <1>2, <1>3, <1>5, ActMoves DEF Working, disk

(* A file goes out. *)
LEMMA PutFileStep == ASSUME Inv, NEW p \in Path, PutFile(p) PROVE Good
<1> DEFINE b == [act EXCEPT !.todo = @ \ {p}]
<1>1. /\ act \in Act /\ act.pc \in {"publish", "restore", "reboot"} /\ act' = Onward(b)
      /\ UNCHANGED <<work, blobs, row, minted, journal, runtime, queue, client, gc, owed, up,
                     crashes, faults, stray, lived>>
  BY DEF Inv, TypeOK, PutFile
<1>2. b \in Act /\ b.pc = act.pc /\ Same(act, b)
  BY <1>1 DEF Act, Same
<1> HIDE DEF b
<1>3. PICK a \in Act : a = Onward(b)
  BY <1>1, <1>2, OnwardIs
<1>4. Same(act, a) /\ (a.pc = act.pc \/ a.pc \in {"activate", "abandon", "bootup"})
      /\ (a.pc = "bootup" => act.pc = "reboot") /\ (a.pc \in {"activate", "abandon"} => act.pc \in Working)
  BY <1>1, <1>2, <1>3, OnwardIs DEF Same, Working
<1>5. folder' \in Site
  <2>1. Target(act) \in Site
    BY <1>1 DEF Target, Act
  <2> QED
    BY <2>1 DEF PutFile, Inv, TypeOK, Site
<1>6. TypeOK'
  BY <1>1, <1>3, <1>5 DEF Inv, TypeOK
<1>7. act.pc = "reboot" => act.by = Boot
  BY DEF Inv, QueueInv
<1> QED
  BY <1>1, <1>3, <1>4, <1>6, <1>7, ActMoves DEF Working

(* The row of a generation is failed, and the journal follows. *)
LEMMA AbandonStep == ASSUME Inv, Abandon PROVE Good
<1> DEFINE a == [act EXCEPT !.pc = "close"]
<1>1. act \in Act /\ act.pc = "abandon"
  BY DEF Inv, TypeOK, Abandon
<1>2. a \in Act /\ Same(act, a) /\ a.pc = "close"
  BY <1>1 DEF Act, Same
<1>3. TypeOK'
  BY <1>2 DEF Inv, TypeOK, Abandon, Row
<1> QED
  BY <1>1, <1>2, <1>3, ActMoves DEF Working, Abandon

LEMMA CloseStep == ASSUME Inv, Close PROVE Good
<1>1. act \in Act /\ act.base \in {None} \cup Gen
  BY DEF Inv, TypeOK, Act
<1>2. Return(act, "refused") \in Act
  BY <1>1, ReturnIs
<1>3. TypeOK'
  BY <1>1, <1>2 DEF Inv, TypeOK, Close
<1> QED
  BY <1>3, Returns DEF Close

(* The row of a generation becomes active, and the one before superseded. *)
LEMMA ActivateStep == ASSUME Inv, Activate PROVE Good
<1> DEFINE a == [act EXCEPT !.pc = "supersede"]
<1>1. act \in Act /\ act.pc = "activate"
  BY DEF Inv, TypeOK, Activate
<1>2. a \in Act /\ Same(act, a) /\ a.pc = "supersede"
  BY <1>1 DEF Act, Same
<1>3. TypeOK'
  BY <1>2 DEF Inv, TypeOK, Activate, Row
<1> QED
  BY <1>1, <1>2, <1>3, ActMoves DEF Working, Activate

LEMMA SupersedeStep == ASSUME Inv, Supersede PROVE Good
<1> DEFINE a == [act EXCEPT !.pc = "commit"]
<1>1. act \in Act /\ act.pc = "supersede" /\ UNCHANGED <<work, blobs, minted, journal, folder, runtime,
                           queue, client, gc, owed, up, crashes, faults, stray, lived>>
  BY DEF Inv, TypeOK, Supersede
<1>2. a \in Act /\ Same(act, a) /\ a.pc = "commit"
  BY <1>1 DEF Act, Same
<1>3. row' \in [Gen -> Row]
  BY DEF Inv, TypeOK, Supersede, Row
<1>4. CASE act' = a
  <2>1. TypeOK'
    BY <1>1, <1>2, <1>3, <1>4 DEF Inv, TypeOK
  <2> QED
    BY <1>1, <1>2, <1>4, <2>1, ActMoves DEF Working
<1>5. CASE act' = Return(act, "refused")
  <2>1. TypeOK'
    BY <1>1, <1>3, <1>5, ReturnIs DEF Inv, TypeOK
  <2> QED
    BY <1>1, <1>5, <2>1, Returns
<1> QED
  BY <1>4, <1>5 DEF Supersede

(* The committed row is read again, for the answer or before a rollback's   *)
(* adoption.                                                                *)
LEMMA RereadStep == ASSUME Inv, Reread PROVE Good
<1> DEFINE a == [act EXCEPT !.pc = "adopt"]
<1>1. /\ act \in Act /\ act.pc = "reread"
      /\ UNCHANGED <<disk, runtime, queue, client, gc, owed, up, crashes, faults, stray, lived>>
  BY DEF Inv, TypeOK, Reread
<1>2. CASE act.kind = "rollback" /\ act' = a
  <2>1. a \in Act /\ Same(act, a) /\ a.pc = "adopt" /\ act.by # Boot
    BY <1>1, <1>2 DEF Act, Same, Inv, QueueInv
  <2>2. TypeOK'
    BY <1>1, <1>2, <2>1 DEF Inv, TypeOK, disk
  <2> QED
    BY <1>1, <1>2, <2>1, <2>2, ActMoves DEF Working, disk
<1>3. CASE act' = Return(act, "live")
  <2>1. TypeOK'
    BY <1>1, <1>3, ReturnIs DEF Inv, TypeOK, disk
  <2> QED
    BY <1>1, <1>3, <2>1, Returns DEF disk
<1> QED
  BY <1>2, <1>3 DEF Reread

(* The workspace follows a rollback. *)
LEMMA AdoptStep == ASSUME Inv, Adopt PROVE Good
<1>1. act \in Act /\ act.site \in Site
  BY DEF Inv, TypeOK, Act
<1>2. TypeOK'
  BY <1>1, ReturnIs DEF Inv, TypeOK, Adopt
<1> QED
  BY <1>2, Returns DEF Adopt

(* A call of the activation fails. *)
LEMMA CallFailsStep == ASSUME Inv, CallFails PROVE Good
<1>1. act \in Act
  BY DEF Inv, TypeOK
<1>2. Return(act, "refused") \in Act
  BY <1>1, ReturnIs
<1>3. /\ act' = Return(act, "refused") /\ act.pc # "idle" /\ faults' \in Nat
      /\ UNCHANGED <<disk, runtime, queue, client, gc, owed, up, crashes, lived>>
  BY DEF Inv, TypeOK, CallFails, Fault
<1>4. TypeOK'
  <2>1. stray' = stray \/ stray' = (stray \/ (act.by = Boot /\ act.base # None))
    BY DEF CallFails
  <2>2. stray' \in BOOLEAN
    BY <2>1 DEF Inv, TypeOK
  <2> QED
    BY <1>2, <1>3, <2>2 DEF Inv, TypeOK, disk
<1> QED
  BY <1>3, <1>4, Returns DEF disk

(* The boot ends and the process serves. *)
LEMMA BootEnds ==
  ASSUME Inv, TypeOK', act.by = Boot, act' = Idle, up' = TRUE, UNCHANGED <<queue, client, minted, lived>>,
         journal'.desired \in {journal.desired, None}
  PROVE  Good
<1>1. queue = NoQueue /\ act.pc # "stage"
  BY DEF Inv, QueueInv
<1>2. QueueInv'
  BY <1>1, ProcessAssumption DEF Inv, QueueInv, Idle, NoQueue
<1>3. PromiseInv'
  BY <1>1 DEF Inv, PromiseInv, Idle, Working, NoQueue
<1>4. CountInv'
  BY <1>1 DEF Inv, CountInv, Askers, Idle
<1> QED
  BY <1>2, <1>3, <1>4, Unseen DEF Good, Inv

(* A publish fails at a file. *)
LEMMA PublishFailsStep == ASSUME Inv, NEW p \in Path, PublishFails(p) PROVE Good
<1>1. /\ act \in Act /\ UNCHANGED <<disk, queue, client, gc, owed, crashes, lived>> /\ faults' \in Nat
      /\ runtime \in [now : SUBSET Block, before : SUBSET Block]
  BY DEF Inv, TypeOK, PublishFails, Fault
<1>2. CASE /\ act.pc = "publish" /\ UNCHANGED <<up, stray>>
           /\ runtime' = IF act.rebuilt THEN [now |-> runtime.before, before |-> {}] ELSE runtime
           /\ act' = [act EXCEPT !.pc = "restore", !.todo = Changed(act.site, act.old)]
  <2> DEFINE a == [act EXCEPT !.pc = "restore", !.todo = Changed(act.site, act.old)]
  <2>1. Changed(act.site, act.old) \subseteq Path
    BY DEF Changed
  <2>2. a \in Act /\ Same(act, a) /\ a.pc = "restore"
    BY <1>1, <2>1 DEF Act, Same
  <2>3. runtime' \in [now : SUBSET Block, before : SUBSET Block]
    BY <1>1, <1>2
  <2>4. TypeOK'
    BY <1>1, <1>2, <2>2, <2>3 DEF Inv, TypeOK, disk
  <2> QED
    BY <1>1, <1>2, <2>2, <2>4, ActMoves DEF Working, disk
<1>3. CASE /\ act.pc = "restore" /\ act' = [act EXCEPT !.pc = "abandon", !.todo = {}]
           /\ stray' = TRUE /\ UNCHANGED <<runtime, up>>
  <2> DEFINE a == [act EXCEPT !.pc = "abandon", !.todo = {}]
  <2>1. a \in Act /\ Same(act, a) /\ a.pc = "abandon"
    BY <1>1 DEF Act, Same
  <2>2. TypeOK'
    BY <1>1, <1>3, <2>1 DEF Inv, TypeOK, disk
  <2> QED
    BY <1>1, <1>3, <2>1, <2>2, ActMoves DEF Working, disk
<1>4. CASE act.pc = "reboot" /\ act' = Idle /\ stray' = TRUE /\ up' = TRUE /\ UNCHANGED runtime
  <2>1. TypeOK'
    BY <1>1, <1>4, IdleType DEF Inv, TypeOK, disk
  <2>2. act.by = Boot
    BY <1>4 DEF Inv, QueueInv
  <2> QED
    BY <1>1, <1>4, <2>1, <2>2, BootEnds DEF disk
<1> QED
  BY <1>2, <1>3, <1>4 DEF PublishFails

(* The callers that have asked are a finite set. *)
LEMMA AskersFinite ==
  IsFiniteSet(Askers) /\ Cardinality(Askers) \in Nat /\ Cardinality(Askers) <= Cardinality(Client)
<1>1. Askers \subseteq Client
  BY DEF Askers
<1> QED
  BY <1>1, ProcessAssumption, FS_Subset, FS_CardinalityType

(* A generation is composed, for which there is a request. *)
LEMMA StageStep == ASSUME Inv, Stage PROVE Good
<1> DEFINE base == journal.active
           site == IF act.kind = "rollback" THEN act.site ELSE work
           blocks == IF act.kind = "site" THEN Manifest(base).blocks ELSE act.blocks
           r == [status |-> "inflight", site |-> site, blocks |-> blocks]
           a == [act EXCEPT !.pc = "journal", !.gen = minted + 1, !.base = base, !.site = site,
                            !.blocks = blocks, !.old = Manifest(base).site,
                            !.oldBlocks = Manifest(base).blocks]
<1>1. /\ act \in Act /\ act.pc = "stage" /\ base \in {None} \cup Gen
      /\ UNCHANGED <<work, blobs, journal, folder, runtime, queue, client, gc, owed, up,
                     crashes, faults, stray, lived>>
  BY DEF Inv, TypeOK, Stage
<1>2. CASE act' = Return(act, "refused") /\ UNCHANGED <<minted, row>>
  <2>1. TypeOK'
    BY <1>1, <1>2, ReturnIs DEF Inv, TypeOK
  <2> QED
    BY <1>1, <1>2, <2>1, Returns
<1>3. CASE minted' = minted + 1 /\ row' = [row EXCEPT ![minted + 1] = r] /\ act' = a
  <2>1. minted \in Nat /\ lived \in 1 .. minted /\ minted + 1 \in Gen
    BY <1>1, AskersFinite, GenType DEF Inv, TypeOK, CountInv, Gen
  <2>2. Manifest(base) \in Row
    BY <1>1, IdleType DEF Manifest, Inv, TypeOK, NoRow, Row
  <2>3. site \in Site /\ blocks \in SUBSET Block /\ Manifest(base).site \in Site
        /\ Manifest(base).blocks \in SUBSET Block
    BY <1>1, <2>2 DEF Row, Act, Inv, TypeOK
  <2>4. r \in Row
    BY <2>3 DEF Row
  <2>5. a \in Act /\ a.pc = "journal" /\ a.by = act.by /\ a.waiters = act.waiters /\ a.kind = act.kind
        /\ a.gen = minted + 1
    <3> HIDE DEF site, blocks
    <3> QED
      BY <1>1, <2>1, <2>3 DEF Act
  <2> HIDE DEF a, r
  <2>6. TypeOK'
    BY <1>1, <1>3, <2>1, <2>4, <2>5 DEF Inv, TypeOK
  <2>7. QueueInv'
    BY <1>1, <1>3, <2>5 DEF Inv, QueueInv
  <2>8. PromiseInv'
    <3>1. Fresh'
      BY <1>1, <1>3, <2>1, <2>5 DEF Fresh, Inv, TypeOK, PromiseInv, Caller
    <3>2. \A c \in Client : client[c].seen \in Nat /\ client[c].seen <= minted + 1
      BY <2>1 DEF Inv, TypeOK, PromiseInv, Caller
    <3>3. journal.desired # None => journal.desired <= minted + 1
      <4>1. journal.desired \in {None} \cup Gen
        BY DEF Inv, TypeOK
      <4>2. journal.desired # None => journal.desired <= minted
        BY DEF Inv, PromiseInv
      <4>3. journal.desired \in Nat
        BY <4>1, GenNat
      <4> QED
        BY <2>1, <4>2, <4>3
    <3> QED
      BY <1>1, <1>3, <2>1, <2>5, <3>1, <3>2, <3>3 DEF Inv, PromiseInv, Working
  <2>9. CountInv'
    BY <1>1, <1>3, <2>1, <2>5, AskersFinite DEF Inv, CountInv, Askers
  <2>10. P!Compose
    BY <1>1, <1>3 DEF P!Compose, Told
  <2> QED
    BY <2>6, <2>7, <2>8, <2>9, <2>10 DEF Good, Inv, P!Next
<1> QED
  BY <1>2, <1>3 DEF Stage

(* A generation goes live. *)
LEMMA CommitStep == ASSUME Inv, Commit PROVE Good
<1>1. /\ act \in Act /\ act.pc = "commit" /\ journal' = [active |-> act.gen, desired |-> None]
      /\ lived' = act.gen /\ owed' = owed + 1
      /\ UNCHANGED <<work, blobs, row, minted, folder, runtime, queue, client, gc, up,
                     crashes, faults, stray>>
  BY DEF Inv, TypeOK, Commit
<1>2. lived < act.gen /\ act.gen <= minted /\ Fresh
  BY <1>1 DEF Inv, PromiseInv, Working
<1>3. /\ act.gen \in Gen /\ lived \in Nat /\ minted \in Nat /\ act.gen \in Nat
      /\ lived' \in 1 .. minted /\ lived' \in lived + 1 .. minted
  BY <1>1, <1>2, GenType DEF Inv, TypeOK, Act, None
<1>4. PICK a : a = act'
  OBVIOUS
<1>5. a \in Act /\ Same(act, a) /\ a.pc = "reread"
  BY <1>1, <1>4 DEF Act, Same, Commit
<1>6. TypeOK'
  BY <1>1, <1>3, <1>4, <1>5 DEF Inv, TypeOK
<1>7. QueueInv'
  BY <1>1, <1>4, <1>5 DEF Inv, QueueInv, Same
<1>8. PromiseInv'
  <2>1. Fresh'
    BY <1>1, <1>2, <1>4, <1>5 DEF Fresh, Same
  <2>2. queue.mine = "live" => client[queue.driver].seen < lived'
    <3> SUFFICES ASSUME queue.mine = "live" PROVE client[queue.driver].seen < lived'
      OBVIOUS
    <3>1. queue.driver \in Client
      BY DEF Inv, QueueInv, NoQueue, TypeOK, Queue
    <3>2. client[queue.driver].seen \in Nat
      BY <3>1 DEF Inv, TypeOK, Caller
    <3> QED
      BY <1>1, <1>2, <1>3, <3>2 DEF Inv, PromiseInv
  <2> QED
    BY <1>1, <1>3, <1>4, <1>5, <2>1, <2>2 DEF Inv, PromiseInv, Working, Same, None
<1>9. CountInv'
  BY <1>1, <1>4, <1>5 DEF Inv, CountInv, Askers
<1>10. P!GoLive
  BY <1>1, <1>3 DEF P!GoLive, Told
<1> QED
  BY <1>6, <1>7, <1>8, <1>9, <1>10 DEF Good, Inv, P!Next

-----------------------------------------------------------------------------
(* THE QUEUE *)

(* A caller that asks is one asker more. *)
LEMMA AskerAdded ==
  ASSUME Inv, NEW c \in Client, client[c].seen = 0, NEW r \in Caller, r.seen = minted,
         client' = [client EXCEPT ![c] = r]
  PROVE  Cardinality(Askers') = Cardinality(Askers) + 1
<1>1. minted > 0
  BY GenType DEF Inv, TypeOK, Gen
<1>2. Askers' = Askers \cup {c} /\ c \notin Askers
  BY <1>1 DEF Askers, Inv, TypeOK, Caller
<1> QED
  BY <1>2, AskersFinite, FS_AddElement

(* A caller enters the queue: it drives, or is folded into what is pending. *)
LEMMA AdmitStep ==
  ASSUME Inv, TypeOK', NEW c \in Client, client[c].pc \in {"new", "asking"}, up,
         NEW kind \in {"site", "blocks", "rollback"}, NEW site \in Site, NEW blocks \in SUBSET Block,
         Admit(c, kind, site, blocks), UNCHANGED <<minted, lived, up, journal>>
  PROVE  Good
<1> DEFINE r(pc) == [pc |-> pc, kind |-> kind, site |-> Empty, blocks |-> {}, seen |-> minted]
<1>1. client[c].seen = 0 /\ minted \in Nat /\ client \in [Client -> Caller] /\ act \in Act /\ queue \in Queue
  BY GenType DEF Inv, PromiseInv, TypeOK
<1>2. r("driving") \in Caller /\ r("waiting") \in Caller
  BY <1>1, IdleType DEF Caller
<1>3. c \notin queue.waiters /\ c \notin act.waiters /\ c # queue.driver
  <2>1. client[c].pc \notin {"waiting", "gone", "driving"}
    OBVIOUS
  <2>2. c \notin queue.waiters /\ c \notin act.waiters
    BY <2>1 DEF Inv, QueueInv
  <2>3. c # queue.driver
    BY <2>1, ProcessAssumption DEF Inv, QueueInv
  <2> QED
    BY <2>2, <2>3
<1>4. ASSUME NEW pc \in {"driving", "waiting"}, client' = [client EXCEPT ![c] = r(pc)] PROVE P!Ask(c)
  <2>1. [d \in Client |-> client[d].seen]' = [[d \in Client |-> client[d].seen] EXCEPT ![c] = minted]
    BY <1>1, <1>4
  <2>2. [d \in Client |-> Told(d)]' = [[d \in Client |-> Told(d)] EXCEPT ![c] = "waiting"]
    <3> SUFFICES ASSUME NEW d \in Client PROVE Told(d)' = IF d = c THEN "waiting" ELSE Told(d)
      OBVIOUS
    <3>1. CASE d = c
      BY <1>1, <1>4, <3>1 DEF Told
    <3>2. CASE d # c
      BY <1>1, <1>4, <3>2 DEF Told
    <3> QED
      BY <3>1, <3>2
  <2>3. Told(c) = "new"
    BY DEF Told
  <2> QED
    BY <2>1, <2>2, <2>3 DEF P!Ask
<1>5. CASE /\ queue.driver = Nobody /\ client' = [client EXCEPT ![c] = r("driving")]
           /\ Begin([NoQueue EXCEPT !.driver = c], kind, site, blocks, {})
  <2> DEFINE q == [NoQueue EXCEPT !.driver = c]
             a == [Idle EXCEPT !.pc = "stage", !.by = q.driver, !.kind = kind, !.site = site,
                               !.blocks = blocks, !.waiters = {}]
  <2>1. queue' = q /\ act' = a /\ q.driver = c /\ q.mine = "none" /\ q.waiters = {}
    BY <1>5 DEF Begin, NoQueue
  <2>2. a.pc = "stage" /\ a.by = c /\ a.kind = kind /\ a.waiters = {}
    BY DEF Idle, NoQueue
  <2> HIDE DEF q, a
  <2>3. queue = NoQueue /\ act.by = Nobody /\ act.pc = "idle"
    BY <1>5, up DEF Inv, QueueInv
  <2>4. QueueInv'
    BY <1>1, <1>3, <1>5, <2>1, <2>2, <2>3, ProcessAssumption DEF Inv, QueueInv, NoQueue
  <2>5. PromiseInv'
    BY <1>1, <1>5, <2>1, <2>2 DEF Inv, PromiseInv, Working
  <2>6. CountInv'
    <3>1. Cardinality(Askers') = Cardinality(Askers) + 1
      BY <1>1, <1>2, <1>5, AskerAdded
    <3>2. queue.waiters = {}
      BY <2>3 DEF NoQueue
    <3> QED
      BY <1>1, <2>1, <2>2, <2>3, <3>1, <3>2, AskersFinite DEF Inv, CountInv
  <2> QED
    BY <1>4, <1>5, <2>4, <2>5, <2>6 DEF Good, Inv, P!Next
<1>6. CASE /\ queue.driver # Nobody /\ client' = [client EXCEPT ![c] = r("waiting")]
           /\ Fold(c, kind, site, blocks) /\ UNCHANGED act
  <2>1. queue'.driver = queue.driver /\ queue'.mine = queue.mine /\ queue'.waiters = queue.waiters \cup {c}
    BY <1>1, <1>6 DEF Fold, Queue
  <2>2. queue.driver \in Client
    BY <1>1, <1>6 DEF Queue
  <2>3. QueueInv'
    BY <1>1, <1>3, <1>6, <2>1, <2>2 DEF Inv, QueueInv
  <2>4. PromiseInv'
    <3>1. Fresh => Fresh'
      BY <1>1, <1>3, <1>6, <2>1 DEF Fresh
    <3> QED
      BY <1>1, <1>3, <1>6, <2>1, <2>2, <3>1 DEF Inv, PromiseInv
  <2>5. CountInv'
    <3>1. Cardinality(Askers') = Cardinality(Askers) + 1
      BY <1>1, <1>2, <1>6, AskerAdded
    <3> QED
      BY <1>1, <1>6, <2>1, <3>1, AskersFinite DEF Inv, CountInv
  <2> QED
    BY <1>4, <1>6, <2>3, <2>4, <2>5 DEF Good, Inv, P!Next
<1> QED
  BY <1>5, <1>6 DEF Admit

(* What the queue holds afterwards. *)
LEMMA AdmitType ==
  ASSUME Inv, NEW c \in Client, NEW kind \in {"site", "blocks", "rollback"}, NEW site \in Site,
         NEW blocks \in SUBSET Block, Admit(c, kind, site, blocks)
  PROVE  queue' \in Queue /\ act' \in Act /\ client' \in [Client -> Caller]
<1>1. minted \in Nat /\ client \in [Client -> Caller] /\ act \in Act /\ queue \in Queue
  BY GenType DEF Inv, TypeOK
<1>2. ASSUME NEW pc \in {"driving", "waiting"}
      PROVE  [pc |-> pc, kind |-> kind, site |-> Empty, blocks |-> {}, seen |-> minted] \in Caller
  BY <1>1, IdleType DEF Caller
<1>3. client' \in [Client -> Caller]
  BY <1>1, <1>2 DEF Admit
<1>4. CASE queue.driver = Nobody
  <2>1. [NoQueue EXCEPT !.driver = c] \in Queue /\ [NoQueue EXCEPT !.driver = c].driver = c
    BY IdleType DEF Queue, NoQueue
  <2>2. [Idle EXCEPT !.pc = "stage", !.by = c, !.kind = kind, !.site = site,
                     !.blocks = blocks, !.waiters = {}] \in Act
    BY IdleType DEF Act
  <2> QED
    BY <1>3, <1>4, <2>1, <2>2 DEF Admit, Begin
<1>5. CASE queue.driver # Nobody
  <2>1. [queue EXCEPT !.waiters = @ \cup {c}] \in Queue
    BY <1>1 DEF Queue
  <2>2. ASSUME NEW q \in Queue
        PROVE  [q EXCEPT !.kind = kind, !.site = site, !.blocks = blocks] \in Queue
    BY DEF Queue
  <2>3. queue' \in Queue
    BY <1>5, <2>1, <2>2 DEF Admit, Fold
  <2> QED
    BY <1>1, <1>3, <1>5, <2>3 DEF Admit
<1> QED
  BY <1>4, <1>5

(* Callers are answered: what they are told is a step of Publication. *)
LEMMA TellStep ==
  ASSUME TypeOK, TypeOK', UNCHANGED <<minted, lived>>,
         \A c \in Client : /\ client'[c].seen = client[c].seen
                           /\ \/ client'[c].pc = client[c].pc
                              \/ client[c].pc \in {"new", "asking"} /\ client'[c].pc \in {"asking", "gone"}
                              \/ /\ client[c].pc \in {"waiting", "driving"}
                                 /\ \/ client'[c].pc \in {"refused", "gone"}
                                    \/ client'[c].pc = "live" /\ client[c].seen < lived
  PROVE  P!Tell
<1>1. \A c \in Client : client[c].seen \in Nat /\ client[c].pc \in {"new", "asking", "waiting",
                         "driving", "live", "refused", "gone"} /\ client'[c].pc \in {"new", "asking",
                         "waiting", "driving", "live", "refused", "gone"}
  BY DEF TypeOK, Caller
<1>2. ASSUME NEW c \in Client
      PROVE  /\ Told(c) \in P!Answers /\ Told(c)' \in P!Answers
             /\ client[c].pc \in {"new", "asking"} => Told(c) = "new"
             /\ client[c].pc \in {"waiting", "driving"} => Told(c) = "waiting"
             /\ client[c].pc \in {"live", "refused", "gone"} => Told(c) = client[c].pc
             /\ client'[c].pc \in {"new", "asking"} => Told(c)' = "new"
             /\ client'[c].pc \in {"waiting", "driving"} => Told(c)' = "waiting"
             /\ client'[c].pc \in {"live", "refused", "gone"} => Told(c)' = client'[c].pc
  BY <1>1 DEF Told, P!Answers
<1>3. ASSUME NEW c \in Client
      PROVE  \/ Told(c)' = Told(c)
             \/ Told(c) \in {"new", "waiting"} /\ Told(c)' = "gone"
             \/ Told(c) = "waiting" /\ Told(c)' = "refused"
             \/ Told(c) = "waiting" /\ Told(c)' = "live" /\ lived > client[c].seen
  BY <1>1, <1>2
<1>4. [c \in Client |-> client[c].seen]' = [c \in Client |-> client[c].seen]
  OBVIOUS
<1>5. [c \in Client |-> Told(c)]' \in [Client -> P!Answers]
  BY <1>2
<1> QED
  BY <1>3, <1>4, <1>5 DEF P!Tell

(* A request that has not asked yet moves on, or ends. *)
LEMMA BeforeAsking ==
  ASSUME Inv, TypeOK', up, NEW c \in Client, client[c].pc = "new", NEW r \in Caller,
         r.pc = "gone" \/ (r.pc = "asking" /\ r.kind # "none"), r.seen = client[c].seen,
         client' = [client EXCEPT ![c] = r],
         UNCHANGED <<queue, act, up, minted, lived, journal>>
  PROVE  Good
<1>1. client \in [Client -> Caller] /\ queue \in Queue /\ minted \in Nat
  BY GenType DEF Inv, TypeOK
<1>2. c # queue.driver /\ c \notin queue.waiters /\ c \notin act.waiters
  BY ProcessAssumption DEF Inv, QueueInv
<1>3. QueueInv'
  BY <1>1, <1>2 DEF Inv, QueueInv, Queue
<1>4. \A d \in Client : client'[d].seen = client[d].seen
  BY <1>1
<1>5. PromiseInv'
  <2>1. Fresh' <=> Fresh
    BY <1>4 DEF Fresh
  <2>2. queue.driver \in Client => client'[queue.driver] = client[queue.driver]
    BY <1>1, <1>2
  <2>3. queue.mine = "live" => queue.driver \in Client
    BY <1>1 DEF Inv, QueueInv, NoQueue, Queue
  <2> QED
    BY <1>1, <1>4, <2>1, <2>2, <2>3 DEF Inv, PromiseInv
<1>6. CountInv'
  BY <1>4 DEF Inv, CountInv, Askers
<1>7. P!Tell
  BY <1>1, TellStep DEF Inv
<1> QED
  BY <1>3, <1>5, <1>6, <1>7 DEF Good, Inv, P!Next

(* A write is saved and enters the queue, or fails. *)
LEMMA WriteStep == ASSUME Inv, NEW c \in Client, NEW e \in Edit, Write(c, e[1], e[2]) PROVE Good
<1> DEFINE p == e[1]
           v == e[2]
<1>1. /\ up /\ client[c].pc = "new" /\ client[c] \in Caller /\ blobs' = blobs \cup ({v} \ {Absent})
      /\ UNCHANGED <<row, minted, journal, folder, runtime, gc, owed, up, crashes, stray, lived>>
  BY DEF Inv, TypeOK, Write
<1>2. p \in Path /\ v \in Content \cup {Absent}
  BY SiteAssumption
<1> HIDE DEF p, v
<1>3. blobs' \subseteq Content /\ [work EXCEPT ![p] = v] \in Site
  BY <1>1, <1>2 DEF Inv, TypeOK, Site
<1>4. CASE /\ work' = [work EXCEPT ![p] = v] /\ UNCHANGED faults
           /\ Admit(c, "site", Empty, {})
  <2>1. queue' \in Queue /\ act' \in Act /\ client' \in [Client -> Caller]
    BY <1>4, IdleType, AdmitType
  <2>2. TypeOK'
    BY <1>1, <1>3, <1>4, <2>1 DEF Inv, TypeOK
  <2> QED
    BY <1>1, <1>4, <2>2, IdleType, AdmitStep
<1>5. CASE /\ Fault /\ client' = [client EXCEPT ![c].pc = "gone"] /\ UNCHANGED <<queue, act>>
           /\ work' \in {work, [work EXCEPT ![p] = v]}
  <2> DEFINE r == [client[c] EXCEPT !.pc = "gone"]
  <2>1. r \in Caller /\ r.pc = "gone" /\ r.seen = client[c].seen
    BY <1>1 DEF Caller
  <2>2. client' = [client EXCEPT ![c] = r]
    BY <1>5
  <2> HIDE DEF r
  <2>3. TypeOK'
    BY <1>1, <1>3, <1>5, <2>1, <2>2 DEF Inv, TypeOK, Fault
  <2> QED
    BY <1>1, <1>5, <2>1, <2>2, <2>3, BeforeAsking
<1> QED
  BY <1>4, <1>5 DEF Write, p, v

(* A block set or a rollback is read, and carried by the request. *)
LEMMA WantBlocksStep == ASSUME Inv, NEW c \in Client, NEW b \in Block, WantBlocks(c, b) PROVE Good
<1> DEFINE live == Manifest(journal.active).blocks
           next == IF b \in live THEN live \ {b} ELSE live \cup {b}
           r == [client[c] EXCEPT !.pc = "asking", !.kind = "blocks", !.blocks = next]
<1>1. /\ up /\ client[c].pc = "new" /\ client[c] \in Caller
      /\ UNCHANGED <<disk, runtime, queue, act, gc, owed, up, crashes, faults, stray, lived>>
  BY DEF Inv, TypeOK, WantBlocks
<1>2. client' = [client EXCEPT ![c] = r]
  BY DEF WantBlocks
<1>3. next \in SUBSET Block
  <2>1. Manifest(journal.active) \in Row
    BY IdleType DEF Manifest, Inv, TypeOK, NoRow, Row
  <2> QED
    BY <2>1 DEF Row
<1> HIDE DEF next
<1>4. r \in Caller /\ r.pc = "asking" /\ r.kind # "none" /\ r.seen = client[c].seen
  BY <1>1, <1>3 DEF Caller
<1> HIDE DEF r
<1>5. TypeOK'
  BY <1>1, <1>2, <1>4 DEF Inv, TypeOK, disk
<1> QED
  BY <1>1, <1>2, <1>4, <1>5, BeforeAsking DEF disk

LEMMA WantRollbackStep == ASSUME Inv, NEW c \in Client, NEW g \in Gen, WantRollback(c, g) PROVE Good
<1> DEFINE r == [client[c] EXCEPT !.pc = "asking", !.kind = "rollback", !.site = row[g].site,
                                  !.blocks = row[g].blocks]
<1>1. /\ up /\ client[c].pc = "new" /\ client[c] \in Caller
      /\ UNCHANGED <<disk, runtime, queue, act, gc, owed, up, crashes, faults, stray, lived>>
  BY DEF Inv, TypeOK, WantRollback
<1>2. client' = [client EXCEPT ![c] = r]
  BY DEF WantRollback
<1>3. row[g].site \in Site /\ row[g].blocks \in SUBSET Block
  BY DEF Inv, TypeOK, Row
<1>4. r \in Caller /\ r.pc = "asking" /\ r.kind # "none" /\ r.seen = client[c].seen
  BY <1>1, <1>3 DEF Caller
<1> HIDE DEF r
<1>5. TypeOK'
  BY <1>1, <1>2, <1>4 DEF Inv, TypeOK, disk
<1> QED
  BY <1>1, <1>2, <1>4, <1>5, BeforeAsking DEF disk

(* A delete of a source file schedules a pass. *)
LEMMA DeleteSourceStep == ASSUME Inv, NEW c \in Client, DeleteSource(c) PROVE Good
<1> DEFINE r == [client[c] EXCEPT !.pc = "gone"]
<1>1. /\ up /\ client[c].pc = "new" /\ client[c] \in Caller /\ owed' = owed + 1
      /\ UNCHANGED <<disk, runtime, queue, act, gc, up, crashes, faults, stray, lived>>
  BY DEF Inv, TypeOK, DeleteSource
<1>2. client' = [client EXCEPT ![c] = r]
  BY DEF DeleteSource
<1>3. r \in Caller /\ r.pc = "gone" /\ r.seen = client[c].seen
  BY <1>1 DEF Caller
<1> HIDE DEF r
<1>4. TypeOK'
  BY <1>1, <1>2, <1>3 DEF Inv, TypeOK, disk
<1> QED
  BY <1>1, <1>2, <1>3, <1>4, BeforeAsking DEF disk

(* What a request carries enters the queue. *)
LEMMA EnterStep == ASSUME Inv, NEW c \in Client, Enter(c) PROVE Good
<1>1. /\ up /\ client[c].pc = "asking" /\ client[c] \in Caller
      /\ Admit(c, client[c].kind, client[c].site, client[c].blocks)
      /\ UNCHANGED <<disk, runtime, gc, owed, up, crashes, faults, stray, lived>>
  BY DEF Inv, TypeOK, Enter
<1>2. client[c].site \in Site /\ client[c].blocks \in SUBSET Block
  BY <1>1 DEF Caller
<1>3. client[c].kind \in {"site", "blocks", "rollback"}
  BY <1>1 DEF Caller, Inv, QueueInv
<1>4. queue' \in Queue /\ act' \in Act /\ client' \in [Client -> Caller]
  BY <1>1, <1>2, <1>3, AdmitType
<1>5. TypeOK'
  BY <1>1, <1>4 DEF Inv, TypeOK, disk
<1> QED
  BY <1>1, <1>2, <1>3, <1>5, AdmitStep DEF disk

(* An outcome is told, to the driver or to the waiters it ran for, and the  *)
(* driver goes on with what is pending or is released.                      *)
LEMMA AnswerStep == ASSUME Inv, Answer PROVE Good
<1> DEFINE own == queue.mine = "none"
           mine == IF own THEN act.told ELSE queue.mine
           told(c) == IF c \in act.waiters THEN act.told ELSE client[c].pc
<1>1. /\ act.pc = "answer" /\ act \in Act /\ queue \in Queue /\ client \in [Client -> Caller]
      /\ minted \in Nat /\ lived \in Nat
      /\ UNCHANGED <<disk, runtime, gc, owed, up, crashes, faults, stray, lived>>
  BY GenType DEF Inv, TypeOK, Answer
<1>2. /\ queue.driver \in Client /\ act.by = queue.driver /\ client[queue.driver].pc = "driving" /\ up
      /\ queue.driver \notin act.waiters /\ queue.driver \notin queue.waiters
  <2>1. act.by # Nobody /\ act.by # Boot
    BY <1>1 DEF Inv, QueueInv
  <2> QED
    BY <1>1, <2>1 DEF Inv, QueueInv, Queue, TypeOK
<1>3. act.told \in {"live", "refused"} /\ mine \in {"live", "refused"} /\ act.waiters \subseteq Client
      /\ queue.waiters \subseteq Client
  BY <1>1 DEF Act, Queue
<1>4. ASSUME NEW c \in Client, c \in act.waiters, act.told = "live" PROVE client[c].seen < lived
  <2>1. client[c].seen \in Nat /\ act.gen \in Nat
    BY <1>1, GenNat DEF Caller, Act
  <2> QED
    BY <1>1, <1>4, <2>1 DEF Inv, PromiseInv, Fresh
<1>5. mine = "live" => client[queue.driver].seen < lived
  <2>1. client[queue.driver].seen \in Nat /\ act.gen \in Nat
    BY <1>1, <1>2, GenNat DEF Caller, Act
  <2>2. CASE own
    BY <1>1, <1>2, <2>1, <2>2 DEF Inv, PromiseInv, Fresh
  <2>3. CASE ~own
    BY <1>1, <1>2, <2>3 DEF Inv, PromiseInv
  <2> QED
    BY <2>2, <2>3
<1>6. \A c \in act.waiters : client[c].pc = "waiting"
  BY <1>3 DEF Inv, QueueInv
<1> HIDE DEF mine
<1>7. CASE /\ queue.waiters = {} /\ queue' = NoQueue /\ act' = Idle
           /\ client' = [c \in Client |-> [client[c] EXCEPT
                             !.pc = IF c = queue.driver THEN mine ELSE told(c)]]
  <2>1. \A c \in Client : /\ client'[c].seen = client[c].seen
                          /\ client'[c].pc = IF c = queue.driver THEN mine ELSE told(c)
    BY <1>1, <1>7 DEF Caller
  <2>2. client' \in [Client -> Caller]
    BY <1>1, <1>3, <1>7 DEF Caller
  <2>3. TypeOK'
    BY <1>1, <1>7, <2>2, IdleType DEF Inv, TypeOK, disk
  <2>4. \A c \in Client : client'[c].kind = client[c].kind
    BY <1>1, <1>7 DEF Caller
  <2>5. P!Tell
    BY <1>1, <1>2, <1>3, <1>4, <1>5, <1>6, <2>1, <2>3, TellStep DEF Inv, disk
  <2>6. QueueInv'
    <3>1. \A c \in Client : client'[c].pc \notin {"driving", "waiting"}
      <4> SUFFICES ASSUME NEW c \in Client PROVE client'[c].pc \notin {"driving", "waiting"}
        OBVIOUS
      <4>1. client[c].pc = "driving" => c = queue.driver
        BY DEF Inv, QueueInv
      <4>2. client[c].pc = "waiting" => c \in act.waiters
        BY <1>7 DEF Inv, QueueInv
      <4> QED
        BY <1>3, <2>1, <4>1, <4>2
    <3>2. \A c \in Client : client'[c].pc = "asking" => client'[c].kind # "none"
      BY <1>3, <2>1, <2>4 DEF Inv, QueueInv
    <3> QED
      BY <1>1, <1>2, <1>7, <3>1, <3>2, ProcessAssumption DEF QueueInv, Idle, NoQueue
  <2>7. PromiseInv'
    BY <1>1, <1>3, <1>7, <2>1 DEF Inv, PromiseInv, Idle, NoQueue, Working, disk
  <2>8. CountInv'
    <3>1. Askers' = Askers
      BY <2>1 DEF Askers
    <3> QED
      BY <1>1, <1>7, <3>1 DEF Inv, CountInv, Idle, NoQueue, disk
  <2> QED
    BY <2>3, <2>5, <2>6, <2>7, <2>8 DEF Good, Inv, P!Next
<1>8. CASE /\ queue.waiters # {}
           /\ Begin([NoQueue EXCEPT !.driver = queue.driver, !.mine = mine],
                    queue.kind, queue.site, queue.blocks,
                    {c \in queue.waiters : client[c].pc = "waiting"})
           /\ client' = [c \in Client |-> [client[c] EXCEPT !.pc = told(c)]]
  <2> DEFINE q == [NoQueue EXCEPT !.driver = queue.driver, !.mine = mine]
             w == {c \in queue.waiters : client[c].pc = "waiting"}
             a == [Idle EXCEPT !.pc = "stage", !.by = queue.driver, !.kind = queue.kind,
                               !.site = queue.site, !.blocks = queue.blocks, !.waiters = w]
  <2>1. /\ q \in Queue /\ q.driver = queue.driver /\ q.mine = mine /\ q.waiters = {}
    BY <1>2, <1>3, IdleType DEF Queue, NoQueue
  <2>2. queue' = q /\ act' = a
    BY <1>8, <2>1 DEF Begin
  <2> HIDE DEF q
  <2>3. w \subseteq Client /\ \A c \in Client : c \in w <=> c \in queue.waiters /\ client[c].pc = "waiting"
    BY <1>3
  <2> HIDE DEF w
  <2>4. /\ a \in Act /\ a.pc = "stage" /\ a.by = queue.driver /\ a.waiters = w /\ a.kind # "boot"
    <3>1. /\ queue.kind \in {"none", "site", "blocks", "rollback"} /\ queue.site \in Site
          /\ queue.blocks \in SUBSET Block /\ queue.driver \in Client /\ w \in SUBSET Client
      BY <1>1, <1>2, <2>3 DEF Queue
    <3> QED
      BY <3>1, IdleType DEF Act
  <2> HIDE DEF a
  <2>5. \A c \in Client : /\ client'[c].seen = client[c].seen /\ client'[c].kind = client[c].kind
                          /\ client'[c].pc = told(c)
    BY <1>1, <1>8 DEF Caller
  <2>6. client' \in [Client -> Caller]
    BY <1>1, <1>3, <1>8 DEF Caller
  <2>7. TypeOK'
    BY <1>1, <2>1, <2>2, <2>4, <2>6 DEF Inv, TypeOK, disk
  <2>8. P!Tell
    BY <1>1, <1>2, <1>3, <1>4, <1>6, <2>5, <2>7, TellStep DEF Inv, disk
  <2>9. QueueInv'
    <3>1. \A c \in w : c \notin act.waiters
      BY <2>3 DEF Inv, QueueInv
    <3> QED
      BY <1>1, <1>2, <1>3, <2>1, <2>2, <2>3, <2>4, <2>5, <3>1, ProcessAssumption DEF Inv, QueueInv
  <2>10. PromiseInv'
    BY <1>1, <1>2, <1>3, <1>5, <2>1, <2>2, <2>4, <2>5 DEF Inv, PromiseInv, Working, disk
  <2>11. CountInv'
    <3>1. Askers' = Askers
      BY <2>5 DEF Askers
    <3> QED
      BY <1>1, <1>8, <2>1, <2>2, <2>4, <3>1, AskersFinite DEF Inv, CountInv, disk
  <2> QED
    BY <2>7, <2>8, <2>9, <2>10, <2>11 DEF Good, Inv, P!Next
<1> QED
  BY <1>7, <1>8 DEF Answer, mine

(* A request is dropped: a driver's lease fails everybody it would answer. *)
LEMMA CancelStep == ASSUME Inv, NEW c \in Client, Cancel(c) PROVE Good
<1> DEFINE orphans == IF queue.driver = c THEN act.waiters \cup queue.waiters ELSE {}
           pc(d) == IF d = c THEN "gone"
                    ELSE IF d \in orphans /\ client[d].pc = "waiting" THEN "refused" ELSE client[d].pc
<1>1. /\ act \in Act /\ queue \in Queue /\ client \in [Client -> Caller] /\ minted \in Nat
      /\ client[c].pc \in {"asking", "waiting", "driving"} /\ faults' = faults + 1
      /\ UNCHANGED <<disk, runtime, gc, owed, up, crashes, stray, lived>>
  BY GenType DEF Inv, TypeOK, Cancel, Fault
<1>2. up /\ act.by # Boot /\ act.waiters \subseteq Client /\ queue.waiters \subseteq Client
  BY <1>1 DEF Inv, QueueInv, Act, Queue
<1>3. client' = [d \in Client |-> [client[d] EXCEPT !.pc = pc(d)]]
  BY DEF Cancel
<1>4. client' \in [Client -> Caller]
  BY <1>1, <1>3 DEF Caller
<1>5. \A d \in Client : /\ client'[d].seen = client[d].seen /\ client'[d].kind = client[d].kind
                        /\ client'[d].pc = pc(d)
  BY <1>1, <1>3 DEF Caller
<1>6. Askers' = Askers
  BY <1>5 DEF Askers
<1>7. ASSUME TypeOK' PROVE P!Tell
  <2>1. \A d \in Client : client[d].pc = pc(d) \/ d = c
                          \/ (client[d].pc = "waiting" /\ pc(d) = "refused")
    OBVIOUS
  <2> QED
    BY <1>1, <1>5, <1>7, <2>1, TellStep DEF Inv, disk
<1>8. CASE queue.driver = c /\ queue' = NoQueue /\ act' = Idle
  <2>1. TypeOK'
    BY <1>1, <1>4, <1>8, IdleType DEF Inv, TypeOK, disk
  <2>2. \A d \in Client : client'[d].pc \notin {"driving", "waiting"}
    <3> SUFFICES ASSUME NEW d \in Client PROVE client'[d].pc \notin {"driving", "waiting"}
      OBVIOUS
    <3>1. client[d].pc = "driving" => d = c
      BY <1>8 DEF Inv, QueueInv
    <3>2. client[d].pc = "waiting" => d \in orphans
      BY <1>8 DEF Inv, QueueInv
    <3> HIDE DEF orphans
    <3> QED
      BY <1>5, <3>1, <3>2
  <2>3. QueueInv'
    <3>1. \A d \in Client : client'[d].pc = "asking" => client'[d].kind # "none"
      BY <1>5 DEF Inv, QueueInv
    <3> QED
      BY <1>1, <1>2, <1>8, <2>2, <3>1, ProcessAssumption DEF QueueInv, Idle, NoQueue
  <2>4. PromiseInv'
    BY <1>1, <1>5, <1>8 DEF Inv, PromiseInv, Idle, NoQueue, Working, disk
  <2>5. CountInv'
    BY <1>1, <1>6, <1>8, AskersFinite DEF Inv, CountInv, Idle, NoQueue, disk
  <2> QED
    BY <1>7, <2>1, <2>3, <2>4, <2>5 DEF Good, Inv, P!Next
<1>9. CASE queue.driver # c /\ queue' = queue /\ act' = [act EXCEPT !.waiters = @ \ {c}]
  <2>1. PICK a : a = [act EXCEPT !.waiters = @ \ {c}]
    OBVIOUS
  <2>2. /\ a \in Act /\ a.waiters = act.waiters \ {c} /\ a.pc = act.pc /\ a.by = act.by
        /\ a.kind = act.kind /\ a.gen = act.gen /\ a.told = act.told
    BY <1>1, <2>1 DEF Act
  <2>3. act' = a
    BY <1>9, <2>1
  <2>4. TypeOK'
    <3>1. queue' \in Queue /\ act' \in Act /\ faults' \in Nat
      BY <1>1, <1>9, <2>2, <2>3, Counters
    <3>2. UNCHANGED <<disk, runtime, gc, owed, up, crashes, stray, lived>>
      BY <1>1
    <3> QED
      BY <1>4, <3>1, <3>2 DEF Inv, TypeOK, disk
  <2>5. \A d \in Client : client'[d].pc = IF d = c THEN "gone" ELSE client[d].pc
    BY <1>5, <1>9
  <2>6. queue.driver # Nobody => queue.driver \in Client
    BY <1>1 DEF Queue
  <2>7. QueueInv'
    BY <1>1, <1>2, <1>5, <1>9, <2>2, <2>3, <2>5, <2>6 DEF Inv, QueueInv
  <2>8. PromiseInv'
    <3>1. Fresh => Fresh'
      BY <1>1, <1>5, <1>9, <2>2, <2>3 DEF Fresh
    <3>2. queue.mine = "live" => queue.driver \in Client
      BY <2>6 DEF Inv, QueueInv, NoQueue
    <3> QED
      BY <1>1, <1>5, <1>9, <2>2, <2>3, <2>5, <3>1, <3>2 DEF Inv, PromiseInv, disk
  <2>9. CountInv'
    BY <1>1, <1>6, <1>9, <2>2, <2>3 DEF Inv, CountInv, disk
  <2> QED
    BY <1>7, <2>4, <2>7, <2>8, <2>9 DEF Good, Inv, P!Next
<1> QED
  BY <1>8, <1>9 DEF Cancel

-----------------------------------------------------------------------------
(* RETENTION, CRASHES AND BOOTS *)

(* A pass works beside the activation. *)
LEMMA MaintainStep == ASSUME Inv, Maintain PROVE Good
<1>1. CASE Prune
  <2>1. row' \in [Gen -> Row]
    BY <1>1, IdleType DEF Prune, Inv, TypeOK, Row, NoRow
  <2>2. owed' \in Nat /\ gc' \in [pc : {"idle", "list", "delete"}, garbage : SUBSET Content]
    BY <1>1 DEF Prune, Inv, TypeOK
  <2>3. TypeOK'
    BY <1>1, <2>1, <2>2 DEF Inv, TypeOK, Prune
  <2> QED
    BY <1>1, <2>3, Beside DEF Prune
<1>2. CASE FindGarbage
  <2>1. gc' \in [pc : {"idle", "list", "delete"}, garbage : SUBSET Content]
    BY <1>2 DEF FindGarbage, Inv, TypeOK
  <2>2. TypeOK'
    BY <1>2, <2>1 DEF Inv, TypeOK, FindGarbage, disk
  <2> QED
    BY <1>2, <2>2, Beside DEF FindGarbage, disk
<1>3. CASE Collect
  <2>1. gc' \in [pc : {"idle", "list", "delete"}, garbage : SUBSET Content]
    BY <1>3 DEF Collect, Rest
  <2>2. TypeOK'
    BY <1>3, <2>1 DEF Inv, TypeOK, Collect
  <2> QED
    BY <1>3, <2>2, Beside DEF Collect
<1> QED
  BY <1>1, <1>2, <1>3 DEF Maintain

(* The process dies, and with it the queue and every request. *)
LEMMA CrashStep == ASSUME Inv, Crash PROVE Good
<1> DEFINE pc(c) == IF client[c].pc \in {"asking", "waiting", "driving"} THEN "gone" ELSE client[c].pc
<1>1. /\ client \in [Client -> Caller] /\ minted \in Nat /\ up' = FALSE /\ crashes' = crashes + 1
      /\ queue' = NoQueue /\ act' = Idle /\ gc' = Rest /\ owed' = 0
      /\ runtime' = [now |-> {}, before |-> {}]
      /\ client' = [c \in Client |-> [client[c] EXCEPT !.pc = pc(c)]]
      /\ UNCHANGED <<disk, faults, lived>>
  BY GenType DEF Inv, TypeOK, Crash
<1>2. client' \in [Client -> Caller]
  BY <1>1 DEF Caller
<1>3. \A c \in Client : client'[c].seen = client[c].seen /\ client'[c].pc = pc(c)
                        /\ client'[c].kind = client[c].kind
  BY <1>1 DEF Caller
<1>4. TypeOK'
  <2>1. /\ queue' \in Queue /\ act' \in Act /\ crashes' \in Nat /\ owed' \in Nat /\ up' \in BOOLEAN
        /\ gc' \in [pc : {"idle", "list", "delete"}, garbage : SUBSET Content]
        /\ runtime' \in [now : SUBSET Block, before : SUBSET Block]
    BY <1>1, IdleType, Counters DEF Rest
  <2>2. UNCHANGED <<disk, faults, lived>>
    BY <1>1
  <2>3. stray' \in BOOLEAN
    BY DEF Inv, TypeOK, Crash
  <2> QED
    BY <1>2, <2>1, <2>2, <2>3 DEF Inv, TypeOK, disk
<1>5. P!Tell
  BY <1>1, <1>3, <1>4, TellStep DEF Inv, disk
<1>6. QueueInv'
  <2>1. \A c \in Client : client'[c].pc \notin {"asking", "waiting", "driving"}
    BY <1>3
  <2>2. queue' = NoQueue /\ act' = Idle /\ up' = FALSE
    BY <1>1
  <2> QED
    BY <2>1, <2>2, ProcessAssumption DEF QueueInv, Idle, NoQueue
<1>7. PromiseInv'
  BY <1>1, <1>3 DEF Inv, PromiseInv, Idle, NoQueue, Working, disk
<1>8. CountInv'
  <2>1. Askers' = Askers
    BY <1>3 DEF Askers
  <2> QED
    BY <1>1, <2>1, AskersFinite DEF Inv, CountInv, Idle, NoQueue, disk
<1> QED
  BY <1>4, <1>5, <1>6, <1>7, <1>8 DEF Good, Inv, P!Next

(* The boot takes up the generation that the journal names, or none. *)
LEMMA ConvergeStep == ASSUME Inv, Converge PROVE Good
<1> DEFINE desired == journal.desired
           base == IF Kept(journal.active) THEN journal.active ELSE None
           boot == [Idle EXCEPT !.by = Boot, !.kind = "boot", !.base = base,
                                !.old = Manifest(base).site, !.oldBlocks = Manifest(base).blocks]
<1>1. /\ ~up /\ act.pc = "idle" /\ minted \in Nat /\ lived \in Nat
      /\ journal' = [journal EXCEPT !.active = base] /\ stray' = (stray \/ base # journal.active)
      /\ row' = [g \in Gen |-> IF row[g].status = "inflight" /\ g # desired
                               THEN [row[g] EXCEPT !.status = "failed"] ELSE row[g]]
      /\ UNCHANGED <<work, blobs, minted, folder, runtime, queue, client, gc, owed, up,
                     crashes, faults, lived>>
  BY GenType DEF Inv, TypeOK, Converge
<1>2. base \in {None} \cup Gen /\ desired \in {None} \cup Gen
  BY DEF Kept, Inv, TypeOK
<1>3. Manifest(base) \in Row
  BY <1>2, IdleType DEF Manifest, Inv, TypeOK, NoRow, Row
<1>4. Manifest(base).site \in Site /\ Manifest(base).blocks \in SUBSET Block
  BY <1>3 DEF Row
<1>5. row' \in [Gen -> Row] /\ journal' \in [active : {None} \cup Gen, desired : {None} \cup Gen]
      /\ journal'.desired = desired
  BY <1>1, <1>2 DEF Inv, TypeOK, Row
<1> HIDE DEF base
<1>6. boot \in Act /\ boot.by = Boot /\ boot.kind = "boot" /\ boot.waiters = {}
  BY <1>2, <1>4, IdleType DEF Act, Idle
<1>7. PICK a : a = act'
  OBVIOUS
<1>8. /\ a \in Act /\ a.by = Boot /\ a.kind = "boot" /\ a.waiters = {}
      /\ a.pc \in {"bootup", "reboot"} \/ (a.pc = "journal" /\ a.gen = desired /\ desired # None)
  <2> HIDE DEF boot
  <2>1. CASE a = [boot EXCEPT !.pc = "bootup"]
    BY <1>6, <2>1 DEF Act
  <2>2. CASE /\ Kept(desired)
             /\ a = [boot EXCEPT !.pc = "journal", !.gen = desired, !.site = row[desired].site,
                                 !.blocks = row[desired].blocks]
    <3>1. desired \in Gen /\ desired # None
      BY <2>2, GenType DEF Kept
    <3>2. row[desired].site \in Site /\ row[desired].blocks \in SUBSET Block
      BY <3>1 DEF Inv, TypeOK, Row
    <3> QED
      BY <1>6, <2>2, <3>1, <3>2 DEF Act
  <2>3. CASE a = Return(boot, "refused")
    BY <1>6, <2>3, ReturnIs DEF Same
  <2> QED
    BY <1>7, <2>1, <2>2, <2>3 DEF Converge, boot, base
<1>9. TypeOK'
  BY <1>1, <1>5, <1>7, <1>8 DEF Inv, TypeOK
<1>10. queue = NoQueue /\ queue.waiters = {}
  BY <1>1 DEF Inv, QueueInv, NoQueue
<1>11. QueueInv'
  BY <1>1, <1>7, <1>8, <1>10, ProcessAssumption DEF Inv, QueueInv, NoQueue
<1>12. PromiseInv'
  <2>1. Fresh'
    BY <1>1, <1>7, <1>8, <1>10, ProcessAssumption DEF Fresh, NoQueue
  <2> QED
    BY <1>1, <1>5, <1>7, <1>8, <1>10, <2>1 DEF Inv, PromiseInv, NoQueue, Working
<1>13. CountInv'
  BY <1>1, <1>7, <1>8, <1>10 DEF Inv, CountInv, Askers
<1> QED
  BY <1>1, <1>9, <1>11, <1>12, <1>13, Unseen DEF Good, Inv

(* The boot ends. *)
LEMMA BootUpStep == ASSUME Inv, BootUp PROVE Good
<1>1. act.by = Boot
  BY DEF Inv, QueueInv, BootUp
<1>2. Manifest(journal.active) \in Row
  BY IdleType DEF Manifest, Inv, TypeOK, NoRow, Row
<1>3. runtime' \in [now : SUBSET Block, before : SUBSET Block]
  <2>1. Manifest(journal.active).blocks \in SUBSET Block /\ runtime.now \in SUBSET Block
    BY <1>2 DEF Row, Inv, TypeOK
  <2> QED
    BY <2>1 DEF Inv, TypeOK, BootUp
<1>6. faults' \in Nat /\ stray' \in BOOLEAN
  <2>1. stray' \in BOOLEAN
    BY DEF Inv, TypeOK, BootUp
  <2> QED
    BY <2>1, Counters DEF BootUp, Fault
<1>4. /\ journal' \in [active : {None} \cup Gen, desired : {None} \cup Gen]
      /\ journal'.desired \in {journal.desired, None}
  BY DEF Inv, TypeOK, BootUp
<1>5. TypeOK'
  BY <1>3, <1>4, <1>6, IdleType DEF Inv, TypeOK, BootUp
<1> QED
  BY <1>1, <1>4, <1>5, BootEnds DEF BootUp

-----------------------------------------------------------------------------
(* THE THEOREMS *)

(* A seeded instance satisfies the invariant, and is an initial state of    *)
(* Publication.                                                             *)
LEMMA Start == ASSUME Init PROVE Inv /\ P!Init
<1>1. TypeOK
  <2>1. Seeded \in Site /\ Named(Seeded) \subseteq Content
    BY SiteAssumption DEF Site, Named
  <2>2. row \in [Gen -> Row]
    BY <2>1, IdleType DEF Init, Row, NoRow
  <2>3. client \in [Client -> Caller]
    BY IdleType DEF Init, Caller
  <2> QED
    <3>1. work \in Site /\ folder \in Site /\ blobs \subseteq Content
      BY <2>1 DEF Init
    <3>2. journal \in [active : {None} \cup Gen, desired : {None} \cup Gen] /\ minted \in Gen
      <4>1. journal = [active |-> 1, desired |-> None] /\ minted = 1
        BY DEF Init
      <4>2. 1 \in Gen
        BY GenType
      <4> QED
        BY <4>1, <4>2
    <3>3. /\ runtime \in [now : SUBSET Block, before : SUBSET Block]
          /\ gc \in [pc : {"idle", "list", "delete"}, garbage : SUBSET Content]
      BY DEF Init, Rest
    <3>4. lived \in 1 .. minted /\ owed \in Nat /\ crashes \in Nat /\ faults \in Nat
          /\ up \in BOOLEAN /\ stray \in BOOLEAN
      <4>1. lived = 1 /\ minted = 1 /\ owed = 0 /\ crashes = 0 /\ faults = 0
        BY DEF Init
      <4>2. up \in BOOLEAN /\ stray \in BOOLEAN
        BY DEF Init
      <4>3. lived \in 1 .. minted /\ owed \in Nat /\ crashes \in Nat /\ faults \in Nat
        BY <4>1
      <4> QED
        BY <4>2, <4>3
    <3>5. queue \in Queue /\ act \in Act
      BY IdleType DEF Init
    <3> QED
      BY <2>2, <2>3, <3>1, <3>2, <3>3, <3>4, <3>5 DEF TypeOK
<1>2. \A c \in Client : client[c].pc = "new" /\ client[c].seen = 0
  BY DEF Init
<1>3. queue = NoQueue /\ act = Idle /\ up /\ minted = 1 /\ lived = 1 /\ journal.desired = None
  BY DEF Init
<1>4. QueueInv
  BY <1>2, <1>3, ProcessAssumption DEF QueueInv, NoQueue, Idle
<1>5. PromiseInv
  BY <1>2, <1>3 DEF PromiseInv, NoQueue, Idle, Working
<1>6. CountInv
  <2>1. Askers = {}
    BY <1>2 DEF Askers
  <2> QED
    BY <1>3, <2>1, FS_EmptySet DEF CountInv, NoQueue, Idle
<1>7. P!Init
  BY <1>2, <1>3 DEF P!Init, Told
<1> QED
  BY <1>1, <1>4, <1>5, <1>6, <1>7 DEF Inv

(* Every step keeps the invariant, and is a step of Publication or none. *)
LEMMA Step == ASSUME Inv, [Next]_vars PROVE Good
<1>1. ASSUME NEW c \in Client, Request(c) PROVE Good
  BY <1>1, WriteStep, WantBlocksStep, WantRollbackStep, DeleteSourceStep DEF Request
<1>2. CASE Drive
  BY <1>2, StageStep, JournalStep, ValidateStep, RebuildStep, AbandonStep, CloseStep, ActivateStep,
     SupersedeStep, CommitStep, RereadStep, AdoptStep, AnswerStep, PutFileStep, PublishFailsStep DEF Drive
<1>3. ASSUME UNCHANGED vars PROVE Good
  <2>1. TypeOK'
    BY <1>3 DEF Inv, TypeOK, vars
  <2> QED
    BY <1>3, <2>1, Beside DEF vars
<1>4. CASE Finished
  BY <1>3, <1>4 DEF Finished
<1> QED
  BY <1>1, <1>2, <1>3, <1>4, EnterStep, CancelStep, CallFailsStep, MaintainStep, CrashStep,
     ConvergeStep, BootUpStep DEF Next

(* The inductive invariant of the queue and of what callers are told. *)
THEOREM SandboxInvariant == Spec => []Inv
<1>1. Init => Inv
  BY Start
<1>2. Inv /\ [Next]_vars => Inv'
  BY Step DEF Good
<1> QED
  BY <1>1, <1>2, PTL DEF Spec

(* Types of what is stored and of what runs; in particular no generation is *)
(* composed that no request asked for.                                      *)
THEOREM TypeCorrect == Spec => []TypeOK
<1>1. Inv => TypeOK
  BY DEF Inv
<1> QED
  BY <1>1, SandboxInvariant, PTL

(* QueueLease: a caller that waits is in the hands of a driver that lives   *)
(* and will answer it.                                                      *)
THEOREM NobodyStrandedAlways == Spec => []NobodyStranded
<1>1. Inv => NobodyStranded
  <2> SUFFICES ASSUME Inv, NEW c \in Client, client[c].pc = "waiting"
               PROVE  /\ c \in queue.waiters \cup act.waiters
                      /\ queue.driver \in Client /\ act.by = queue.driver
                      /\ client[queue.driver].pc = "driving"
    BY DEF NobodyStranded
  <2>1. c \in queue.waiters \cup act.waiters
    BY DEF Inv, QueueInv
  <2>2. queue.driver # Nobody
    <3> SUFFICES ASSUME queue.driver = Nobody PROVE FALSE
      OBVIOUS
    <3>1. c \in act.waiters
      BY <2>1 DEF Inv, QueueInv, NoQueue
    <3>2. act.by \in {Nobody, Boot}
      BY DEF Inv, QueueInv
    <3> QED
      BY <3>1, <3>2, ProcessAssumption DEF Inv, QueueInv
  <2>3. queue.driver \in Client
    BY <2>2 DEF Inv, TypeOK, Queue
  <2> QED
    BY <2>1, <2>2, <2>3 DEF Inv, QueueInv
<1> QED
  BY <1>1, SandboxInvariant, PTL

(* activation.rs implements Publication: whatever is coalesced, dropped,    *)
(* fails or dies, generations go live in the order they were composed, and  *)
(* a caller is told "live" only when a generation composed after it asked   *)
(* went live.                                                               *)
THEOREM PromiseKept == Spec => KeepsPromise
<1>1. Init => P!Init
  BY Start
<1>2. Inv /\ [Next]_vars => [P!Next]_(P!promise)
  BY Step DEF Good, promised, P!promise
<1> QED
  BY <1>1, <1>2, SandboxInvariant, PTL DEF Spec, KeepsPromise, P!Spec
=============================================================================

-------------------------- MODULE SandboxStoreProofs --------------------------
(***************************************************************************)
(* What the dev sandbox serves and stores, for any requests, sites,        *)
(* windows and bounds: at rest one generation is active and exactly its    *)
(* site and blocks are served, the entrypoint is published last, and no    *)
(* collection deletes what can still be asked for.                         *)
(***************************************************************************)
EXTENDS SandboxProofs, WellFoundedInduction

-----------------------------------------------------------------------------
(* THE INVARIANT *)

(* The journal names the generation the activation works on. *)
Journalled == Working \ {"journal"}

(* The ledger. *)
RowInv ==
  /\ \A g \in Gen : g > minted => row[g] = NoRow
  /\ \A g \in Gen : row[g].status = "superseded" => g <= lived
  /\ journal.active \in {None, lived}
  /\ Kept(journal.active) => row[journal.active].status \in {"active", "superseded"}
  /\ ~stray => journal.active # None
  /\ ~up /\ act.pc # "reread" => gc.pc = "idle" /\ owed = 0

(* What the activation remembers is what the ledger and the journal say,    *)
(* but for a boot that could not read the row it had committed.             *)
ActInv ==
  /\ act.pc \in Working \/ (act.pc = "reboot" /\ ~stray) =>
       /\ act.base = journal.active
       /\ Kept(act.base) => act.old = row[act.base].site /\ act.oldBlocks = row[act.base].blocks
  /\ act.pc \in Journalled => journal.desired = act.gen
  /\ act.pc = "journal" => (journal.desired = act.gen <=> act.by = Boot)
  /\ act.pc \in {"reread", "adopt"} => journal.desired = None
  /\ act.pc \in Working \cup {"reread", "adopt"} =>
       /\ act.gen \in Gen
       /\ act.by # Boot => act.gen = minted
       /\ Kept(act.gen) => row[act.gen].site = act.site /\ row[act.gen].blocks = act.blocks
  /\ act.pc = "journal" => Kept(act.gen) /\ (act.by # Boot => row[act.gen].status = "inflight")
  /\ act.pc \in {"validate", "build", "publish", "restore", "abandon", "activate"} =>
       row[act.gen].status = "inflight"
  /\ act.pc = "close" => row[act.gen].status \in {"failed", "none"}
  /\ act.pc \in {"supersede", "commit", "reread", "adopt"} => row[act.gen].status = "active"
  /\ act.pc = "commit" /\ act.base # None => row[act.base].status # "active"
  /\ act.pc \in {"reboot", "bootup"} /\ act.gen = None =>
       journal.desired = None \/ ~Kept(journal.desired)
  /\ act.pc \in {"stage", "journal", "validate", "build"} => ~act.rebuilt

(* No row is active but the ones the journal names. *)
OneInv == ~stray => \A g \in Gen : row[g].status = "active" => g \in {journal.active, journal.desired}

(* The generation that the journal owes a recovery can be pruned. *)
GivenUp == ~Kept(journal.desired)
           \/ (row[journal.desired].status = "failed" /\ (up \/ act.pc = "bootup"))

(* What is served, at rest or under a journal that owes a recovery. *)
ServedInv ==
  ~stray /\ Kept(journal.active) =>
    /\ journal.desired = None /\ act.pc # "reboot" => folder = row[journal.active].site
    /\ journal.desired = None /\ up => runtime.now = row[journal.active].blocks
    /\ journal.desired # None /\ GivenUp => folder = row[journal.active].site
    /\ journal.desired # None /\ Kept(journal.desired) =>
         \A p \in Path : folder[p] \in {row[journal.active].site[p], row[journal.desired].site[p]}
    /\ act.pc = "bootup" => folder = row[journal.active].site

(* A request starts from what it replaces, a boot from a mix of both. *)
Unpublished == (act.pc = "journal" /\ journal.desired = None)
               \/ act.pc \in {"validate", "build", "abandon", "close"}

(* What is out while an activation runs. *)
OutInv ==
  ~stray =>
    /\ act.pc \in Working /\ act.by = Boot =>
         \A p \in Path : folder[p] \in {act.old[p], act.site[p]}
    /\ act.by # Boot =>
         /\ Unpublished => folder = act.old /\ runtime.now = act.oldBlocks
         /\ act.pc = "publish" => \A p \in act.todo : folder[p] = act.old[p]
         /\ act.pc = "publish" /\ act.rebuilt => runtime.before = act.oldBlocks
         /\ act.pc = "publish" /\ ~act.rebuilt => act.blocks = act.oldBlocks
         /\ act.pc \in {"publish", "activate", "supersede", "commit"} => runtime.now = act.blocks
         /\ act.pc = "restore" => runtime.now = act.oldBlocks
    /\ act.pc = "publish" => \A p \in Path \ act.todo : folder[p] = act.site[p]
    /\ act.pc = "restore" => \A p \in act.todo : folder[p] \in {act.old[p], act.site[p]}
    /\ act.pc \in {"restore", "reboot"} => \A p \in Path \ act.todo : folder[p] = act.old[p]
    /\ act.pc \in {"activate", "supersede", "commit"} => folder = act.site

(* A changed entrypoint is out only when everything is. *)
EntryInv == act.pc = "publish" /\ act.site[Entry] \notin {act.old[Entry], Absent} => Entry \in act.todo

(* What is published has been found to be stored, or was read from the      *)
(* workspace.                                                               *)
Secured == act.pc \in {"build", "publish", "activate"}
           \/ (act.pc \in {"journal", "validate"} /\ act.by # Boot /\ act.kind # "rollback")

(* What is stored, and what a collection that has listed its garbage will   *)
(* not delete.                                                              *)
StoreInv ==
  /\ \A g \in Rows : InWindow(g) /\ row[g].status \in {"active", "superseded"}
                    => Named(row[g].site) \subseteq blobs
  /\ Named(work) \subseteq blobs
  /\ Secured => Named(act.site) \subseteq blobs
  /\ gc.pc = "delete" =>
       /\ Named(work) \cap gc.garbage = {}
       /\ \A g \in Rows : InWindow(g) \/ row[g].status = "inflight"
                         => Named(row[g].site) \cap gc.garbage = {}

Held == RowInv /\ ActInv /\ OneInv /\ ServedInv /\ OutInv /\ EntryInv /\ StoreInv

Whole == Inv /\ Held

-----------------------------------------------------------------------------
(* THE FRAMES *)

(* The window moves only when a row is inserted or pruned. *)
LEMMA WindowSame ==
  ASSUME \A g \in Gen : row'[g].status = "none" <=> row[g].status = "none"
  PROVE  Rows' = Rows /\ \A g \in Gen : InWindow(g)' = InWindow(g)
<1>1. Rows' = Rows
  BY DEF Rows, Kept
<1> QED
  BY <1>1 DEF InWindow

(* The ledger, the journal and the collector are left alone. *)
LEMMA RowFrame ==
  ASSUME Whole, UNCHANGED <<row, minted, lived, journal, stray, up, gc, owed>>, act.pc # "reread"
  PROVE  RowInv' /\ OneInv'
  BY DEF Whole, Held, RowInv, OneInv, Kept

(* What is served is left alone. *)
LEMMA ServedFrame ==
  ASSUME Whole, UNCHANGED <<row, journal, folder, stray, up>>, act.pc # "reboot",
         up /\ journal.desired = None => runtime'.now = runtime.now,
         act'.pc = "bootup" /\ ~stray /\ Kept(journal.active) => folder = row[journal.active].site
  PROVE  ServedInv'
  BY DEF Whole, Held, ServedInv, Kept, GivenUp

(* What is stored is left alone, and rows keep what they name. *)
LEMMA StoreFrame ==
  ASSUME Whole, UNCHANGED <<work, blobs, gc>>,
         \A g \in Gen : /\ row'[g].status = "none" <=> row[g].status = "none"
                        /\ row'[g].site = row[g].site
                        /\ row'[g].status \in {"active", "superseded"}
                           => \/ row[g].status \in {"active", "superseded"}
                              \/ Named(row[g].site) \subseteq blobs
                        /\ gc.pc = "delete" /\ row'[g].status = "inflight" => row[g].status = "inflight",
         Secured' => Named(act'.site) \subseteq blobs
  PROVE  StoreInv'
<1>1. Rows' = Rows /\ \A g \in Gen : InWindow(g)' = InWindow(g)
  BY WindowSame
<1>2. Rows \subseteq Gen
  BY DEF Rows
<1>3. ASSUME NEW g \in Rows', InWindow(g)', row'[g].status \in {"active", "superseded"}
      PROVE  Named(row[g].site)  \subseteq blobs
  BY <1>1, <1>2, <1>3 DEF Whole, Held, StoreInv
<1>4. ASSUME gc.pc = "delete", NEW g \in Rows', InWindow(g)' \/ row'[g].status = "inflight"
      PROVE  Named(row[g].site) \cap gc.garbage = {}
  BY <1>1, <1>2, <1>4 DEF Whole, Held, StoreInv
<1>5. \A g \in Rows : Named(row'[g].site) = Named(row[g].site)
  BY <1>2
<1>6. Named(work) \subseteq blobs /\ (gc.pc = "delete" => Named(work) \cap gc.garbage = {})
  BY DEF Whole, Held, StoreInv
<1>7. Named(work)' = Named(work) /\ Named(act.site)' = Named(act'.site)
  BY DEF Named
<1> QED
  BY <1>1, <1>3, <1>4, <1>5, <1>6, <1>7 DEF StoreInv

(* Two activations differ in whom they will answer at most. *)
Alike(a, b) ==
  /\ b.pc = a.pc /\ b.by = a.by /\ b.kind = a.kind /\ b.gen = a.gen /\ b.base = a.base
  /\ b.site = a.site /\ b.blocks = a.blocks /\ b.old = a.old /\ b.oldBlocks = a.oldBlocks
  /\ b.rebuilt = a.rebuilt /\ b.todo = a.todo

(* Requests come and go beside the activation, start one or drop it. *)
LEMMA Quiet ==
  ASSUME Whole, up, UNCHANGED <<row, minted, lived, journal, folder, runtime, stray, up, gc>>,
         blobs \subseteq blobs', Named(work)' \subseteq blobs', gc.pc = "delete" => UNCHANGED work,
         NEW a, act' = a, Alike(act, a) \/ (a.pc \in {"idle", "stage"} /\ ~a.rebuilt)
  PROVE  Held'
<1>1. act.pc \notin {"reboot", "bootup"}
  BY DEF Whole, Inv, QueueInv
<1>2. RowInv' /\ OneInv'
  BY DEF Whole, Held, RowInv, OneInv, Kept
<1>3. ServedInv'
  BY <1>1, ServedFrame DEF Alike
<1>4. ActInv'
  <2>1. CASE Alike(act, a)
    BY <2>1 DEF Whole, Held, ActInv, Kept, Alike
  <2>2. CASE a.pc \in {"idle", "stage"} /\ ~a.rebuilt
    BY <2>2 DEF ActInv, Working, Journalled
  <2> QED
    BY <2>1, <2>2
<1>5. OutInv' /\ EntryInv'
  <2>1. CASE Alike(act, a)
    BY <2>1 DEF Whole, Held, OutInv, Unpublished, EntryInv, Alike
  <2>2. CASE a.pc \in {"idle", "stage"}
    BY <2>2 DEF OutInv, Unpublished, EntryInv, Working
  <2> QED
    BY <2>1, <2>2
<1>6. StoreInv'
  <2>1. Rows' = Rows /\ \A g \in Gen : InWindow(g)' = InWindow(g)
    BY WindowSame
  <2>2. Secured' => Named(a.site) \subseteq blobs
    <3>1. CASE Alike(act, a)
      BY <3>1 DEF Whole, Held, StoreInv, Secured, Alike
    <3>2. CASE a.pc \in {"idle", "stage"}
      BY <3>2 DEF Secured
    <3> QED
      BY <3>1, <3>2
  <2>3. \A g \in Rows : /\ InWindow(g) /\ row[g].status \in {"active", "superseded"}
                            => Named(row[g].site) \subseteq blobs
                        /\ gc.pc = "delete" /\ (InWindow(g) \/ row[g].status = "inflight")
                            => Named(row[g].site) \cap gc.garbage = {}
    BY DEF Whole, Held, StoreInv
  <2>4. gc.pc = "delete" => Named(work)' \cap gc.garbage = {}
    <3>1. UNCHANGED work => Named(work)' = Named(work)
      BY DEF Named
    <3> QED
      BY <3>1 DEF Whole, Held, StoreInv
  <2>5. Rows \subseteq Gen
    BY DEF Rows
  <2>6. Named(act.site)' = Named(a.site)
    BY DEF Named
  <2>7. \A g \in Rows : Named(row[g].site)' = Named(row[g].site)
    BY DEF Named
  <2> QED
    BY <2>1, <2>2, <2>3, <2>4, <2>5, <2>6, <2>7 DEF StoreInv
<1> QED
  BY <1>2, <1>3, <1>4, <1>5, <1>6 DEF Held

(* A caller enters the queue. *)
LEMMA AdmitAct ==
  ASSUME Whole, NEW c, NEW kind, NEW site, NEW blocks, Admit(c, kind, site, blocks)
  PROVE  Alike(act, act') \/ (act'.pc \in {"idle", "stage"} /\ ~act'.rebuilt)
<1>1. CASE queue.driver = Nobody
  BY <1>1 DEF Admit, Begin, Idle
<1>2. CASE queue.driver # Nobody
  BY <1>2 DEF Admit, Alike
<1> QED
  BY <1>1, <1>2

(* A write stores the blob before the workspace names it. *)
LEMMA WriteStore == ASSUME Whole, NEW c \in Client, NEW e \in Edit, Write(c, e[1], e[2]) PROVE Held'
<1> DEFINE p == e[1]
           v == e[2]
<1>1. /\ up /\ gc.pc # "delete" /\ blobs' = blobs \cup ({v} \ {Absent})
      /\ UNCHANGED <<row, minted, journal, folder, runtime, gc, up, stray, lived>>
  BY DEF Write, WorkspaceFree
<1>2. Named(work) \subseteq blobs /\ work \in Site
  BY DEF Whole, Held, StoreInv, Inv, TypeOK
<1>3. CASE work' = [work EXCEPT ![p] = v] /\ Admit(c, "site", Empty, {})
  <2>1. Named(work)' \subseteq blobs'
    BY <1>1, <1>2, <1>3 DEF Named, Site
  <2> QED
    BY <1>1, <1>3, <2>1, AdmitAct, Quiet
<1>4. CASE work' \in {work, [work EXCEPT ![p] = v]} /\ UNCHANGED act
  <2>1. Named(work)' \subseteq blobs'
    BY <1>1, <1>2, <1>4 DEF Named, Site
  <2> QED
    BY <1>1, <1>4, <2>1, Quiet DEF Alike
<1> QED
  BY <1>3, <1>4 DEF Write

(* The requests that only read, ask or are dropped. *)
LEMMA RequestStore ==
  ASSUME Whole, NEW c \in Client,
         \/ \E b \in Block : WantBlocks(c, b)
         \/ \E g \in Gen : WantRollback(c, g)
         \/ DeleteSource(c) \/ Enter(c) \/ Cancel(c)
  PROVE  Held'
<1>1. /\ UNCHANGED <<row, minted, journal, folder, runtime, gc, up, stray, lived, work, blobs>>
      /\ client[c].pc = "new" => up
  BY DEF WantBlocks, WantRollback, DeleteSource, Enter, Cancel, disk
<1>2. up
  BY <1>1 DEF WantBlocks, WantRollback, DeleteSource, Enter, Cancel, Whole, Inv, QueueInv
<1>3. Alike(act, act') \/ (act'.pc \in {"idle", "stage"} /\ ~act'.rebuilt)
  <2>1. CASE UNCHANGED act
    BY <2>1 DEF Alike
  <2>2. CASE Enter(c)
    BY <2>2, AdmitAct DEF Enter
  <2>3. CASE Cancel(c)
    <3>1. act \in Act
      BY DEF Whole, Inv, TypeOK
    <3> QED
      BY <2>3, <3>1 DEF Cancel, Alike, Idle, Act
  <2> QED
    BY <2>1, <2>2, <2>3 DEF WantBlocks, WantRollback, DeleteSource
<1>4. Named(work)' \subseteq blobs'
  BY <1>1 DEF Named, Whole, Held, StoreInv
<1> QED
  BY <1>1, <1>2, <1>3, <1>4, Quiet

(* An activation starts afresh. *)
LEMMA BeginAct ==
  ASSUME NEW q, NEW kind, NEW site, NEW blocks, NEW waiters, Begin(q, kind, site, blocks, waiters)
  PROVE  act'.pc = "stage" /\ ~act'.rebuilt
  BY DEF Begin, Idle

(* A driver goes on with what is pending, or is released. *)
LEMMA AnswerStore == ASSUME Whole, Answer PROVE Held'
<1>1. /\ UNCHANGED <<row, minted, journal, folder, runtime, gc, up, stray, lived, work, blobs>>
  BY DEF Answer, disk
<1>2. up
  BY DEF Answer, Whole, Inv, QueueInv
<1>3. act'.pc \in {"idle", "stage"} /\ ~act'.rebuilt
  <2>1. CASE act' = Idle
    BY <2>1 DEF Idle
  <2> QED
    BY <2>1, BeginAct DEF Answer
<1>4. Named(work)' \subseteq blobs'
  BY <1>1 DEF Named, Whole, Held, StoreInv
<1> QED
  BY <1>1, <1>2, <1>3, <1>4, Quiet

-----------------------------------------------------------------------------
(* RETENTION AND COLLECTION *)

(* A set of naturals has a least element. *)
LEMMA Least == ASSUME NEW T \in SUBSET Nat, T # {} PROVE \E x \in T : \A y \in T : x <= y
<1>1. PICK x \in T : \A y \in T : ~(<<y, x>> \in OpToRel(<, Nat))
  BY NatLessThanWellFounded, WFMin
<1>2. \A y \in T : ~(y < x)
  BY <1>1, Zenon DEF OpToRel
<1> QED
  BY <1>2

(* A set of generations has a newest. *)
LEMMA Newest == ASSUME NEW T \in SUBSET Gen, T # {} PROVE \E x \in T : \A y \in T : y <= x
<1> DEFINE N == Cardinality(Client) + 1
           U == {N - t : t \in T}
<1>1. N \in Nat /\ Gen = 1 .. N
  BY GenType DEF Gen
<1> HIDE DEF N
<1>2. U \in SUBSET Nat
  BY <1>1
<1>3. U # {}
  <2>1. PICK t \in T : TRUE
    OBVIOUS
  <2>2. N - t \in U
    BY <2>1
  <2> QED
    BY <2>2
<1>4. PICK x \in U : \A y \in U : x <= y
  BY <1>2, <1>3, Least
<1>5. PICK t \in T : x = N - t
  BY <1>4
<1>6. ASSUME NEW y \in T PROVE y <= t
  <2>1. N - y \in U
    OBVIOUS
  <2>2. N - t <= N - y /\ t \in 1 .. N /\ y \in 1 .. N
    BY <1>1, <1>4, <1>5, <2>1
  <2> QED
    BY <1>1, <2>2
<1> QED
  BY <1>6

(* The rows are a finite set. *)
LEMMA RowsFinite == IsFiniteSet(Rows) /\ IsFiniteSet(Rows') /\ Rows \subseteq Gen /\ Rows' \subseteq Gen
<1>1. IsFiniteSet(Gen)
  BY GenType, FS_Interval DEF Gen
<1>2. Rows \subseteq Gen /\ Rows' \subseteq Gen
  BY DEF Rows
<1> QED
  BY <1>1, <1>2, FS_Subset

(* What is newer than a generation in a smaller ledger is no more. *)
LEMMA Fewer ==
  ASSUME NEW S, NEW T, IsFiniteSet(T), S \subseteq T, Cardinality(T) < Window
  PROVE  Cardinality(S) < Window
<1>1. IsFiniteSet(S) /\ Cardinality(S) <= Cardinality(T)
  BY FS_Subset
<1>2. Cardinality(S) \in Nat /\ Cardinality(T) \in Nat
  BY <1>1, FS_CardinalityType
<1> QED
  BY <1>1, <1>2, BoundAssumption

(* Pruning lets no generation into the window. *)
LEMMA PruneWindow ==
  ASSUME Prune, NEW g \in Gen, InWindow(g)'
  PROVE  InWindow(g)
<1> DEFINE cut == {h \in Rows : h > g /\ h \notin Rows'}
<1>1. Rows' = {h \in Rows : InWindow(h) \/ row[h].status \in {"active", "inflight"}}
  BY DEF Prune, Rows, Kept, NoRow
<1>2. Cardinality({h \in Rows' : h > g}) < Window
  BY DEF InWindow
<1>3. CASE cut = {}
  <2>1. {h \in Rows : h > g} = {h \in Rows' : h > g}
    BY <1>1, <1>3
  <2> QED
    BY <1>2, <2>1 DEF InWindow
<1>4. CASE cut # {}
  <2>1. cut \subseteq Gen
    BY RowsFinite
  <2>2. PICK x \in cut : \A y \in cut : y <= x
    BY <1>4, <2>1, Newest
  <2>3. x \in Nat /\ g \in Nat /\ x > g
    BY <2>1, <2>2, GenType
  <2>4. {h \in Rows : h > x} \subseteq {h \in Rows' : h > g}
    <3> SUFFICES ASSUME NEW h \in Rows, h > x PROVE h \in Rows' /\ h > g
      OBVIOUS
    <3>1. h \in Nat
      BY RowsFinite, GenType
    <3>2. h > g /\ ~(h <= x)
      BY <2>3, <3>1
    <3> QED
      BY <2>2, <3>2
  <2>5. IsFiniteSet({h \in Rows' : h > g})
    BY RowsFinite, FS_Subset
  <2>6. InWindow(x)
    BY <1>2, <2>4, <2>5, Fewer DEF InWindow
  <2> QED
    BY <1>1, <2>2, <2>6
<1> QED
  BY <1>3, <1>4

(* Retention prunes what is neither active nor in flight. *)
LEMMA PruneStore == ASSUME Whole, Prune PROVE Held'
<1>1. /\ gc.pc = "idle" /\ owed > 0 /\ gc'.pc = "list"
      /\ UNCHANGED <<work, blobs, minted, journal, folder, runtime, act, up, stray, lived>>
  BY DEF Prune, Whole, Inv, TypeOK
<1>2. \A g \in Gen : \/ row'[g] = row[g]
                     \/ row'[g] = NoRow /\ row[g].status \in {"superseded", "failed"}
  BY DEF Prune, Whole, Inv, TypeOK, Row, Kept
<1>3. \A g \in Gen : \/ row'[g] = row[g]
                     \/ row'[g].status = "none" /\ row[g].status \in {"superseded", "failed"}
  BY <1>2 DEF NoRow
<1>4. up \/ (act.pc = "reread" /\ journal.desired = None)
  BY <1>1 DEF Whole, Held, RowInv, ActInv
<1>5. RowInv'
  <2>1. \A g \in Gen : g > minted => row[g] = NoRow /\ row[g].status = "none"
    BY DEF Whole, Held, RowInv, NoRow
  <2> QED
    BY <1>1, <1>3, <1>4, <2>1 DEF Whole, Held, RowInv, Kept
<1>6. ActInv'
  <2>1. act.gen \in {None} \cup Gen /\ act.base \in {None} \cup Gen /\ None \notin Gen
    BY GenType DEF Whole, Inv, TypeOK, Act
  <2>2. act.pc = "journal" => act.by # Boot
    BY <1>4 DEF Whole, Inv, QueueInv
  <2>3. \A g \in Gen : /\ Kept(g)' => Kept(g) /\ row'[g] = row[g]
                       /\ row[g].status \in {"active", "inflight"} => row'[g] = row[g]
                       /\ row[g].status \in {"failed", "none"} => row'[g].status \in {"failed", "none"}
                       /\ row'[g].status = "active" => row[g].status = "active"
    BY <1>3 DEF Kept
  <2>4. \A g \in Gen : row[g].status = "inflight" => Kept(g)'
    BY <2>3 DEF Kept
  <2>5. \A g : Kept(g)' => g \in Gen
    BY DEF Kept
  <2> QED
    BY <1>1, <2>1, <2>2, <2>3, <2>4, <2>5 DEF Whole, Held, ActInv, Journalled, Working
<1>7. OneInv'
  BY <1>1, <1>3 DEF Whole, Held, OneInv
<1>8. ServedInv'
  <2>1. journal.desired \in {None} \cup Gen
    BY DEF Whole, Inv, TypeOK
  <2>2. journal.desired # None /\ row[journal.desired].status = "superseded" => FALSE
    <3>1. journal.desired # None => lived < journal.desired
      BY DEF Whole, Inv, PromiseInv
    <3>2. lived \in Nat /\ journal.desired \in Nat
      BY <2>1, GenNat DEF Whole, Inv, TypeOK
    <3> QED
      BY <2>1, <3>1, <3>2 DEF Whole, Held, RowInv
  <2> QED
    BY <1>1, <1>3, <1>4, <2>1, <2>2 DEF Whole, Held, ServedInv, Kept, GivenUp
<1>9. OutInv' /\ EntryInv'
  BY <1>1 DEF Whole, Held, OutInv, Unpublished, EntryInv
<1>10. StoreInv'
  <2>1. Rows' \subseteq Rows /\ Rows \subseteq Gen /\ \A g \in Rows' : row'[g] = row[g]
    BY <1>3 DEF Rows, Kept
  <2>2. \A g \in Rows' : InWindow(g)' => InWindow(g)
    BY <2>1, PruneWindow
  <2>3. Named(work)' = Named(work) /\ Named(act.site)' = Named(act.site) /\ (Secured' <=> Secured)
    BY <1>1 DEF Named, Secured
  <2>4. \A g \in Rows' : Named(row[g].site)' = Named(row[g].site)
    BY <2>1 DEF Named
  <2> QED
    BY <1>1, <2>1, <2>2, <2>3, <2>4 DEF Whole, Held, StoreInv
<1> QED
  BY <1>5, <1>6, <1>7, <1>8, <1>9, <1>10 DEF Held

(* A collection touches nothing but blobs. *)
LEMMA CollectorFrame ==
  ASSUME Whole, gc.pc # "idle",
         UNCHANGED <<row, minted, lived, journal, folder, runtime, act, up, stray, work>>
  PROVE  RowInv' /\ ActInv' /\ OneInv' /\ ServedInv' /\ OutInv' /\ EntryInv'
<1>1. RowInv' /\ OneInv'
  BY DEF Whole, Held, RowInv, OneInv, Kept
<1>2. ActInv'
  BY DEF Whole, Held, ActInv, Kept
<1>3. ServedInv'
  BY DEF Whole, Held, ServedInv, Kept, GivenUp
<1>4. OutInv' /\ EntryInv'
  BY DEF Whole, Held, OutInv, Unpublished, EntryInv
<1> QED
  BY <1>1, <1>2, <1>3, <1>4

(* The garbage is what neither a retained row nor the workspace names. *)
LEMMA FindGarbageStore == ASSUME Whole, FindGarbage PROVE Held'
<1>1. /\ gc.pc = "list" /\ gc'.pc = "delete"
      /\ gc'.garbage = blobs \ ((UNION {Named(row[g].site) : g \in Retained}) \cup Named(work))
      /\ UNCHANGED <<row, minted, lived, journal, folder, runtime, act, up, stray, work, blobs>>
  BY DEF FindGarbage, disk
<1>2. Rows' = Rows /\ \A g \in Gen : InWindow(g)' = InWindow(g)
  BY <1>1, WindowSame
<1>3. Named(work)' = Named(work) /\ Named(act.site)' = Named(act.site) /\ (Secured' <=> Secured)
  BY <1>1 DEF Named, Secured
<1>4. \A g \in Rows : Named(row[g].site)' = Named(row[g].site)
  BY <1>1 DEF Named
<1>5. \A g \in Rows : InWindow(g) \/ row[g].status = "inflight" => g \in Retained
  BY DEF Retained
<1>6. \A g \in Retained : Named(row[g].site) \cap gc'.garbage = {}
  BY <1>1
<1>7. Named(work) \cap gc'.garbage = {}
  BY <1>1
<1>8. StoreInv'
  BY <1>1, <1>2, <1>3, <1>4, <1>5, <1>6, <1>7, RowsFinite DEF Whole, Held, StoreInv
<1> QED
  BY <1>1, <1>8, CollectorFrame DEF Held

(* The garbage is deleted. *)
LEMMA CollectStore == ASSUME Whole, Collect PROVE Held'
<1>1. /\ gc.pc = "delete" /\ gc'.pc = "idle" /\ blobs' = blobs \ gc.garbage
      /\ UNCHANGED <<row, minted, lived, journal, folder, runtime, act, up, stray, work, owed>>
  BY DEF Collect, Rest
<1>2. Rows' = Rows /\ \A g \in Gen : InWindow(g)' = InWindow(g)
  BY <1>1, WindowSame
<1>3. Named(work)' = Named(work) /\ Named(act.site)' = Named(act.site) /\ (Secured' <=> Secured)
  BY <1>1 DEF Named, Secured
<1>4. \A g \in Rows : Named(row[g].site)' = Named(row[g].site)
  BY <1>1 DEF Named
<1>5. Secured => Named(act.site) \cap gc.garbage = {}
  <2> SUFFICES ASSUME Secured PROVE Named(act.site) \cap gc.garbage = {}
    OBVIOUS
  <2>1. act.gen \in Gen /\ row[act.gen].status = "inflight"
    BY DEF Secured, Whole, Held, ActInv, Working
  <2>2. act.gen \in Rows /\ row[act.gen].site = act.site
    BY <2>1 DEF Rows, Kept, Secured, Whole, Held, ActInv, Working
  <2> QED
    BY <1>1, <2>1, <2>2 DEF Whole, Held, StoreInv
<1>6. StoreInv'
  BY <1>1, <1>2, <1>3, <1>4, <1>5, RowsFinite DEF Whole, Held, StoreInv
<1> QED
  BY <1>1, <1>6, CollectorFrame DEF Held

-----------------------------------------------------------------------------
(* CRASHES AND BOOTS *)

(* The process dies: what is stored stays, and is found by the next boot. *)
LEMMA CrashStore == ASSUME Whole, Crash PROVE Held'
<1>1. /\ up' = FALSE /\ act' = Idle /\ gc' = Rest /\ owed' = 0
      /\ stray' = (stray \/ (act.pc = "reboot" /\ journal.desired = None))
      /\ UNCHANGED <<work, blobs, row, minted, journal, folder, lived>>
  BY DEF Crash, disk
<1>2. act'.pc = "idle" /\ gc'.pc = "idle"
  BY <1>1 DEF Idle, Rest
<1>3. RowInv' /\ OneInv'
  BY <1>1, <1>2 DEF Whole, Held, RowInv, OneInv, Kept
<1>4. ActInv'
  BY <1>2 DEF ActInv, Working, Journalled
<1>5. ServedInv'
  BY <1>1, <1>2 DEF Whole, Held, ServedInv, Kept, GivenUp
<1>6. OutInv' /\ EntryInv'
  BY <1>2 DEF OutInv, EntryInv, Unpublished, Working
<1>7. StoreInv'
  <2>1. Rows' = Rows /\ \A g \in Gen : InWindow(g)' = InWindow(g)
    BY <1>1, WindowSame
  <2>2. Named(work)' = Named(work) /\ ~Secured'
    BY <1>1, <1>2 DEF Named, Secured
  <2>3. \A g \in Rows : Named(row[g].site)' = Named(row[g].site)
    BY <1>1 DEF Named
  <2> QED
    BY <1>1, <1>2, <2>1, <2>2, <2>3, RowsFinite DEF Whole, Held, StoreInv
<1> QED
  BY <1>3, <1>4, <1>5, <1>6, <1>7 DEF Held

(* The boot ends: the host loads the blocks of the active generation. *)
LEMMA BootUpStore == ASSUME Whole, BootUp PROVE Held'
<1>1. /\ act.pc = "bootup" /\ up' = TRUE /\ act' = Idle
      /\ journal' = IF act.gen = None THEN [journal EXCEPT !.desired = None] ELSE journal
      /\ \/ runtime' = [now |-> Manifest(journal.active).blocks, before |-> runtime.now] /\ UNCHANGED stray
         \/ stray' = TRUE
      /\ UNCHANGED <<work, blobs, row, minted, folder, gc, owed, lived>>
  BY DEF BootUp
<1>2. act'.pc = "idle"
  BY <1>1 DEF Idle
<1>3. /\ journal'.active = journal.active
      /\ act.gen = None => journal'.desired = None
      /\ act.gen # None => journal'.desired = journal.desired
  BY <1>1 DEF Whole, Inv, TypeOK
<1>4. RowInv'
  BY <1>1, <1>3 DEF Whole, Held, RowInv, Kept
<1>5. OneInv'
  BY <1>1, <1>3 DEF Whole, Held, OneInv, ActInv, Kept
<1>6. ActInv'
  BY <1>2 DEF ActInv, Working, Journalled
<1>7. ServedInv'
  <2> SUFFICES ASSUME ~stray', Kept(journal'.active) PROVE ServedInv'
    BY <1>1 DEF ServedInv, Kept
  <2>1. ~stray /\ runtime'.now = Manifest(journal.active).blocks
    BY <1>1
  <2>2. journal.active \in Gen /\ Manifest(journal.active) = row[journal.active]
    BY <1>3, GenType DEF Kept, Manifest
  <2>3. folder = row[journal.active].site
    BY <1>1, <1>3, <2>1 DEF Whole, Held, ServedInv
  <2> QED
    BY <1>1, <1>2, <1>3, <2>1, <2>2, <2>3 DEF ServedInv
<1>8. OutInv' /\ EntryInv'
  BY <1>2 DEF OutInv, EntryInv, Unpublished, Working
<1>9. StoreInv'
  BY <1>1, <1>2, StoreFrame DEF Secured
<1> QED
  BY <1>4, <1>5, <1>6, <1>7, <1>8, <1>9 DEF Held

-----------------------------------------------------------------------------
(* THE ACTIVATION *)

(* A boot that is refused republishes what the abandoned site may have      *)
(* changed, if anything.                                                    *)
LEMMA ReturnBoot ==
  ASSUME NEW a \in Act, NEW told \in {"live", "refused"}, a.by = Boot, NEW b, b = Return(a, told)
  PROVE  /\ b.rebuilt = a.rebuilt
         /\ b.pc = "reboot" => told = "refused" /\ a.base # None /\ b.todo = Changed(a.site, a.old)
         /\ b.pc = "bootup" => told = "live" \/ a.base = None \/ Changed(a.site, a.old) = {}
<1>1. CASE told = "refused" /\ a.base # None
  <2>1. PICK c : c = [a EXCEPT !.pc = "reboot", !.todo = Changed(a.site, a.old)]
    OBVIOUS
  <2>2. Changed(a.site, a.old) \subseteq Path
    BY DEF Changed
  <2>3. c \in Act /\ c.pc = "reboot" /\ c.todo = Changed(a.site, a.old) /\ c.rebuilt = a.rebuilt
    BY <2>1, <2>2 DEF Act
  <2>4. b = Onward(c)
    BY <1>1, <2>1 DEF Return
  <2> QED
    BY <1>1, <2>3, <2>4, OnwardIs
<1>2. CASE ~(told = "refused" /\ a.base # None)
  BY <1>2 DEF Return, Act
<1> QED
  BY <1>1, <1>2

(* Sites with nothing to change are equal. *)
LEMMA NothingChanged ==
  ASSUME NEW s \in Site, NEW t \in Site, Changed(s, t) = {} PROVE s = t
  BY DEF Site, Changed

(* Sites that agree at every path are equal. *)
LEMMA SiteEqual ==
  ASSUME NEW s \in Site, NEW t \in Site, \A p \in Path : s[p] = t[p] PROVE s = t
  BY DEF Site

(* An activation that returns without touching the journal. *)
LEMMA GivesUp ==
  ASSUME Whole, act' = Return(act, "refused"), act.pc \notin {"idle", "reread", "reboot", "bootup", "answer"},
         UNCHANGED <<row, minted, lived, journal, folder, runtime, stray, up, gc, owed, work, blobs>>
  PROVE  Held'
<1>1. act \in Act /\ folder \in Site /\ act.old \in Site /\ act.site \in Site
  BY DEF Whole, Inv, TypeOK, Act
<1>2. PICK a \in Act : a = act'
  BY <1>1, ReturnIs
<1>3. /\ Same(act, a)
      /\ act.by # Boot => a.pc = "answer"
      /\ act.by = Boot => a.pc \in {"reboot", "bootup"}
  BY <1>1, <1>2, ReturnIs
<1>4. act.by = Boot => /\ a.pc = "reboot" => a.todo = Changed(act.site, act.old)
                       /\ a.pc = "bootup" => act.base = None \/ Changed(act.site, act.old) = {}
  BY <1>1, <1>2, ReturnBoot
<1>5. act.by = Boot => act.pc \in Working
  BY <1>1 DEF Act, Working, Whole, Inv, QueueInv
<1>6. RowInv' /\ OneInv'
  BY RowFrame
<1>7. ServedInv'
  <2>1. a.pc = "bootup" /\ ~stray /\ Kept(journal.active) => folder = row[journal.active].site
    <3> SUFFICES ASSUME a.pc = "bootup", ~stray, Kept(journal.active)
                 PROVE  folder = row[journal.active].site
      OBVIOUS
    <3>1. act.by = Boot /\ act.pc \in Working
      BY <1>3, <1>5
    <3>2. act.base = journal.active /\ act.base # None /\ act.old = row[journal.active].site
      BY <3>1, GenType DEF Whole, Held, ActInv, Kept
    <3>3. act.site = act.old
      BY <1>1, <1>4, <3>1, <3>2, NothingChanged
    <3>4. \A p \in Path : folder[p] = act.old[p]
      BY <3>1, <3>3 DEF Whole, Held, OutInv
    <3> QED
      BY <1>1, <3>2, <3>4, SiteEqual
  <2> QED
    BY <1>2, <2>1, ServedFrame
<1>8. ActInv'
  <2>1. a.pc \in {"reboot", "bootup"} => act.gen # None
    BY <1>3, <1>5, GenType DEF Whole, Held, ActInv
  <2> QED
    BY <1>2, <1>3, <1>5, <2>1 DEF Whole, Held, ActInv, Kept, Same, Working, Journalled
<1>9. OutInv' /\ EntryInv'
  <2>1. ~stray /\ a.pc = "reboot" => \A p \in Path \ a.todo : folder[p] = act.old[p]
    BY <1>3, <1>4, <1>5 DEF Whole, Held, OutInv, Changed
  <2> QED
    BY <1>2, <1>3, <2>1 DEF OutInv, EntryInv, Unpublished, Same, Working
<1>10. StoreInv'
  BY <1>2, <1>3, StoreFrame DEF Secured
<1> QED
  BY <1>6, <1>7, <1>8, <1>9, <1>10 DEF Held

(* After the commit: the row has been read again, or could not be.  A boot  *)
(* that then republishes what it replaced strays.                           *)
LEMMA AfterCommit ==
  ASSUME Whole, act.pc = "reread", Maintained, NEW a \in Act, act' = a, Same(act, a),
         a.pc \in {"adopt", "answer", "reboot", "bootup"}, a.pc = "reboot" => stray', stray => stray',
         UNCHANGED <<row, minted, lived, journal, folder, runtime, up, gc, owed, work, blobs>>
  PROVE  Held'
<1>1. ~up => gc.pc = "idle" /\ owed = 0
  BY DEF Whole, Inv, QueueInv, Maintained
<1>2. RowInv' /\ OneInv'
  BY <1>1 DEF Whole, Held, RowInv, OneInv, Kept
<1>3. journal.desired = None /\ act.gen \in Gen /\ act.gen # None
  BY GenType DEF Whole, Held, ActInv
<1>4. ActInv'
  BY <1>3 DEF Whole, Held, ActInv, Same, Kept, Working, Journalled
<1>5. ServedInv'
  BY <1>3 DEF Whole, Held, ServedInv, Kept
<1>6. OutInv' /\ EntryInv'
  BY DEF OutInv, EntryInv, Unpublished, Working
<1>7. StoreInv'
  BY StoreFrame DEF Secured
<1> QED
  BY <1>2, <1>4, <1>5, <1>6, <1>7 DEF Held

(* The row is read again. *)
LEMMA RereadStore == ASSUME Whole, Reread PROVE Held'
<1>1. /\ act \in Act /\ act.pc = "reread" /\ Maintained
      /\ UNCHANGED <<row, minted, lived, journal, folder, runtime, up, gc, owed, work, blobs, stray>>
  BY DEF Whole, Inv, TypeOK, Reread, disk
<1>2. CASE act' = [act EXCEPT !.pc = "adopt"]
  <2>1. PICK a \in Act : a = act' /\ Same(act, a) /\ a.pc = "adopt"
    BY <1>1, <1>2 DEF Act, Same
  <2> QED
    BY <1>1, <2>1, AfterCommit
<1>3. CASE act' = Return(act, "live")
  <2>1. PICK a \in Act : a = act' /\ Same(act, a) /\ a.pc \in {"answer", "reboot", "bootup"}
    BY <1>1, <1>3, ReturnIs
  <2>2. a.pc # "reboot"
    BY <1>1, <1>3, <2>1, ReturnBoot, ReturnIs
  <2> QED
    BY <1>1, <2>1, <2>2, AfterCommit
<1> QED
  BY <1>2, <1>3 DEF Reread

(* A call fails. *)
LEMMA CallFailsStore == ASSUME Whole, CallFails PROVE Held'
<1>1. /\ act \in Act /\ act' = Return(act, "refused")
      /\ UNCHANGED <<row, minted, lived, journal, folder, runtime, up, gc, owed, work, blobs>>
  BY DEF Whole, Inv, TypeOK, CallFails, disk
<1>2. CASE act.pc \notin {"idle", "reread", "reboot", "bootup", "answer"} /\ UNCHANGED stray
  BY <1>1, <1>2, GivesUp
<1>3. CASE act.pc = "reread" /\ Maintained /\ stray' = (stray \/ (act.by = Boot /\ act.base # None))
  <2>1. PICK a \in Act : a = act' /\ Same(act, a) /\ a.pc \in {"answer", "reboot", "bootup"}
    BY <1>1, ReturnIs
  <2>2. a.pc = "reboot" => act.by = Boot /\ act.base # None
    BY <1>1, <2>1, ReturnBoot, ReturnIs
  <2> QED
    BY <1>1, <1>3, <2>1, <2>2, AfterCommit
<1> QED
  BY <1>2, <1>3 DEF CallFails

(* Generations are numbers, and what is recorded of them is no newer than   *)
(* the newest.                                                              *)
LEMMA Recorded ==
  ASSUME Whole
  PROVE  /\ minted \in Nat /\ lived \in Nat /\ lived <= minted /\ None \notin Gen
         /\ journal.active \in {None} \cup Gen /\ journal.desired \in {None} \cup Gen
         /\ journal.active <= minted /\ journal.desired <= minted
         /\ journal.active \in Nat /\ journal.desired \in Nat
<1>1. /\ minted \in Gen /\ lived \in 1 .. minted
      /\ journal.active \in {None} \cup Gen /\ journal.desired \in {None} \cup Gen
  BY DEF Whole, Inv, TypeOK
<1>2. minted \in Nat /\ None \notin Gen /\ journal.active \in Nat /\ journal.desired \in Nat
  BY <1>1, GenType, GenNat
<1>3. lived \in Nat /\ lived <= minted
  BY <1>1, <1>2
<1>4. journal.active \in {None, lived} /\ (journal.desired # None => journal.desired <= minted)
  BY DEF Whole, Inv, PromiseInv, Held, RowInv
<1> QED
  BY <1>1, <1>2, <1>3, <1>4 DEF None

(* A generation is composed, of the workspace or of what was asked for, and *)
(* its row inserted.                                                        *)
LEMMA StageStore == ASSUME Whole, Stage PROVE Held'
<1> DEFINE base == journal.active
           site == IF act.kind = "rollback" THEN act.site ELSE work
           blocks == IF act.kind = "site" THEN Manifest(base).blocks ELSE act.blocks
<1>0. PICK g0 : g0 = minted + 1
  OBVIOUS
<1>1. /\ act \in Act /\ act.pc = "stage" /\ gc.pc # "delete"
      /\ UNCHANGED <<work, blobs, journal, folder, runtime, gc, owed, up, stray, lived>>
  BY DEF Stage, WorkspaceFree, Whole, Inv, TypeOK
<1>2. CASE act' = Return(act, "refused") /\ UNCHANGED <<minted, row>>
  BY <1>1, <1>2, GivesUp
<1>3. CASE /\ base = None \/ Kept(base)
           /\ minted' = minted + 1
           /\ row' = [row EXCEPT ![minted + 1] = [status |-> "inflight", site |-> site,
                                                  blocks |-> blocks]]
           /\ act' = [act EXCEPT !.pc = "journal", !.gen = minted + 1, !.base = base,
                                 !.site = site, !.blocks = blocks,
                                 !.old = Manifest(base).site, !.oldBlocks = Manifest(base).blocks]
  <2>1. up /\ act.by # Boot /\ ~act.rebuilt
    BY <1>1 DEF Whole, Inv, QueueInv, Held, ActInv
  <2>2. g0 \in Gen /\ row \in [Gen -> Row] /\ minted \in Nat
    <3>1. Inv'
      BY StageStep DEF Whole, Good
    <3> QED
      BY <1>0, <1>3, <3>1, Recorded DEF Inv, TypeOK, Whole
  <2>3. PICK a : a = act'
    OBVIOUS
  <2>4. /\ a.pc = "journal" /\ a.gen = g0 /\ a.base = base /\ a.site = site /\ a.blocks = blocks
        /\ a.old = Manifest(base).site /\ a.oldBlocks = Manifest(base).blocks
        /\ a.by = act.by /\ a.kind = act.kind /\ a.rebuilt = act.rebuilt
    BY <1>0, <1>1, <1>3, <2>3 DEF Act
  <2>5. /\ row'[g0].status = "inflight" /\ row'[g0].site = site /\ row'[g0].blocks = blocks
        /\ \A g \in Gen : g # g0 => row'[g] = row[g]
    BY <1>0, <1>3, <2>2
  <2>6. \A g \in Gen : g # g0 => (Kept(g)' <=> Kept(g))
    BY <2>5 DEF Kept
  <2>7. Kept(g0)' /\ row[g0] = NoRow /\ ~Kept(g0)
    <3>1. row[g0] = NoRow
      BY <1>0, <2>2 DEF Whole, Held, RowInv
    <3> QED
      BY <2>2, <2>5, <3>1 DEF Kept, NoRow
  <2>8. journal.active # g0 /\ journal.desired # g0
    BY <1>0, Recorded
  <2>9. Kept(journal.active) => /\ Manifest(base) = row[base] /\ row'[base] = row[base]
    BY <2>5, <2>8, Recorded DEF Kept, Manifest
  <2>10. (Kept(journal.active)' <=> Kept(journal.active)) /\ (Kept(journal.desired)' <=> Kept(journal.desired))
    BY <1>1, <2>5, <2>8 DEF Kept
  <2> HIDE DEF base, site, blocks
  <2>11. RowInv'
    <3>1. \A g \in Gen : g > minted' => row'[g] = NoRow
      <4> SUFFICES ASSUME NEW g \in Gen, g > minted' PROVE row'[g] = NoRow
        OBVIOUS
      <4>1. g \in Nat /\ g > minted /\ g # g0
        BY <1>0, <1>3, <2>2, GenNat
      <4> QED
        BY <2>5, <4>1 DEF Whole, Held, RowInv
    <3>2. \A g \in Gen : row'[g].status = "superseded" => row[g].status = "superseded"
      BY <2>5
    <3> QED
      BY <1>1, <2>1, <2>8, <2>9, <2>10, <3>1, <3>2 DEF Whole, Held, RowInv, base
  <2>12. ActInv'
    BY <1>0, <1>1, <1>3, <2>1, <2>2, <2>3, <2>4, <2>5, <2>7, <2>8, <2>9, <2>10
       DEF ActInv, Journalled, Working, base
  <2>13. OneInv'
    <3>1. \A g \in Gen : row'[g].status = "active" => row[g].status = "active"
      BY <2>5
    <3> QED
      BY <1>1, <3>1 DEF Whole, Held, OneInv
  <2>14. ServedInv'
    <3>1. Kept(journal.desired) => row'[journal.desired] = row[journal.desired]
      BY <2>5, <2>8 DEF Kept
    <3> QED
      BY <1>1, <2>1, <2>3, <2>4, <2>9, <2>10, <3>1 DEF Whole, Held, ServedInv, GivenUp, base
  <2>15. OutInv' /\ EntryInv'
    <3>1. ~stray /\ journal.desired = None => folder = a.old /\ runtime.now = a.oldBlocks
      <4> SUFFICES ASSUME ~stray, journal.desired = None PROVE folder = a.old /\ runtime.now = a.oldBlocks
        OBVIOUS
      <4>1. Kept(journal.active)
        BY <1>3 DEF Whole, Held, RowInv, base
      <4> QED
        BY <1>1, <2>1, <2>4, <2>9, <4>1 DEF Whole, Held, ServedInv, base
    <3> QED
      BY <1>1, <2>1, <2>3, <2>4, <3>1 DEF OutInv, EntryInv, Unpublished
  <2>16. StoreInv'
    <3>1. Rows' = Rows \cup {g0} /\ Rows \subseteq Gen
      BY <2>2, <2>6, <2>7 DEF Rows
    <3>2. \A g \in Gen : InWindow(g)' => InWindow(g)
      <4> SUFFICES ASSUME NEW g \in Gen, InWindow(g)' PROVE InWindow(g)
        OBVIOUS
      <4>1. {h \in Rows : h > g} \subseteq {h \in Rows' : h > g}
        BY <3>1
      <4>2. IsFiniteSet({h \in Rows' : h > g})
        BY RowsFinite, FS_Subset
      <4> QED
        BY <4>1, <4>2, Fewer DEF InWindow
    <3>3. Secured' => Named(a.site) \subseteq blobs
      BY <2>3, <2>4 DEF Secured, Whole, Held, StoreInv, site
    <3>4. Named(work)' = Named(work) /\ Named(act.site)' = Named(a.site)
      BY <1>1, <2>3 DEF Named
    <3>5. \A g \in Rows' : row'[g].status \in {"active", "superseded"} => row'[g] = row[g] /\ g \in Rows
      BY <2>5, <3>1
    <3>6. \A g \in Rows' : Named(row[g].site)' = Named(row'[g].site)
      BY DEF Named
    <3> QED
      BY <1>1, <3>1, <3>2, <3>3, <3>4, <3>5, <3>6 DEF Whole, Held, StoreInv
  <2> QED
    BY <2>11, <2>12, <2>13, <2>14, <2>15, <2>16 DEF Held
<1> QED
  BY <1>2, <1>3 DEF Stage

(* The status of one row changes. *)
LEMMA Marked ==
  ASSUME Whole, NEW g0 \in Gen, NEW st, row' = [row EXCEPT ![g0].status = st]
  PROVE  /\ row'[g0].status = st /\ row'[g0].site = row[g0].site /\ row'[g0].blocks = row[g0].blocks
         /\ \A g \in Gen : g # g0 => row'[g] = row[g]
  BY DEF Whole, Inv, TypeOK, Row

(* What an activation works on: a generation newer than the one it          *)
(* replaces.                                                                *)
LEMMA WorksOn ==
  ASSUME Whole, act.pc \in Working
  PROVE  /\ act \in Act /\ act.gen \in Gen /\ act.gen # None /\ act.base = journal.active
         /\ act.gen # journal.active /\ lived < act.gen /\ act.gen <= minted
         /\ act.gen \in Nat /\ lived \in Nat /\ minted \in Nat
<1>1. act \in Act /\ act.gen \in Gen /\ act.base = journal.active
  BY DEF Whole, Inv, TypeOK, Held, ActInv
<1>2. act.gen \in Nat /\ act.gen # None /\ lived \in Nat /\ minted \in Nat
  BY <1>1, Recorded, GenNat
<1>3. lived < act.gen /\ act.gen <= minted /\ journal.active \in {None, lived}
  BY DEF Whole, Inv, PromiseInv, Held, RowInv
<1> QED
  BY <1>1, <1>2, <1>3

(* The journal names the generation before anything is changed. *)
LEMMA JournalStore == ASSUME Whole, Journal PROVE Held'
<1>1. PICK g0 : g0 = act.gen
  OBVIOUS
<1>2. /\ act.pc = "journal" /\ act' = [act EXCEPT !.pc = "validate"]
      /\ journal' = [active |-> act.base, desired |-> act.gen]
      /\ stray' = (stray \/ journal.desired \notin {None, act.gen})
      /\ UNCHANGED <<work, blobs, minted, folder, runtime, gc, owed, up, lived>>
  BY DEF Journal
<1>3. /\ act \in Act /\ g0 \in Gen /\ g0 # None /\ act.base = journal.active /\ g0 # journal.active
      /\ lived < g0 /\ g0 <= minted /\ g0 \in Nat /\ lived \in Nat /\ minted \in Nat
  BY <1>1, <1>2, WorksOn DEF Working
<1>4. PICK a : a = act'
  OBVIOUS
<1>5. Alike([act EXCEPT !.pc = "validate"], a) /\ a.pc = "validate" /\ Same(act, a) /\ a.rebuilt = act.rebuilt
  BY <1>2, <1>3, <1>4 DEF Alike, Act, Same
<1>6. /\ row'[g0].status = "inflight" /\ row'[g0].site = row[g0].site /\ row'[g0].blocks = row[g0].blocks
      /\ \A g \in Gen : g # g0 => row'[g] = row[g]
  BY <1>1, <1>3, Marked DEF Journal
<1>7. /\ Kept(g0) /\ (act.by # Boot => row[g0].status = "inflight") /\ ~act.rebuilt
      /\ journal.desired = g0 <=> act.by = Boot
      /\ row[g0].site = act.site /\ row[g0].blocks = act.blocks
      /\ Kept(act.base) => act.old = row[act.base].site /\ act.oldBlocks = row[act.base].blocks
      /\ act.by # Boot => g0 = minted
  BY <1>1, <1>2 DEF Whole, Held, ActInv, Working
<1>8. Kept(g0)' /\ \A g \in Gen : (Kept(g)' <=> Kept(g))
  BY <1>3, <1>6, <1>7 DEF Kept
<1>9. journal'.active = journal.active /\ journal'.desired = g0 /\ (~stray' => ~stray)
  BY <1>1, <1>2, <1>3
<1>10. Kept(journal.active) => row'[journal.active] = row[journal.active]
  BY <1>3, <1>6 DEF Kept
<1>11. Kept(journal.active)' <=> Kept(journal.active)
  BY <1>3, <1>6, <1>9 DEF Kept
<1>12. act.by = Boot => gc.pc # "delete"
  BY <1>2 DEF Whole, Inv, QueueInv, Held, RowInv
<1>13. RowInv'
  <2>1. \A g \in Gen : g > minted => g # g0
    BY <1>3
  <2> QED
    BY <1>2, <1>4, <1>5, <1>6, <1>9, <1>10, <1>11, <2>1 DEF Whole, Held, RowInv
<1>14. ActInv'
  <2>1. /\ a.pc = "validate" /\ a.gen = g0 /\ a.base = journal.active /\ a.site = act.site
        /\ a.blocks = act.blocks /\ a.old = act.old /\ a.oldBlocks = act.oldBlocks /\ a.by = act.by
        /\ ~a.rebuilt /\ minted' = minted
    BY <1>1, <1>2, <1>3, <1>5, <1>7 DEF Same
  <2>2. Kept(journal.active)' => act.old = row'[journal.active].site /\ act.oldBlocks = row'[journal.active].blocks
    BY <1>3, <1>7, <1>10, <1>11
  <2>3. Kept(journal.active)' <=> Kept(a.base)'
    BY <1>9, <2>1 DEF Kept
  <2> QED
    BY <1>3, <1>4, <1>6, <1>7, <1>8, <1>9, <2>1, <2>2, <2>3 DEF ActInv, Working, Journalled
<1>15. ~stray' /\ act.by # Boot => journal.desired = None
  BY <1>1, <1>2, <1>7
<1>16. OneInv'
  BY <1>1, <1>2, <1>6, <1>9, GenType DEF Whole, Held, OneInv
<1>17. ~stray' => /\ act.by = Boot => \A p \in Path : folder[p] \in {act.old[p], act.site[p]}
                  /\ act.by # Boot => folder = act.old /\ runtime.now = act.oldBlocks
  BY <1>2, <1>9, <1>15 DEF Whole, Held, OutInv, Unpublished, Working
<1>18. ServedInv'
  <2>1. ~GivenUp'
    BY <1>6, <1>8, <1>9 DEF GivenUp
  <2> SUFFICES ASSUME ~stray', Kept(journal.active)
               PROVE  \A p \in Path : folder[p] \in {row[journal.active].site[p], row[g0].site[p]}
    BY <1>2, <1>3, <1>4, <1>5, <1>6, <1>9, <1>10, <1>11, <2>1 DEF ServedInv
  <2> QED
    BY <1>3, <1>7, <1>17
<1>19. OutInv' /\ EntryInv'
  BY <1>2, <1>4, <1>5, <1>17 DEF OutInv, EntryInv, Unpublished, Same
<1>20. StoreInv'
  <2>1. Secured' => Named(a.site) \subseteq blobs
    BY <1>2, <1>4, <1>5 DEF Secured, Same, Whole, Held, StoreInv
  <2>2. \A g \in Gen : /\ row'[g].status = "none" <=> row[g].status = "none"
                       /\ row'[g].site = row[g].site
                       /\ row'[g].status \in {"active", "superseded"}
                           => row[g].status \in {"active", "superseded"}
                       /\ gc.pc = "delete" /\ row'[g].status = "inflight" => row[g].status = "inflight"
    BY <1>6, <1>7, <1>12 DEF Kept
  <2> QED
    BY <1>2, <1>4, <2>1, <2>2, StoreFrame
<1> QED
  BY <1>13, <1>14, <1>16, <1>18, <1>19, <1>20 DEF Held

(* While an activation works, every path has the old file or the new. *)
LEMMA Mixed ==
  ASSUME Whole, ~stray, act.pc \in {"validate", "build", "publish", "restore", "abandon"}
  PROVE  \A p \in Path : folder[p] \in {act.old[p], act.site[p]}
<1>1. CASE act.by = Boot
  BY <1>1 DEF Whole, Held, OutInv, Working
<1>2. CASE act.by # Boot
  BY <1>2 DEF Whole, Held, OutInv, Unpublished
<1> QED
  BY <1>1, <1>2

(* The activation goes on under its journal. *)
LEMMA GoesOn ==
  ASSUME Whole, act.pc \in {"validate", "build", "publish", "restore"}, NEW a, act' = a, Same(act, a),
         a.pc \in {"build", "publish", "restore", "abandon", "activate"}, a.pc = "build" => ~a.rebuilt,
         UNCHANGED <<row, minted, lived, journal, up, gc, owed, work, blobs>>, ~stray' => ~stray,
         ~stray' => \A p \in Path : folder'[p] \in {act.old[p], act.site[p]},
         Secured' => Named(act.site) \subseteq blobs, OutInv', EntryInv'
  PROVE  Held'
<1>1. /\ act.gen \in Gen /\ act.gen # None /\ act.base = journal.active /\ journal.desired = act.gen
      /\ row[act.gen].status = "inflight" /\ row[act.gen].site = act.site
      /\ Kept(act.base) => act.old = row[act.base].site
  <2>1. act.gen \in Gen /\ row[act.gen].status = "inflight"
    BY DEF Whole, Held, ActInv, Working
  <2>2. Kept(act.gen)
    BY <2>1 DEF Kept
  <2> QED
    BY <2>1, <2>2, GenType DEF Whole, Held, ActInv, Working, Journalled
<1>2. RowInv' /\ OneInv'
  BY DEF Whole, Held, RowInv, OneInv, Kept
<1>3. ActInv'
  BY DEF Whole, Held, ActInv, Kept, Same, Working, Journalled
<1>4. ServedInv'
  <2>1. ~GivenUp'
    BY <1>1 DEF GivenUp, Kept
  <2> QED
    BY <1>1, <2>1 DEF ServedInv, Kept
<1>5. StoreInv'
  BY StoreFrame DEF Same
<1> QED
  BY <1>2, <1>3, <1>4, <1>5 DEF Held

(* A publish starts, of the files that differ. *)
LEMMA PublishStarts ==
  ASSUME Whole, act.pc \in {"validate", "build"}, NEW a, act' = a, Same(act, a),
         a.todo = Changed(act.old, act.site), Named(act.site) \subseteq blobs,
         a.pc = IF Changed(act.old, act.site) = {} THEN "activate" ELSE "publish",
         UNCHANGED <<row, minted, lived, journal, folder, stray, up, gc, owed, work, blobs>>,
         act.by # Boot /\ ~stray => /\ runtime'.now = act.blocks
                                    /\ a.rebuilt => runtime'.before = act.oldBlocks
                                    /\ ~a.rebuilt => act.blocks = act.oldBlocks
  PROVE  Held'
<1>1. folder \in Site /\ act.old \in Site /\ act.site \in Site
  BY DEF Whole, Inv, TypeOK, Act
<1>2. ~stray => \A p \in Path : folder[p] \in {act.old[p], act.site[p]}
  BY Mixed
<1>3. ~stray => \A p \in Path \ a.todo : folder[p] = act.site[p]
  BY <1>2 DEF Changed
<1>4. ~stray /\ a.pc = "activate" => folder = act.site
  BY <1>1, <1>3, SiteEqual
<1>5. ~stray /\ act.by # Boot => folder = act.old
  BY DEF Whole, Held, OutInv, Unpublished
<1>6. a.todo \subseteq Path /\ a.pc \in {"activate", "publish"}
  BY DEF Changed
<1>7. OutInv'
  BY <1>2, <1>3, <1>4, <1>5, <1>6 DEF OutInv, Unpublished, Same
<1>8. EntryInv'
  BY SiteAssumption DEF EntryInv, Same, Changed
<1> QED
  BY <1>2, <1>6, <1>7, <1>8, GoesOn

(* The content of the site is found, or vouched for, or the generation is   *)
(* given up.                                                                *)
LEMMA ValidateStore == ASSUME Whole, Validate PROVE Held'
<1>1. /\ act.pc = "validate" /\ act \in Act
      /\ UNCHANGED <<row, minted, lived, journal, folder, runtime, stray, up, gc, owed, work, blobs>>
  BY DEF Validate, disk, Whole, Inv, TypeOK
<1>2. ~act.rebuilt /\ (~stray => \A p \in Path : folder[p] \in {act.old[p], act.site[p]})
  BY <1>1, Mixed DEF Whole, Held, ActInv
<1>3. ~stray /\ act.by # Boot => folder = act.old /\ runtime.now = act.oldBlocks
  BY <1>1 DEF Whole, Held, OutInv, Unpublished
<1>4. Named(act.site) \subseteq blobs \cup Vouched(act) => Named(act.site) \subseteq blobs
  <2>1. CASE act.by # Boot /\ act.kind # "rollback"
    BY <1>1, <2>1 DEF Whole, Held, StoreInv, Secured
  <2>2. CASE ~(act.by # Boot /\ act.kind # "rollback")
    BY <2>2 DEF Vouched
  <2> QED
    BY <2>1, <2>2
<1>5. PICK a : a = act'
  OBVIOUS
<1>6. ASSUME NEW pc \in {"abandon", "build"}, a = [act EXCEPT !.pc = pc],
             pc = "build" => Named(act.site) \subseteq blobs
      PROVE  Held'
  <2>1. Same(act, a) /\ a.pc = pc /\ a.rebuilt = act.rebuilt
    BY <1>1, <1>6 DEF Act, Same
  <2>2. OutInv' /\ EntryInv'
    BY <1>1, <1>2, <1>3, <1>5, <2>1 DEF OutInv, EntryInv, Unpublished, Same
  <2>3. Secured' => Named(act.site) \subseteq blobs
    BY <1>5, <1>6, <2>1 DEF Secured
  <2> QED
    BY <1>1, <1>2, <1>5, <2>1, <2>2, <2>3, GoesOn
<1>7. CASE a = Publishing(act) /\ act.blocks = act.oldBlocks /\ Named(act.site) \subseteq blobs
  <2>1. /\ Same(act, a) /\ a.rebuilt = act.rebuilt /\ a.todo = Changed(act.old, act.site)
        /\ a.pc = IF Changed(act.old, act.site) = {} THEN "activate" ELSE "publish"
    BY <1>1, <1>7, PublishingIs
  <2> QED
    BY <1>1, <1>2, <1>3, <1>5, <1>7, <2>1, PublishStarts
<1> QED
  BY <1>4, <1>5, <1>6, <1>7 DEF Validate

(* The runtime is rebuilt before the site goes out. *)
LEMMA RebuildStore == ASSUME Whole, Rebuild PROVE Held'
<1>1. /\ act.pc = "build" /\ act \in Act
      /\ UNCHANGED <<row, minted, lived, journal, folder, stray, up, gc, owed, work, blobs>>
  BY DEF Rebuild, disk, Whole, Inv, TypeOK
<1>2. ~act.rebuilt /\ (~stray => \A p \in Path : folder[p] \in {act.old[p], act.site[p]})
  BY <1>1, Mixed DEF Whole, Held, ActInv
<1>3. ~stray /\ act.by # Boot => folder = act.old /\ runtime.now = act.oldBlocks
  BY <1>1 DEF Whole, Held, OutInv, Unpublished
<1>4. Named(act.site) \subseteq blobs
  BY <1>1 DEF Whole, Held, StoreInv, Secured
<1>5. PICK a : a = act'
  OBVIOUS
<1>6. CASE a = [act EXCEPT !.pc = "abandon"] /\ UNCHANGED runtime
  <2>1. Same(act, a) /\ a.pc = "abandon" /\ a.rebuilt = act.rebuilt
    BY <1>1, <1>6 DEF Act, Same
  <2>2. OutInv' /\ EntryInv'
    BY <1>1, <1>2, <1>3, <1>5, <1>6, <2>1 DEF OutInv, EntryInv, Unpublished, Same
  <2> QED
    BY <1>1, <1>2, <1>4, <1>5, <2>1, <2>2, GoesOn
<1>7. CASE /\ a = [Publishing(act) EXCEPT !.rebuilt = TRUE]
           /\ runtime' = [now |-> act.blocks, before |-> runtime.now]
  <2>1. PICK b \in Act : b = Publishing(act)
    BY <1>1, PublishingIs
  <2>2. /\ Same(act, b) /\ b.todo = Changed(act.old, act.site)
        /\ b.pc = IF Changed(act.old, act.site) = {} THEN "activate" ELSE "publish"
    BY <1>1, <2>1, PublishingIs
  <2>3. a = [b EXCEPT !.rebuilt = TRUE]
    BY <1>7, <2>1
  <2>4. Same(act, a) /\ a.rebuilt /\ a.todo = b.todo /\ a.pc = b.pc
    BY <2>2, <2>3 DEF Act, Same
  <2>5. runtime'.now = act.blocks /\ runtime'.before = runtime.now
    BY <1>7
  <2> QED
    BY <1>1, <1>3, <1>4, <1>5, <2>2, <2>4, <2>5, PublishStarts
<1> QED
  BY <1>5, <1>6, <1>7 DEF Rebuild

(* A file that goes out. *)
LEMMA PutFileIs ==
  ASSUME Whole, NEW p \in Path, PutFile(p)
  PROVE  \E a : /\ a = act' /\ Same(act, a) /\ a.rebuilt = act.rebuilt /\ a.todo = act.todo \ {p}
                /\ a.todo # {} => a.pc = act.pc
                /\ a.todo = {} => /\ act.pc = "publish" => a.pc = "activate"
                                  /\ act.pc = "restore" => a.pc = "abandon"
                                  /\ act.pc = "reboot" => a.pc = "bootup"
                /\ folder'[p] = Target(act)[p]
                /\ \A q \in Path : q # p => folder'[q] = folder[q]
<1>1. PICK b : b = [act EXCEPT !.todo = @ \ {p}]
  OBVIOUS
<1>2. act \in Act /\ act.pc \in {"publish", "restore", "reboot"}
  BY DEF Whole, Inv, TypeOK, PutFile
<1>3. b \in Act /\ b.pc = act.pc /\ Same(act, b) /\ b.todo = act.todo \ {p} /\ b.rebuilt = act.rebuilt
  BY <1>1, <1>2 DEF Act, Same
<1>4. act' = Onward(b)
  BY <1>1 DEF PutFile
<1>5. PICK a : a = act'
  OBVIOUS
<1>6. /\ Same(act, a) /\ a.rebuilt = act.rebuilt /\ a.todo = act.todo \ {p}
      /\ a.todo # {} => a.pc = act.pc
      /\ a.todo = {} => /\ act.pc = "publish" => a.pc = "activate"
                        /\ act.pc = "restore" => a.pc = "abandon"
                        /\ act.pc = "reboot" => a.pc = "bootup"
  BY <1>2, <1>3, <1>4, <1>5, OnwardIs DEF Same
<1>7. folder'[p] = Target(act)[p] /\ \A q \in Path : q # p => folder'[q] = folder[q]
  BY DEF PutFile, Whole, Inv, TypeOK, Site
<1> QED
  BY <1>5, <1>6, <1>7

(* The entrypoint is written when nothing else is left. *)
LEMMA EntryIsLast ==
  ASSUME act.pc = "publish", Entry \in NextFiles(act), act.site[Entry] # Absent, act.todo \subseteq Path
  PROVE  act.todo = {Entry}
<1> DEFINE writes == {p \in act.todo \ {Entry} : act.site[p] # Absent}
           removals == {p \in act.todo : act.site[p] = Absent}
<1>1. NextFiles(act) = IF writes # {} THEN writes ELSE IF removals # {} THEN removals ELSE act.todo
  BY DEF NextFiles, Target
<1>2. Entry \notin writes /\ Entry \notin removals
  OBVIOUS
<1>3. writes = {} /\ removals = {} /\ Entry \in act.todo
  <2> HIDE DEF writes, removals
  <2> QED
    BY <1>1, <1>2
<1> QED
  BY <1>3

(* A file goes out. *)
LEMMA PutFileStore == ASSUME Whole, NEW p \in Path, PutFile(p) PROVE Held'
<1>1. PICK a : /\ a = act' /\ Same(act, a) /\ a.rebuilt = act.rebuilt /\ a.todo = act.todo \ {p}
               /\ a.todo # {} => a.pc = act.pc
               /\ a.todo = {} => /\ act.pc = "publish" => a.pc = "activate"
                                 /\ act.pc = "restore" => a.pc = "abandon"
                                 /\ act.pc = "reboot" => a.pc = "bootup"
               /\ folder'[p] = Target(act)[p]
               /\ \A q \in Path : q # p => folder'[q] = folder[q]
  BY PutFileIs
<1>2. /\ act.pc \in {"publish", "restore", "reboot"} /\ p \in NextFiles(act)
      /\ UNCHANGED <<row, minted, lived, journal, runtime, stray, up, gc, owed, work, blobs>>
  BY DEF PutFile
<1>3. /\ act.old \in Site /\ act.site \in Site /\ act.todo \subseteq Path
  BY DEF Whole, Inv, TypeOK, Act
<1>4. folder' \in Site
  <2>1. Inv'
    BY PutFileStep DEF Whole, Good
  <2> QED
    BY <2>1 DEF Inv, TypeOK
<1>5. CASE act.pc = "publish"
  <2>1. folder'[p] = act.site[p] /\ a.pc \in {"publish", "activate"}
    BY <1>1, <1>5 DEF Target
  <2>2. ~stray => \A q \in Path : folder'[q] \in {act.old[q], act.site[q]}
    BY <1>1, <1>5, <2>1, Mixed
  <2>3. ~stray => \A q \in Path \ a.todo : folder'[q] = act.site[q]
    BY <1>1, <1>5, <2>1 DEF Whole, Held, OutInv
  <2>4. ~stray /\ a.pc = "activate" => folder' = act.site
    <3>1. a.pc = "activate" => a.todo = {}
      BY <1>1, <1>5
    <3> QED
      BY <1>3, <1>4, <2>3, <3>1, SiteEqual
  <2>5. ~stray /\ act.by # Boot =>
          /\ \A q \in a.todo : folder'[q] = act.old[q]
          /\ act.rebuilt => runtime.before = act.oldBlocks
          /\ ~act.rebuilt => act.blocks = act.oldBlocks
          /\ runtime.now = act.blocks
    BY <1>1, <1>3, <1>5 DEF Whole, Held, OutInv
  <2>6. OutInv'
    BY <1>1, <1>2, <2>1, <2>2, <2>3, <2>4, <2>5 DEF OutInv, Unpublished, Same
  <2>7. EntryInv'
    <3> SUFFICES ASSUME a.pc = "publish", act.site[Entry] \notin {act.old[Entry], Absent}
                 PROVE  Entry \in a.todo
      BY <1>1 DEF EntryInv, Same
    <3>1. Entry \in act.todo
      BY <1>5 DEF Whole, Held, EntryInv
    <3>2. p # Entry
      BY <1>1, <1>2, <1>3, <1>5, EntryIsLast
    <3> QED
      BY <1>1, <3>1, <3>2
  <2>8. Named(act.site) \subseteq blobs
    BY <1>5 DEF Whole, Held, StoreInv, Secured
  <2> QED
    BY <1>1, <1>2, <1>5, <2>1, <2>2, <2>6, <2>7, <2>8, GoesOn
<1>6. CASE act.pc = "restore"
  <2>1. folder'[p] = act.old[p] /\ a.pc \in {"restore", "abandon"}
    BY <1>1, <1>6 DEF Target
  <2>2. ~stray => \A q \in Path : folder'[q] \in {act.old[q], act.site[q]}
    BY <1>1, <1>6, <2>1, Mixed
  <2>3. ~stray => \A q \in Path \ a.todo : folder'[q] = act.old[q]
    BY <1>1, <1>6, <2>1 DEF Whole, Held, OutInv
  <2>4. ~stray /\ a.pc = "abandon" => folder' = act.old
    <3>1. a.pc = "abandon" => a.todo = {}
      BY <1>1, <1>6
    <3> QED
      BY <1>3, <1>4, <2>3, <3>1, SiteEqual
  <2>5. ~stray /\ act.by # Boot => runtime.now = act.oldBlocks
    BY <1>6 DEF Whole, Held, OutInv
  <2>6. OutInv' /\ EntryInv'
    BY <1>1, <1>2, <1>3, <2>1, <2>2, <2>3, <2>4, <2>5 DEF OutInv, EntryInv, Unpublished, Same
  <2>7. ~Secured'
    BY <1>1, <2>1 DEF Secured
  <2> QED
    BY <1>1, <1>2, <1>6, <2>1, <2>2, <2>6, <2>7, GoesOn
<1>7. CASE act.pc = "reboot"
  <2>1. folder'[p] = act.old[p] /\ a.pc \in {"reboot", "bootup"} /\ ~up
    BY <1>1, <1>7 DEF Target, Whole, Inv, QueueInv
  <2>2. ~stray => \A q \in Path \ a.todo : folder'[q] = act.old[q]
    BY <1>1, <1>7, <2>1 DEF Whole, Held, OutInv
  <2>3. ~stray /\ a.pc = "bootup" => folder' = act.old
    <3>1. a.pc = "bootup" => a.todo = {}
      BY <1>1, <1>7
    <3> QED
      BY <1>3, <1>4, <2>2, <3>1, SiteEqual
  <2>4. /\ ~stray => /\ act.base = journal.active
                     /\ Kept(act.base) => act.old = row[act.base].site /\ act.oldBlocks = row[act.base].blocks
        /\ act.gen = None => journal.desired = None \/ ~Kept(journal.desired)
    BY <1>7 DEF Whole, Held, ActInv
  <2>5. RowInv' /\ OneInv'
    BY <1>2, <1>7 DEF Whole, Held, RowInv, OneInv, Kept
  <2>6. ActInv'
    BY <1>1, <1>2, <2>1, <2>4 DEF ActInv, Same, Kept, Working, Journalled
  <2>7. OutInv' /\ EntryInv'
    <3>1. act.by = Boot
      BY <1>7 DEF Whole, Inv, QueueInv
    <3> QED
      BY <1>1, <1>2, <2>1, <2>2, <3>1 DEF OutInv, EntryInv, Unpublished, Same, Working
  <2>8. ServedInv'
    <3> SUFFICES ASSUME ~stray, Kept(journal.active) PROVE ServedInv'
      BY <1>2 DEF ServedInv, Kept
    <3>1. act.old = row[journal.active].site
      BY <2>4
    <3>2. journal.desired # None /\ GivenUp => folder' = act.old
      <4> SUFFICES ASSUME journal.desired # None, GivenUp PROVE folder' = act.old
        OBVIOUS
      <4>1. folder = act.old
        BY <3>1 DEF Whole, Held, ServedInv
      <4>2. \A q \in Path : folder'[q] = act.old[q]
        BY <1>1, <2>1, <4>1
      <4> QED
        BY <1>3, <1>4, <4>2, SiteEqual
    <3>3. journal.desired # None /\ Kept(journal.desired) =>
            \A q \in Path : folder'[q] \in {act.old[q], row[journal.desired].site[q]}
      BY <1>1, <2>1, <3>1 DEF Whole, Held, ServedInv
    <3>4. GivenUp' => GivenUp \/ a.pc = "bootup"
      BY <1>1, <1>2 DEF GivenUp, Kept
    <3> QED
      BY <1>1, <1>2, <2>1, <2>3, <3>1, <3>2, <3>3, <3>4 DEF ServedInv, Kept
  <2>9. StoreInv'
    BY <1>1, <1>2, <2>1, StoreFrame DEF Secured
  <2> QED
    BY <2>5, <2>6, <2>7, <2>8, <2>9 DEF Held
<1> QED
  BY <1>2, <1>5, <1>6, <1>7

(* A publish fails and is taken back; a restore or a republish that fails   *)
(* is given up.                                                             *)
LEMMA PublishFailsStore == ASSUME Whole, NEW p \in Path, PublishFails(p) PROVE Held'
<1>1. /\ act \in Act /\ Changed(act.site, act.old) \subseteq Path
      /\ UNCHANGED <<row, minted, lived, journal, folder, gc, owed, work, blobs>>
  BY DEF PublishFails, disk, Whole, Inv, TypeOK, Changed
<1>2. PICK a : a = act'
  OBVIOUS
<1>3. CASE /\ act.pc = "publish"
           /\ runtime' = IF act.rebuilt THEN [now |-> runtime.before, before |-> {}] ELSE runtime
           /\ act' = [act EXCEPT !.pc = "restore", !.todo = Changed(act.site, act.old)]
           /\ UNCHANGED <<up, stray>>
  <2>1. Same(act, a) /\ a.pc = "restore" /\ a.todo = Changed(act.site, act.old)
    BY <1>1, <1>2, <1>3 DEF Act, Same
  <2>2. ~stray => \A q \in Path : folder[q] \in {act.old[q], act.site[q]}
    BY <1>3, Mixed
  <2>3. ~stray => \A q \in Path \ a.todo : folder[q] = act.old[q]
    BY <2>1, <2>2 DEF Changed
  <2>4. runtime'.now = IF act.rebuilt THEN runtime.before ELSE runtime.now
    BY <1>3
  <2>5. ~stray /\ act.by # Boot => runtime'.now = act.oldBlocks
    BY <1>3, <2>4 DEF Whole, Held, OutInv
  <2>6. UNCHANGED <<folder, stray, up>>
    BY <1>1, <1>3
  <2>7. OutInv' /\ EntryInv' /\ ~Secured'
    BY <1>1, <1>2, <2>1, <2>2, <2>3, <2>5, <2>6 DEF OutInv, EntryInv, Unpublished, Secured, Same
  <2>8. act.pc = "publish" /\ (~stray' => \A q \in Path : folder'[q] \in {act.old[q], act.site[q]})
    BY <1>3, <2>2, <2>6
  <2> QED
    BY <1>1, <1>2, <2>1, <2>6, <2>7, <2>8, GoesOn
<1>4. CASE act.pc = "restore" /\ act' = [act EXCEPT !.pc = "abandon", !.todo = {}] /\ stray' = TRUE /\ UNCHANGED up
  <2>1. Same(act, a) /\ a.pc = "abandon"
    BY <1>1, <1>2, <1>4 DEF Act, Same
  <2>2. OutInv' /\ EntryInv' /\ ~Secured'
    BY <1>2, <1>4, <2>1 DEF OutInv, EntryInv, Secured
  <2> QED
    BY <1>1, <1>2, <1>4, <2>1, <2>2, GoesOn
<1>5. CASE act.pc = "reboot" /\ act' = Idle /\ stray' = TRUE /\ up' = TRUE
  <2>1. act'.pc = "idle"
    BY <1>5 DEF Idle
  <2>2. RowInv' /\ OneInv'
    BY <1>1, <1>5 DEF Whole, Held, RowInv, OneInv, Kept
  <2>3. ActInv' /\ OutInv' /\ EntryInv' /\ ServedInv'
    BY <1>5, <2>1 DEF ActInv, OutInv, EntryInv, ServedInv, Working, Journalled
  <2>4. StoreInv'
    BY <1>1, <2>1, StoreFrame DEF Secured
  <2> QED
    BY <2>2, <2>3, <2>4 DEF Held
<1> QED
  BY <1>3, <1>4, <1>5 DEF PublishFails

(* The ledger gives the generation up. *)
LEMMA AbandonStore == ASSUME Whole, Abandon PROVE Held'
<1>1. PICK g0 : g0 = act.gen
  OBVIOUS
<1>2. /\ act.pc = "abandon" /\ act' = [act EXCEPT !.pc = "close"]
      /\ UNCHANGED <<work, blobs, minted, journal, folder, runtime, gc, owed, up, stray, lived>>
  BY DEF Abandon
<1>3. /\ act \in Act /\ g0 \in Gen /\ g0 # None /\ act.base = journal.active /\ g0 # journal.active
      /\ lived < g0 /\ g0 <= minted /\ g0 \in Nat /\ lived \in Nat /\ minted \in Nat
  BY <1>1, <1>2, WorksOn DEF Working
<1>4. PICK a : a = act'
  OBVIOUS
<1>5. Same(act, a) /\ a.pc = "close"
  BY <1>2, <1>3, <1>4 DEF Act, Same
<1>6. /\ row'[g0].status = "failed" /\ row'[g0].site = row[g0].site /\ row'[g0].blocks = row[g0].blocks
      /\ \A g \in Gen : g # g0 => row'[g] = row[g]
  BY <1>1, <1>3, Marked DEF Abandon
<1>7. row[g0].status = "inflight" /\ Kept(g0) /\ journal.desired = g0
  <2>1. row[g0].status = "inflight" /\ journal.desired = g0
    BY <1>1, <1>2 DEF Whole, Held, ActInv, Journalled, Working
  <2> QED
    BY <1>3, <2>1 DEF Kept
<1>8. \A g \in Gen : (Kept(g)' <=> Kept(g)) /\ row'[g].site = row[g].site /\ row'[g].blocks = row[g].blocks
  BY <1>6, <1>7 DEF Kept
<1>9. Kept(journal.active)' <=> Kept(journal.active)
  BY <1>2, <1>3, <1>6 DEF Kept
<1>10. Kept(journal.active) => row'[journal.active] = row[journal.active]
  BY <1>3, <1>6 DEF Kept
<1>11. RowInv'
  <2>1. \A g \in Gen : g > minted => g # g0
    BY <1>3
  <2> QED
    BY <1>2, <1>4, <1>5, <1>6, <1>9, <1>10, <2>1 DEF Whole, Held, RowInv
<1>12. ActInv'
  <2>1. /\ a.gen = g0 /\ a.base = journal.active /\ a.site = act.site /\ a.blocks = act.blocks
        /\ a.old = act.old /\ a.oldBlocks = act.oldBlocks /\ a.by = act.by
    BY <1>1, <1>3, <1>5 DEF Same
  <2>2. /\ Kept(g0) => row[g0].site = act.site /\ row[g0].blocks = act.blocks
        /\ Kept(journal.active) => act.old = row[journal.active].site /\ act.oldBlocks = row[journal.active].blocks
        /\ act.by # Boot => g0 = minted
    BY <1>1, <1>2, <1>3 DEF Whole, Held, ActInv, Working
  <2>3. UNCHANGED <<minted, journal>>
    BY <1>2
  <2>4. Kept(a.base)' <=> Kept(journal.active)
    BY <1>9, <2>1, <2>3 DEF Kept
  <2> QED
    BY <1>3, <1>4, <1>5, <1>6, <1>7, <1>10, <2>1, <2>2, <2>3, <2>4 DEF ActInv, Working, Journalled
<1>13. OneInv'
  BY <1>2, <1>6 DEF Whole, Held, OneInv
<1>14. ~stray => \A q \in Path : folder[q] \in {act.old[q], act.site[q]}
  BY <1>2, Mixed
<1>15. ~stray /\ act.by # Boot => folder = act.old /\ runtime.now = act.oldBlocks
  BY <1>2 DEF Whole, Held, OutInv, Unpublished
<1>16. OutInv' /\ EntryInv'
  BY <1>2, <1>4, <1>5, <1>14, <1>15 DEF OutInv, EntryInv, Unpublished, Same
<1>17. ServedInv'
  <2> SUFFICES ASSUME ~stray, Kept(journal.active) PROVE ServedInv'
    BY <1>2, <1>9 DEF ServedInv
  <2>1. act.old = row[journal.active].site /\ act.site = row[g0].site
    BY <1>1, <1>2, <1>3, <1>7 DEF Whole, Held, ActInv, Working
  <2>2. GivenUp' => act.by # Boot
    <3>1. up => act.by # Boot
      BY <1>2 DEF Whole, Inv, QueueInv
    <3> QED
      BY <1>2, <1>3, <1>4, <1>5, <1>6, <1>7, <1>8, <3>1 DEF GivenUp
  <2>3. \A q \in Path : folder[q] \in {row[journal.active].site[q], row[g0].site[q]}
    BY <1>14, <2>1
  <2> QED
    BY <1>2, <1>3, <1>4, <1>5, <1>6, <1>7, <1>10, <1>15, <2>1, <2>2, <2>3 DEF ServedInv
<1>18. StoreInv'
  <2>1. \A g \in Gen : /\ row'[g].status = "none" <=> row[g].status = "none"
                       /\ row'[g].site = row[g].site
                       /\ row'[g].status \in {"active", "superseded"}
                           => row[g].status \in {"active", "superseded"}
                       /\ row'[g].status = "inflight" => row[g].status = "inflight"
    BY <1>6, <1>7
  <2>2. ~Secured'
    BY <1>4, <1>5 DEF Secured
  <2> QED
    BY <1>2, <2>1, <2>2, StoreFrame
<1> QED
  BY <1>11, <1>12, <1>13, <1>16, <1>17, <1>18 DEF Held

(* The journal gives the generation up. *)
LEMMA CloseStore == ASSUME Whole, Close PROVE Held'
<1>1. /\ act.pc = "close" /\ act' = Return(act, "refused")
      /\ journal' = [active |-> act.base, desired |-> None]
      /\ UNCHANGED <<work, blobs, row, minted, folder, runtime, gc, owed, up, stray, lived>>
  BY DEF Close
<1>2. act \in Act /\ act.gen \in Gen /\ act.gen # None /\ act.base = journal.active
  BY <1>1, WorksOn DEF Working
<1>3. folder \in Site /\ act.old \in Site /\ act.site \in Site
  BY DEF Whole, Inv, TypeOK, Act
<1>4. PICK a \in Act : a = act'
  BY <1>1, <1>2, ReturnIs
<1>5. /\ Same(act, a)
      /\ act.by # Boot => a.pc = "answer"
      /\ act.by = Boot => a.pc \in {"reboot", "bootup"}
  BY <1>1, <1>2, <1>4, ReturnIs
<1>6. act.by = Boot => /\ a.pc = "reboot" => a.todo = Changed(act.site, act.old)
                       /\ a.pc = "bootup" => act.base = None \/ Changed(act.site, act.old) = {}
  BY <1>1, <1>2, <1>4, ReturnBoot
<1>7. journal'.active = journal.active /\ journal'.desired = None
  BY <1>1, <1>2
<1>8. /\ Kept(journal.active) => act.old = row[journal.active].site /\ act.oldBlocks = row[journal.active].blocks
      /\ journal.desired = act.gen /\ row[act.gen].status \in {"failed", "none"}
  BY <1>1, <1>2 DEF Whole, Held, ActInv, Working, Journalled
<1>9. ~stray => /\ act.by = Boot => \A p \in Path : folder[p] \in {act.old[p], act.site[p]}
                /\ act.by # Boot => folder = act.old /\ runtime.now = act.oldBlocks
  BY <1>1 DEF Whole, Held, OutInv, Unpublished, Working
<1>10. UNCHANGED <<row, minted, folder, runtime, gc, owed, up, stray, lived>>
  BY <1>1
<1>11. RowInv'
  BY <1>1, <1>7, <1>10 DEF Whole, Held, RowInv, Kept
<1>12. OneInv'
  BY <1>7, <1>8, <1>10 DEF Whole, Held, OneInv
<1>13. ActInv'
  BY <1>2, <1>4, <1>5, <1>7, <1>8, <1>10 DEF ActInv, Same, Kept, Working, Journalled
<1>14. ServedInv'
  <2> SUFFICES ASSUME ~stray, Kept(journal.active) PROVE ServedInv'
    BY <1>7, <1>10 DEF ServedInv, Kept
  <2>1. a.pc = "bootup" => folder = act.old
    <3> SUFFICES ASSUME a.pc = "bootup" PROVE folder = act.old
      OBVIOUS
    <3>1. act.by = Boot /\ act.base # None
      BY <1>2, <1>5, GenType DEF Kept
    <3>2. act.site = act.old
      BY <1>3, <1>6, <3>1, NothingChanged
    <3>3. \A p \in Path : folder[p] = act.old[p]
      BY <1>9, <3>1, <3>2
    <3> QED
      BY <1>3, <3>3, SiteEqual
  <2>2. up => act.by # Boot
    BY DEF Whole, Inv, QueueInv
  <2> QED
    BY <1>4, <1>5, <1>7, <1>8, <1>9, <1>10, <2>1, <2>2 DEF ServedInv
<1>15. OutInv' /\ EntryInv'
  <2>1. ~stray /\ a.pc = "reboot" => \A p \in Path \ a.todo : folder[p] = act.old[p]
    BY <1>5, <1>6, <1>9 DEF Changed
  <2> QED
    BY <1>4, <1>5, <1>10, <2>1 DEF OutInv, EntryInv, Unpublished, Same, Working
<1>16. StoreInv'
  BY <1>1, <1>4, <1>5, StoreFrame DEF Secured
<1> QED
  BY <1>11, <1>12, <1>13, <1>14, <1>15, <1>16 DEF Held

(* The row of what is out becomes active. *)
LEMMA ActivateStore == ASSUME Whole, Activate PROVE Held'
<1>1. PICK g0 : g0 = act.gen
  OBVIOUS
<1>2. /\ act.pc = "activate" /\ act' = [act EXCEPT !.pc = "supersede"]
      /\ UNCHANGED <<work, blobs, minted, journal, folder, runtime, gc, owed, up, stray, lived>>
  BY DEF Activate
<1>3. /\ act \in Act /\ g0 \in Gen /\ g0 # None /\ act.base = journal.active /\ g0 # journal.active
      /\ lived < g0 /\ g0 <= minted /\ g0 \in Nat /\ lived \in Nat /\ minted \in Nat
  BY <1>1, <1>2, WorksOn DEF Working
<1>4. PICK a : a = act'
  OBVIOUS
<1>5. Same(act, a) /\ a.pc = "supersede"
  BY <1>2, <1>3, <1>4 DEF Act, Same
<1>6. /\ row'[g0].status = "active" /\ row'[g0].site = row[g0].site /\ row'[g0].blocks = row[g0].blocks
      /\ \A g \in Gen : g # g0 => row'[g] = row[g]
  BY <1>1, <1>3, Marked DEF Activate
<1>7. row[g0].status = "inflight" /\ Kept(g0) /\ journal.desired = g0
  <2>1. row[g0].status = "inflight" /\ journal.desired = g0
    BY <1>1, <1>2 DEF Whole, Held, ActInv, Journalled, Working
  <2> QED
    BY <1>3, <2>1 DEF Kept
<1>8. \A g \in Gen : (Kept(g)' <=> Kept(g)) /\ row'[g].site = row[g].site /\ row'[g].blocks = row[g].blocks
  BY <1>6, <1>7 DEF Kept
<1>9. Kept(journal.active)' <=> Kept(journal.active)
  BY <1>2, <1>3, <1>6 DEF Kept
<1>10. Kept(journal.active) => row'[journal.active] = row[journal.active]
  BY <1>3, <1>6 DEF Kept
<1>11. RowInv'
  <2>1. \A g \in Gen : g > minted => g # g0
    BY <1>3
  <2> QED
    BY <1>2, <1>4, <1>5, <1>6, <1>9, <1>10, <2>1 DEF Whole, Held, RowInv
<1>12. /\ row[g0].site = act.site /\ row[g0].blocks = act.blocks
       /\ Kept(journal.active) => act.old = row[journal.active].site /\ act.oldBlocks = row[journal.active].blocks
       /\ act.by # Boot => g0 = minted
  BY <1>1, <1>2, <1>3, <1>7 DEF Whole, Held, ActInv, Working
<1>13. UNCHANGED <<minted, journal, folder, runtime, stray, up>>
  BY <1>2
<1>14. ActInv'
  <2>1. /\ a.gen = g0 /\ a.base = journal.active /\ a.site = act.site /\ a.blocks = act.blocks
        /\ a.old = act.old /\ a.oldBlocks = act.oldBlocks /\ a.by = act.by
    BY <1>1, <1>3, <1>5 DEF Same
  <2>2. Kept(a.base)' <=> Kept(journal.active)
    BY <1>9, <1>13, <2>1 DEF Kept
  <2> QED
    BY <1>3, <1>4, <1>5, <1>6, <1>7, <1>10, <1>12, <1>13, <2>1, <2>2 DEF ActInv, Working, Journalled
<1>15. OneInv'
  BY <1>6, <1>7, <1>13 DEF Whole, Held, OneInv
<1>16. ~stray => folder = act.site /\ (act.by # Boot => runtime.now = act.blocks)
  BY <1>2 DEF Whole, Held, OutInv
<1>17. OutInv' /\ EntryInv'
  BY <1>4, <1>5, <1>13, <1>16 DEF OutInv, EntryInv, Unpublished, Same
<1>18. ServedInv'
  <2>1. Kept(journal.desired)' /\ ~GivenUp'
    BY <1>3, <1>6, <1>7, <1>8, <1>13 DEF GivenUp, Kept
  <2> QED
    BY <1>3, <1>4, <1>5, <1>6, <1>7, <1>9, <1>12, <1>13, <1>16, <2>1 DEF ServedInv
<1>19. StoreInv'
  <2>1. Named(row[g0].site) \subseteq blobs
    BY <1>2, <1>12 DEF Whole, Held, StoreInv, Secured
  <2>2. \A g \in Gen : /\ row'[g].status = "none" <=> row[g].status = "none"
                       /\ row'[g].site = row[g].site
                       /\ row'[g].status \in {"active", "superseded"}
                           => \/ row[g].status \in {"active", "superseded"}
                              \/ Named(row[g].site) \subseteq blobs
                       /\ row'[g].status = "inflight" => row[g].status = "inflight"
    BY <1>6, <1>7, <2>1
  <2>3. ~Secured'
    BY <1>4, <1>5 DEF Secured
  <2> QED
    BY <1>2, <2>2, <2>3, StoreFrame
<1> QED
  BY <1>11, <1>14, <1>15, <1>17, <1>18, <1>19 DEF Held

(* The row that was serving is superseded, or was gone. *)
LEMMA SupersedeStore == ASSUME Whole, Supersede PROVE Held'
<1>1. PICK g0, b0 : g0 = act.gen /\ b0 = act.base
  OBVIOUS
<1>2. /\ act.pc = "supersede"
      /\ UNCHANGED <<work, blobs, minted, journal, folder, runtime, gc, owed, up, stray, lived>>
  BY DEF Supersede
<1>3. /\ act \in Act /\ g0 \in Gen /\ g0 # None /\ b0 = journal.active /\ g0 # b0
      /\ lived < g0 /\ g0 <= minted /\ g0 \in Nat /\ lived \in Nat /\ minted \in Nat
  BY <1>1, <1>2, WorksOn DEF Working
<1>4. CASE act' = Return(act, "refused") /\ UNCHANGED row
  BY <1>2, <1>4, GivesUp
<1>5. CASE /\ act' = [act EXCEPT !.pc = "commit"]
           /\ \/ b0 = None /\ UNCHANGED row
              \/ Kept(b0) /\ row' = [row EXCEPT ![b0].status = "superseded"]
  <2>1. PICK a : a = act'
    OBVIOUS
  <2>2. Same(act, a) /\ a.pc = "commit"
    BY <1>3, <1>5, <2>1 DEF Act, Same
  <2>3. /\ b0 # None => Kept(b0) /\ row'[b0].status = "superseded" /\ row'[b0].site = row[b0].site
                        /\ row'[b0].blocks = row[b0].blocks
        /\ \A g \in Gen : g # b0 => row'[g] = row[g]
    BY <1>5, Marked DEF Kept
  <2>4. UNCHANGED <<work, blobs, minted, lived, journal, folder, runtime, gc, owed, up, stray>>
    BY <1>2
  <2>5. b0 # None => b0 \in Gen /\ b0 = lived /\ row[b0].status \in {"active", "superseded"}
    BY <1>3, <2>3 DEF Kept, Whole, Held, RowInv
  <2>6. \A g \in Gen : /\ Kept(g)' <=> Kept(g)
                       /\ row'[g].site = row[g].site /\ row'[g].blocks = row[g].blocks
                       /\ row'[g].status = row[g].status \/ (g = b0 /\ row'[g].status = "superseded")
    BY <2>3, <2>5, GenType DEF Kept
  <2>7. (Kept(journal.active)' <=> Kept(journal.active)) /\ (Kept(b0)' <=> Kept(b0))
    BY <1>3, <2>4, <2>6 DEF Kept
  <2>8. row[g0].status = "active" /\ journal.desired = g0 /\ row'[g0] = row[g0] /\ Kept(g0)
    <3>1. row[g0].status = "active" /\ journal.desired = g0
      BY <1>1, <1>2 DEF Whole, Held, ActInv, Journalled, Working
    <3> QED
      BY <1>3, <2>3, <3>1 DEF Kept
  <2>9. /\ row[g0].site = act.site /\ row[g0].blocks = act.blocks
        /\ Kept(b0) => act.old = row[b0].site /\ act.oldBlocks = row[b0].blocks
        /\ act.by # Boot => g0 = minted
    BY <1>1, <1>2, <1>3, <2>8 DEF Whole, Held, ActInv, Working
  <2>10. RowInv'
    <3>1. \A g \in Gen : g > minted => g # b0
      BY <1>3, <2>5, GenType
    <3>2. \A g \in Gen : g > minted => row'[g] = NoRow
      BY <2>3, <3>1 DEF Whole, Held, RowInv
    <3>3. \A g \in Gen : row'[g].status = "superseded" => g <= lived
      BY <1>3, <2>5, <2>6, GenType DEF Whole, Held, RowInv
    <3>4. Kept(journal.active) => row'[journal.active].status \in {"active", "superseded"}
      BY <1>3, <2>3, <2>5, GenType DEF Kept
    <3> QED
      BY <1>2, <2>1, <2>2, <2>4, <2>7, <3>2, <3>3, <3>4 DEF Whole, Held, RowInv
  <2>11. ActInv'
    <3>1. /\ a.gen = g0 /\ a.base = b0 /\ a.site = act.site /\ a.blocks = act.blocks
          /\ a.old = act.old /\ a.oldBlocks = act.oldBlocks /\ a.by = act.by
      BY <1>1, <2>2 DEF Same
    <3>2. Kept(b0) => row'[b0].site = act.old /\ row'[b0].blocks = act.oldBlocks
      BY <2>3, <2>5, <2>9, GenType DEF Kept
    <3> QED
      BY <1>3, <2>1, <2>2, <2>3, <2>4, <2>7, <2>8, <2>9, <3>1, <3>2 DEF ActInv, Working, Journalled
  <2>12. OneInv'
    BY <2>4, <2>6 DEF Whole, Held, OneInv
  <2>13. ~stray => folder = act.site /\ (act.by # Boot => runtime.now = act.blocks)
    BY <1>2 DEF Whole, Held, OutInv
  <2>14. OutInv' /\ EntryInv'
    BY <2>1, <2>2, <2>4, <2>13 DEF OutInv, EntryInv, Unpublished, Same
  <2>15. ServedInv'
    <3>1. Kept(journal.desired)' /\ ~GivenUp'
      BY <1>3, <2>4, <2>6, <2>8 DEF GivenUp, Kept
    <3> QED
      BY <1>3, <2>1, <2>2, <2>4, <2>8, <2>9, <2>13, <3>1 DEF ServedInv
  <2>16. StoreInv'
    <3>1. \A g \in Gen : /\ row'[g].status = "none" <=> row[g].status = "none"
                         /\ row'[g].site = row[g].site
                         /\ row'[g].status \in {"active", "superseded"}
                             => row[g].status \in {"active", "superseded"}
                         /\ row'[g].status = "inflight" => row[g].status = "inflight"
      <4> SUFFICES ASSUME NEW g \in Gen, row'[g].status # row[g].status
                   PROVE  row'[g].status = "superseded" /\ row[g].status \in {"active", "superseded"}
        BY <2>6
      <4>1. g = b0 /\ b0 # None
        BY <2>6, GenType
      <4> QED
        BY <2>5, <2>6, <4>1
    <3>2. ~Secured'
      BY <2>1, <2>2 DEF Secured
    <3> QED
      BY <2>4, <3>1, <3>2, StoreFrame
  <2> QED
    BY <2>10, <2>11, <2>12, <2>14, <2>15, <2>16 DEF Held
<1> QED
  BY <1>1, <1>3, <1>4, <1>5 DEF Supersede

(* The journal moves to the generation that is out. *)
LEMMA CommitStore == ASSUME Whole, Commit PROVE Held'
<1>1. PICK g0 : g0 = act.gen
  OBVIOUS
<1>2. /\ act.pc = "commit" /\ journal' = [active |-> act.gen, desired |-> None] /\ lived' = act.gen
      /\ act' = [act EXCEPT !.pc = "reread"]
      /\ UNCHANGED <<work, blobs, row, minted, folder, runtime, gc, up, stray>>
  BY DEF Commit
<1>3. /\ act \in Act /\ g0 \in Gen /\ g0 # None /\ act.base = journal.active /\ g0 # journal.active
      /\ lived < g0 /\ g0 <= minted /\ g0 \in Nat /\ lived \in Nat /\ minted \in Nat
  BY <1>1, <1>2, WorksOn DEF Working
<1>4. PICK a : a = act'
  OBVIOUS
<1>5. Same(act, a) /\ a.pc = "reread"
  BY <1>2, <1>3, <1>4 DEF Act, Same
<1>6. journal'.active = g0 /\ journal'.desired = None /\ lived' = g0
  BY <1>1, <1>2
<1>7. UNCHANGED <<work, blobs, row, minted, folder, runtime, gc, up, stray>>
  BY <1>2
<1>8. /\ row[g0].status = "active" /\ journal.desired = g0 /\ (act.by # Boot => g0 = minted)
      /\ act.base # None => row[act.base].status # "active"
  BY <1>1, <1>2 DEF Whole, Held, ActInv, Working, Journalled
<1>9. Kept(g0) /\ row[g0].site = act.site /\ row[g0].blocks = act.blocks
  <2>1. Kept(g0)
    BY <1>3, <1>8 DEF Kept
  <2> QED
    BY <1>1, <1>2, <2>1 DEF Whole, Held, ActInv, Working
<1>10. up <=> act.by # Boot
  BY <1>2 DEF Whole, Inv, QueueInv
<1>11. RowInv'
  <2>1. \A g \in Gen : row[g].status = "superseded" => g <= g0
    <3> SUFFICES ASSUME NEW g \in Gen, row[g].status = "superseded" PROVE g <= g0
      OBVIOUS
    <3>1. g \in Nat /\ g <= lived
      BY GenNat DEF Whole, Held, RowInv
    <3> QED
      BY <1>3, <3>1
  <2> QED
    BY <1>3, <1>4, <1>5, <1>6, <1>7, <1>8, <1>10, <2>1 DEF Whole, Held, RowInv
<1>12. ActInv'
  BY <1>1, <1>3, <1>4, <1>5, <1>6, <1>7, <1>8, <1>9 DEF ActInv, Same, Working, Journalled
<1>13. OneInv'
  BY <1>3, <1>6, <1>7, <1>8, GenType DEF Whole, Held, OneInv
<1>14. ~stray => folder = act.site /\ (act.by # Boot => runtime.now = act.blocks)
  BY <1>2 DEF Whole, Held, OutInv
<1>15. ServedInv'
  BY <1>6, <1>7, <1>9, <1>10, <1>14 DEF ServedInv
<1>16. OutInv' /\ EntryInv'
  BY <1>4, <1>5 DEF OutInv, EntryInv, Unpublished, Working
<1>17. StoreInv'
  BY <1>4, <1>5, <1>7, StoreFrame DEF Secured
<1> QED
  BY <1>11, <1>12, <1>13, <1>15, <1>16, <1>17 DEF Held

(* Nothing is newer than the newest generation. *)
LEMMA NewestInWindow == ASSUME Whole PROVE InWindow(minted)
<1>1. \A h \in Rows : ~(h > minted)
  BY DEF Rows, Kept, NoRow, Whole, Held, RowInv
<1>2. {h \in Rows : h > minted} = {}
  BY <1>1
<1> QED
  BY <1>2, FS_EmptySet, BoundAssumption DEF InWindow

(* The workspace follows a rollback, whose content is stored. *)
LEMMA AdoptStore == ASSUME Whole, Adopt PROVE Held'
<1>1. /\ act.pc = "adopt" /\ gc.pc # "delete" /\ work' = act.site /\ act' = Return(act, "live")
      /\ UNCHANGED <<blobs, row, minted, journal, folder, runtime, gc, owed, up, stray, lived>>
  BY DEF Adopt, WorkspaceFree
<1>2. act \in Act /\ act.by # Boot /\ minted \in Gen
  BY <1>1 DEF Whole, Inv, TypeOK, QueueInv
<1>3. PICK a : a = act'
  OBVIOUS
<1>4. Same(act, a) /\ a.pc = "answer"
  BY <1>1, <1>2, <1>3, ReturnIs
<1>5. RowInv' /\ OneInv'
  BY <1>1, RowFrame
<1>6. ServedInv'
  BY <1>1, <1>3, <1>4, ServedFrame
<1>7. ActInv' /\ OutInv' /\ EntryInv'
  BY <1>2, <1>3, <1>4 DEF ActInv, OutInv, EntryInv, Unpublished, Working, Journalled
<1>8. Named(act.site) \subseteq blobs
  <2>1. act.gen = minted /\ row[minted].status = "active"
    BY <1>1, <1>2 DEF Whole, Held, ActInv
  <2>2. minted \in Rows /\ row[minted].site = act.site
    BY <1>1, <1>2, <2>1 DEF Rows, Kept, Whole, Held, ActInv
  <2> QED
    BY <2>1, <2>2, NewestInWindow DEF Whole, Held, StoreInv
<1>9. StoreInv'
  <2>1. Rows' = Rows /\ \A g \in Gen : InWindow(g)' = InWindow(g)
    BY <1>1, WindowSame
  <2>2. Named(work)' = Named(act.site) /\ ~Secured'
    BY <1>1, <1>3, <1>4 DEF Named, Secured
  <2>3. \A g \in Rows : Named(row[g].site)' = Named(row[g].site)
    BY <1>1 DEF Named
  <2> QED
    BY <1>1, <1>8, <2>1, <2>2, <2>3, RowsFinite DEF Whole, Held, StoreInv
<1> QED
  BY <1>5, <1>6, <1>7, <1>9 DEF Held

(* The boot takes up what the journal names. *)
LEMMA ConvergeStore == ASSUME Whole, Converge PROVE Held'
<1>1. PICK base, desired, boot :
        /\ base = IF Kept(journal.active) THEN journal.active ELSE None
        /\ desired = journal.desired
        /\ boot = [Idle EXCEPT !.by = Boot, !.kind = "boot", !.base = base,
                               !.old = Manifest(base).site, !.oldBlocks = Manifest(base).blocks]
  OBVIOUS
<1>2. /\ ~up /\ act.pc = "idle"
      /\ row' = [g \in Gen |-> IF row[g].status = "inflight" /\ g # desired
                               THEN [row[g] EXCEPT !.status = "failed"] ELSE row[g]]
      /\ journal' = [journal EXCEPT !.active = base]
      /\ stray' = (stray \/ base # journal.active)
      /\ act' = IF desired = None THEN [boot EXCEPT !.pc = "bootup"]
                ELSE IF Kept(desired)
                THEN [boot EXCEPT !.pc = "journal", !.gen = desired, !.site = row[desired].site,
                                  !.blocks = row[desired].blocks]
                ELSE Return(boot, "refused")
      /\ UNCHANGED <<work, blobs, minted, folder, runtime, gc, owed, up, lived>>
  BY <1>1 DEF Converge
<1>3. \A g \in Gen : /\ row'[g].site = row[g].site /\ row'[g].blocks = row[g].blocks
                     /\ row[g].status # "inflight" \/ g = desired => row'[g] = row[g]
                     /\ row[g].status = "inflight" /\ g # desired => row'[g].status = "failed"
  BY <1>2 DEF Whole, Inv, TypeOK, Row
<1>4. gc.pc = "idle" /\ owed = 0
  BY <1>2 DEF Whole, Held, RowInv
<1>5. journal'.active = base /\ journal'.desired = desired /\ desired \in {None} \cup Gen
  BY <1>1, <1>2 DEF Whole, Inv, TypeOK
<1>6. \A g \in Gen : Kept(g)' <=> Kept(g)
  BY <1>3 DEF Kept
<1>7. /\ base # None => Kept(base) /\ base \in Gen /\ base = journal.active /\ Manifest(base) = row[base]
      /\ base \in {None} \cup Gen
  BY <1>1 DEF Kept, Manifest
<1>8. UNCHANGED <<work, blobs, minted, folder, runtime, gc, owed, up, lived>>
  BY <1>2
<1>9. ~stray' => ~stray /\ base = journal.active /\ base # None /\ Kept(base)
  BY <1>1, <1>2, <1>7 DEF Whole, Held, RowInv
<1>10. /\ boot \in Act /\ boot.by = Boot /\ boot.base = base /\ boot.gen = None /\ ~boot.rebuilt
       /\ boot.old = Manifest(base).site /\ boot.oldBlocks = Manifest(base).blocks
  <2>1. Manifest(base) \in Row
    BY <1>7, IdleType DEF Manifest, Whole, Inv, TypeOK, NoRow, Row
  <2>2. Manifest(base).site \in Site /\ Manifest(base).blocks \in SUBSET Block
    BY <2>1 DEF Row
  <2> QED
    BY <1>1, <1>7, <2>2, IdleType DEF Act, Idle
<1>11. PICK a : a = act'
  OBVIOUS
<1>12. /\ a.by = Boot /\ a.base = base /\ a.old = Manifest(base).site /\ a.oldBlocks = Manifest(base).blocks
       /\ ~a.rebuilt
       /\ \/ a.pc = "bootup" /\ a.gen = None /\ desired = None
          \/ /\ a.pc = "journal" /\ a.gen = desired /\ Kept(desired)
             /\ a.site = row[desired].site /\ a.blocks = row[desired].blocks
          \/ a.pc \in {"reboot", "bootup"} /\ a.gen = None /\ desired # None /\ ~Kept(desired)
  <2>1. CASE desired = None
    <3>1. a = [boot EXCEPT !.pc = "bootup"]
      BY <1>2, <1>11, <2>1
    <3> QED
      BY <1>10, <2>1, <3>1 DEF Act
  <2>2. CASE desired # None /\ Kept(desired)
    <3>1. a = [boot EXCEPT !.pc = "journal", !.gen = desired, !.site = row[desired].site,
                           !.blocks = row[desired].blocks]
      BY <1>2, <1>11, <2>2
    <3> QED
      BY <1>10, <2>2, <3>1 DEF Act
  <2>3. CASE desired # None /\ ~Kept(desired)
    <3>1. a = Return(boot, "refused")
      BY <1>2, <1>11, <2>3
    <3> QED
      BY <1>10, <2>3, <3>1, ReturnIs, ReturnBoot DEF Same
  <2> QED
    BY <2>1, <2>2, <2>3
<1>13. Kept(base)' <=> Kept(base)
  BY <1>6 DEF Kept
<1>14. Kept(desired)' <=> Kept(desired)
  BY <1>6 DEF Kept
<1>15. RowInv'
  <2>1. \A g \in Gen : g > minted => row'[g] = NoRow
    <3> SUFFICES ASSUME NEW g \in Gen, g > minted PROVE row'[g] = NoRow
      OBVIOUS
    <3>1. row[g] = NoRow /\ row[g].status # "inflight"
      BY DEF Whole, Held, RowInv, NoRow
    <3> QED
      BY <1>3, <3>1
  <2>2. \A g \in Gen : row'[g].status = "superseded" => row[g].status = "superseded"
    BY <1>3
  <2>3. base \in {None, lived} /\ (Kept(base) => row[base].status \in {"active", "superseded"})
    BY <1>7, GenType DEF Kept, Whole, Held, RowInv
  <2>4. Kept(base) => row'[base].status \in {"active", "superseded"}
    BY <1>3, <2>3 DEF Kept
  <2>5. Kept(journal.active)' <=> Kept(base)
    BY <1>5, <1>13 DEF Kept
  <2> QED
    BY <1>4, <1>5, <1>8, <1>9, <2>1, <2>2, <2>3, <2>4, <2>5 DEF Whole, Held, RowInv
<1>16. Kept(base) => row'[base].site = Manifest(base).site /\ row'[base].blocks = Manifest(base).blocks
  BY <1>3, <1>7, GenType DEF Kept
<1>17. ActInv'
  <2>1. Kept(desired) => desired \in Gen /\ desired # None
                         /\ row'[desired].site = row[desired].site /\ row'[desired].blocks = row[desired].blocks
    BY <1>3, GenType DEF Kept
  <2> QED
    BY <1>5, <1>11, <1>12, <1>13, <1>14, <1>16, <2>1 DEF ActInv, Working, Journalled
<1>18. OneInv'
  <2>1. \A g \in Gen : row'[g].status = "active" => row[g].status = "active"
    BY <1>3
  <2> QED
    BY <1>1, <1>5, <1>9, <2>1 DEF Whole, Held, OneInv
<1>19. ~stray' => /\ desired = None \/ ~Kept(desired) => folder = row[base].site
                  /\ Kept(desired) =>
                       \A p \in Path : folder[p] \in {row[base].site[p], row[desired].site[p]}
  <2>1. Kept(desired) => desired # None
    BY GenType DEF Kept
  <2> QED
    BY <1>1, <1>2, <1>9, <2>1 DEF Whole, Held, ServedInv, GivenUp
<1>20. ServedInv'
  <2> SUFFICES ASSUME ~stray' PROVE ServedInv'
    BY DEF ServedInv
  <2>1. base \in Gen /\ row'[base].site = row[base].site
    BY <1>3, <1>7, <1>9
  <2>2. Kept(desired) => row'[desired].site = row[desired].site
    BY <1>3 DEF Kept
  <2>3. GivenUp' => ~Kept(desired) \/ a.pc = "bootup"
    BY <1>2, <1>5, <1>8, <1>11, <1>14 DEF GivenUp
  <2>4. a.pc = "bootup" => desired = None \/ ~Kept(desired)
    BY <1>12
  <2>5. Kept(journal.desired)' => Kept(desired)
    BY <1>5, <1>14 DEF Kept
  <2>6. ~up'
    BY <1>2
  <2> QED
    BY <1>5, <1>8, <1>11, <1>19, <2>1, <2>2, <2>3, <2>4, <2>5, <2>6 DEF ServedInv
<1>21. OutInv' /\ EntryInv'
  <2>1. ~stray' => a.old = row[base].site
    BY <1>7, <1>9, <1>12
  <2>2. ~stray' /\ a.pc = "journal" => \A p \in Path : folder[p] \in {a.old[p], a.site[p]}
    BY <1>12, <1>19, <2>1
  <2>3. ~stray' /\ a.pc = "reboot" => \A p \in Path : folder[p] = a.old[p]
    BY <1>12, <1>19, <2>1
  <2>4. a.by = Boot /\ a.pc \in {"journal", "reboot", "bootup"}
    BY <1>12
  <2> QED
    BY <1>8, <1>11, <2>2, <2>3, <2>4 DEF OutInv, EntryInv, Unpublished, Working
<1>22. StoreInv'
  <2>1. ~Secured'
    BY <1>11, <1>12 DEF Secured
  <2>2. \A g \in Gen : /\ row'[g].status = "none" <=> row[g].status = "none"
                       /\ row'[g].site = row[g].site
                       /\ row'[g].status \in {"active", "superseded"}
                           => row[g].status \in {"active", "superseded"}
                       /\ row'[g].status = "inflight" => row[g].status = "inflight"
    BY <1>3
  <2> QED
    BY <1>8, <2>1, <2>2, StoreFrame
<1> QED
  BY <1>15, <1>17, <1>18, <1>20, <1>21, <1>22 DEF Held

-----------------------------------------------------------------------------
(* THE THEOREMS *)

(* A seeded instance: the seed is active, served and stored. *)
LEMMA StartStore == ASSUME Init PROVE Whole
<1>1. Inv
  BY Start
<1>2. /\ work = Seeded /\ folder = Seeded /\ blobs = Named(Seeded) /\ minted = 1 /\ lived = 1
      /\ journal.active = 1 /\ journal.desired = None /\ runtime.now = {} /\ act = Idle /\ gc = Rest
      /\ owed = 0 /\ up /\ ~stray
  BY DEF Init
<1>3. /\ row[1].status = "active" /\ row[1].site = Seeded /\ row[1].blocks = {}
      /\ \A g \in Gen : g # 1 => row[g] = NoRow
  BY GenType DEF Init
<1>4. act.pc = "idle" /\ gc.pc = "idle"
  BY <1>2 DEF Idle, Rest
<1>5. RowInv
  <2>1. \A g \in Gen : g > 1 => g # 1
    BY GenNat
  <2>2. \A g \in Gen : row[g].status = "superseded" => FALSE
    BY <1>3 DEF NoRow
  <2>3. journal.active # None
    BY <1>2 DEF None
  <2> QED
    BY <1>2, <1>3, <1>4, <2>1, <2>2, <2>3 DEF RowInv
<1>6. ActInv /\ OutInv /\ EntryInv
  BY <1>4 DEF ActInv, OutInv, EntryInv, Unpublished, Working, Journalled
<1>7. OneInv
  BY <1>2, <1>3 DEF OneInv, NoRow
<1>8. ServedInv
  BY <1>2, <1>3, <1>4 DEF ServedInv
<1>9. StoreInv
  <2>1. \A g \in Rows : g = 1
    BY <1>3 DEF Rows, Kept, NoRow
  <2> QED
    BY <1>2, <1>3, <1>4, <2>1 DEF StoreInv, Secured
<1> QED
  BY <1>1, <1>5, <1>6, <1>7, <1>8, <1>9 DEF Whole, Held

(* Nothing happens. *)
LEMMA StutterStore == ASSUME Whole, UNCHANGED vars PROVE Held'
<1>1. /\ UNCHANGED <<row, minted, lived, journal, folder, runtime, stray, up, gc, owed, work, blobs, act>>
  BY DEF vars
<1>2. RowInv' /\ OneInv'
  BY <1>1 DEF Whole, Held, RowInv, OneInv, Kept
<1>3. ActInv'
  BY <1>1 DEF Whole, Held, ActInv, Kept
<1>4. ServedInv'
  BY <1>1 DEF Whole, Held, ServedInv, Kept, GivenUp
<1>5. OutInv' /\ EntryInv'
  BY <1>1 DEF Whole, Held, OutInv, Unpublished, EntryInv
<1>6. StoreInv'
  <2>1. Secured' => Named(act.site) \subseteq blobs
    BY <1>1 DEF Secured, Whole, Held, StoreInv
  <2> QED
    BY <1>1, <2>1, StoreFrame
<1> QED
  BY <1>2, <1>3, <1>4, <1>5, <1>6 DEF Held

(* Every step keeps the invariant. *)
LEMMA StepStore == ASSUME Whole, [Next]_vars PROVE Whole'
<1>1. Inv'
  BY Step DEF Whole, Good
<1> SUFFICES Held'
  BY <1>1 DEF Whole
<1>2. ASSUME NEW c \in Client, Request(c) PROVE Held'
  BY <1>2, WriteStore, RequestStore DEF Request
<1>3. CASE Drive
  BY <1>3, StageStore, JournalStore, ValidateStore, RebuildStore, AbandonStore, CloseStore,
     ActivateStore, SupersedeStore, CommitStore, RereadStore, AdoptStore, AnswerStore, PutFileStore,
     PublishFailsStore DEF Drive
<1>4. CASE Maintain
  BY <1>4, PruneStore, FindGarbageStore, CollectStore DEF Maintain
<1> QED
  BY <1>2, <1>3, <1>4, RequestStore, CallFailsStore, CrashStore, ConvergeStore, BootUpStore,
     StutterStore DEF Next, Finished

(* The inductive invariant of what is served and stored. *)
THEOREM StoreInvariant == Spec => []Whole
<1>1. Init => Whole
  BY StartStore
<1>2. Whole /\ [Next]_vars => Whole'
  BY StepStore
<1> QED
  BY <1>1, <1>2, PTL DEF Spec

(* Whatever was interrupted and repaired: at rest browsers are served       *)
(* exactly the site of the active generation, and the runtime its blocks.   *)
THEOREM CoherentAlways == Spec => []Coherent
<1>1. Whole => Coherent
  BY DEF Whole, Held, ServedInv, Coherent, AtRest
<1> QED
  BY <1>1, StoreInvariant, PTL

(* activate_staged: "Exactly one generation is Active at a time".  At rest  *)
(* no row says active but the one the journal names.                        *)
THEOREM OneActiveAlways == Spec => []OneActive
<1>1. Whole => OneActive
  BY GenType DEF Whole, Held, OneInv, OneActive, AtRest
<1> QED
  BY <1>1, StoreInvariant, PTL

(* publisher.rs, "Why the order matters": a browser that is served the new  *)
(* entrypoint is served the new version of every other file.                *)
THEOREM EntrypointLastAlways == Spec => []EntrypointLast
<1>1. Whole => EntrypointLast
  <2> SUFFICES ASSUME Whole, act.pc \in {"publish", "activate", "supersede", "commit"}, act.by # Boot,
                      ~stray, act.site[Entry] \notin {act.old[Entry], Absent},
                      folder[Entry] = act.site[Entry]
               PROVE  folder = act.site
    BY DEF EntrypointLast
  <2>1. act.pc # "publish"
    BY DEF Whole, Held, OutInv, EntryInv
  <2> QED
    BY <2>1 DEF Whole, Held, OutInv
<1> QED
  BY <1>1, StoreInvariant, PTL

(* gc.rs and retention.rs: a collection beside writes, activations and      *)
(* rollbacks never deletes what a rollback within the window, the workspace *)
(* or the publish under way needs.                                          *)
THEOREM TargetsStoredAlways == Spec => []TargetsStored
<1>1. Whole => TargetsStored
  BY DEF Whole, Held, StoreInv, Secured, TargetsStored
<1> QED
  BY <1>1, StoreInvariant, PTL
=============================================================================

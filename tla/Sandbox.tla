------------------------------- MODULE Sandbox -------------------------------
(***************************************************************************)
(* The dev sandbox's activations (blocks/dev: activation.rs, publisher.rs, *)
(* retention.rs, gc.rs, files.rs, blocks_api.rs, generations_api.rs).      *)
(* Requests change the workspace, or ask for a block set or a rollback;    *)
(* one of them at a time drives an activation, which stages a generation,  *)
(* journals it, may rebuild the runtime, publishes the site file by file   *)
(* and commits.  A maintenance pass prunes the ledger and deletes blobs    *)
(* beside it.  The process can die anywhere, and the next boot converges   *)
(* on what the journal names.                                              *)
(*                                                                         *)
(* A step is one storage or database call; several calls are one step when *)
(* the lock they run under keeps everybody else out.  A site maps a path   *)
(* to the content (the blob) at it.  The three in-flight statuses of a     *)
(* generation are one, and so are the journal's phases: nothing reads the  *)
(* difference.                                                             *)
(***************************************************************************)
EXTENDS Integers, FiniteSets

CONSTANTS
  Path, Entry,   \* paths of a site; index.html
  Content,       \* contents of a file, each stored as the blob of its hash
  Absent,        \* no file at a path
  Block,         \* names of dynamic blocks
  Seeded,        \* the seed's site
  Edit,          \* the writes and removals that requests make
  Client,        \* requests, each made once
  Window,        \* RETAINED_GENERATIONS
  MaxCrashes,    \* bound on deaths of the process
  MaxFaults,     \* bound on failed calls and cancelled requests
  Nobody, Boot      \* no process; the boot of the process

ASSUME SiteAssumption == Entry \in Path /\ Absent \notin Content
                         /\ Seeded \in [Path -> Content \cup {Absent}]
                         /\ Edit \subseteq Path \X (Content \cup {Absent})
ASSUME ProcessAssumption == Nobody # Boot /\ {Nobody, Boot} \cap Client = {}
                            /\ IsFiniteSet(Client)
ASSUME BoundAssumption == Window \in Nat \ {0} /\ MaxCrashes \in Nat /\ MaxFaults \in Nat

VARIABLES
  work,     \* workspace.json: its site/ half
  blobs,    \* the blob store
  row,      \* impresspress__dev__generations, by the order of creation
  minted,   \* the generation created last
  journal,  \* impresspress__dev__runtime_state
  folder,   \* wafer-run/web/site, what browsers are served
  runtime,  \* the blocks of the running runtime, and of the one it replaced
  queue,    \* DevShared::activation
  client,   \* each request
  act,      \* the activation that runs: the driver's, or the boot's
  gc,       \* the maintenance pass
  owed,     \* maintenance passes that are scheduled
  up,       \* the process has booted and serves requests
  crashes, faults,
  lived,    \* history: the generation committed last
  stray     \* history: a recovery was given up, or went over a commit

disk == <<work, blobs, row, minted, journal, folder>>
vars == <<work, blobs, row, minted, journal, folder, runtime, queue, client, act,
          gc, owed, up, crashes, faults, lived, stray>>

Site == [Path -> Content \cup {Absent}]
Empty == [p \in Path |-> Absent]
Named(s) == {s[p] : p \in Path} \ {Absent}

(* Each request makes at most one generation, and the seed made the first. *)
Gen == 1 .. Cardinality(Client) + 1
None == 0

Row == [status : {"none", "inflight", "active", "superseded", "failed"},
        site : Site, blocks : SUBSET Block]
NoRow == [status |-> "none", site |-> Empty, blocks |-> {}]
Kept(g) == g \in Gen /\ row[g].status # "none"

(* The manifest of a generation that may be none. *)
Manifest(g) == IF g = None THEN NoRow ELSE row[g]

Idle == [pc |-> "idle", by |-> Nobody, kind |-> "none", site |-> Empty, blocks |-> {},
         gen |-> None, base |-> None, old |-> Empty, oldBlocks |-> {}, rebuilt |-> FALSE,
         todo |-> {}, waiters |-> {}, told |-> "refused"]

NoQueue == [driver |-> Nobody, mine |-> "none", kind |-> "none", site |-> Empty,
            blocks |-> {}, waiters |-> {}]

Rest == [pc |-> "idle", garbage |-> {}]

(* A seeded instance: generation 1 is live. *)
Init ==
  /\ work = Seeded /\ folder = Seeded /\ blobs = Named(Seeded)
  /\ row = [g \in Gen |-> IF g = 1 THEN [status |-> "active", site |-> Seeded, blocks |-> {}]
                                   ELSE NoRow]
  /\ minted = 1
  /\ journal = [active |-> 1, desired |-> None]
  /\ runtime = [now |-> {}, before |-> {}]
  /\ queue = NoQueue
  /\ client = [c \in Client |-> [pc |-> "new", kind |-> "none", site |-> Empty, blocks |-> {},
                                 seen |-> 0]]
  /\ act = Idle
  /\ gc = Rest /\ owed = 0
  /\ up = TRUE /\ crashes = 0 /\ faults = 0 /\ lived = 1 /\ stray = FALSE

Fault == faults < MaxFaults /\ faults' = faults + 1

-----------------------------------------------------------------------------
(* THE QUEUE *)

(* ActivationIntent::supersedes *)
Supersedes(kind, pending) == kind # "site" \/ pending = "site"

Begin(q, kind, site, blocks, waiters) ==
  /\ queue' = q
  /\ act' = [Idle EXCEPT !.pc = "stage", !.by = q.driver, !.kind = kind, !.site = site,
                         !.blocks = blocks, !.waiters = waiters]

Fold(c, kind, site, blocks) ==
  LET q == [queue EXCEPT !.waiters = @ \cup {c}]
  IN queue' = IF queue.waiters = {} \/ Supersedes(kind, queue.kind)
              THEN [q EXCEPT !.kind = kind, !.site = site, !.blocks = blocks]
              ELSE q

(* Bug: a request that finds an activation running takes its outcome. *)
AdmitJoins(c, kind, site, blocks) ==
  LET entered(pc) == [client EXCEPT ![c] = [pc |-> pc, kind |-> kind, site |-> Empty,
                                            blocks |-> {}, seen |-> minted]]
  IN IF queue.driver = Nobody
     THEN /\ Begin([NoQueue EXCEPT !.driver = c], kind, site, blocks, {})
          /\ client' = entered("driving")
     ELSE /\ act' = [act EXCEPT !.waiters = @ \cup {c}]
          /\ client' = entered("waiting")
          /\ UNCHANGED queue

(* ActivationQueue::admit: drive, or be folded into the pending request. *)
Admit(c, kind, site, blocks) ==
  LET entered(pc) == [client EXCEPT ![c] = [pc |-> pc, kind |-> kind, site |-> Empty,
                                            blocks |-> {}, seen |-> minted]]
  IN IF queue.driver = Nobody
     THEN /\ Begin([NoQueue EXCEPT !.driver = c], kind, site, blocks, {})
          /\ client' = entered("driving")
     ELSE /\ Fold(c, kind, site, blocks)
          /\ client' = entered("waiting")
          /\ UNCHANGED act

(* The end of activate with an outcome, for the driver or for the waiters   *)
(* of the request it ran for them, and QueueLease::next: take the pending   *)
(* request, or release the queue and return the driver's own outcome.       *)
Answer ==
  LET own == queue.mine = "none"
      mine == IF own THEN act.told ELSE queue.mine
      told(c) == IF c \in act.waiters THEN act.told ELSE client[c].pc
  IN /\ act.pc = "answer"
     /\ IF queue.waiters = {}
        THEN /\ queue' = NoQueue
             /\ act' = Idle
             /\ client' = [c \in Client |-> [client[c] EXCEPT
                             !.pc = IF c = queue.driver THEN mine ELSE told(c)]]
        ELSE /\ Begin([NoQueue EXCEPT !.driver = queue.driver, !.mine = mine],
                      queue.kind, queue.site, queue.blocks,
                      {c \in queue.waiters : client[c].pc = "waiting"})
             /\ client' = [c \in Client |-> [client[c] EXCEPT !.pc = told(c)]]
     /\ UNCHANGED <<disk, runtime, gc, owed, up, crashes, faults, stray, lived>>

(* Bug: a driver that is dropped leaves the queue marked as running. *)
CancelKeepsRunning(c) ==
  /\ Fault
  /\ client[c].pc \in {"asking", "waiting", "driving"}
  /\ client' = [client EXCEPT ![c].pc = "gone"]
  /\ act' = IF queue.driver = c THEN Idle ELSE [act EXCEPT !.waiters = @ \ {c}]
  /\ UNCHANGED <<disk, queue, runtime, gc, owed, up, crashes, stray, lived>>

(* A request is dropped.  A driver's QueueLease::drop releases the queue    *)
(* and fails everybody it would have answered; a waiter's request stays in  *)
(* the queue.                                                               *)
Cancel(c) ==
  LET orphans == IF queue.driver = c THEN act.waiters \cup queue.waiters ELSE {}
  IN /\ Fault
     /\ client[c].pc \in {"asking", "waiting", "driving"}
     /\ client' = [d \in Client |-> [client[d] EXCEPT
                     !.pc = IF d = c THEN "gone"
                            ELSE IF d \in orphans /\ @ = "waiting" THEN "refused" ELSE @]]
     /\ queue' = IF queue.driver = c THEN NoQueue ELSE queue
     /\ act' = IF queue.driver = c THEN Idle ELSE [act EXCEPT !.waiters = @ \ {c}]
     /\ UNCHANGED <<disk, runtime, gc, owed, up, crashes, stray, lived>>

-----------------------------------------------------------------------------
(* REQUESTS *)

(* DevShared::workspace_manifest: only a collection holds it across steps. *)
WorkspaceFree == gc.pc # "delete"

(* handle_write and handle_delete, under the workspace lock: the blob is    *)
(* stored, then the workspace that names it is saved, or the save fails.    *)
(* The request enters the queue without the lock, or is dropped before: a   *)
(* step of somebody else in between would only make it enter later.         *)
Write(c, p, v) ==
  /\ up /\ client[c].pc = "new" /\ WorkspaceFree
  /\ v # work[p]
  /\ blobs' = blobs \cup ({v} \ {Absent})
  /\ \/ /\ work' = [work EXCEPT ![p] = v]
        /\ Admit(c, "site", Empty, {})
        /\ UNCHANGED faults
     \/ /\ Fault
        /\ work' \in {work, [work EXCEPT ![p] = v]}
        /\ client' = [client EXCEPT ![c].pc = "gone"]
        /\ UNCHANGED <<queue, act>>
  /\ UNCHANGED <<row, minted, journal, folder, runtime, gc, owed, up, crashes, stray, lived>>

(* Workspace::compile is held from the read of the active block set to the  *)
(* answer of the request, by a compile, a removal and a rollback.           *)
Compiling == {c \in Client : /\ client[c].kind \in {"blocks", "rollback"}
                             /\ client[c].pc \in {"asking", "waiting", "driving"}}

(* stage and remove of blocks_api.rs: the active blocks with one more or    *)
(* one less.                                                                *)
WantBlocks(c, b) ==
  LET live == Manifest(journal.active).blocks
  IN /\ up /\ client[c].pc = "new" /\ Compiling = {}
     /\ journal.active = None \/ Kept(journal.active)
     /\ client' = [client EXCEPT ![c].pc = "asking", ![c].kind = "blocks",
                                 ![c].blocks = IF b \in live THEN live \ {b} ELSE live \cup {b}]
     /\ UNCHANGED <<disk, runtime, queue, act, gc, owed, up, crashes, faults, stray, lived>>

(* handle_rollback: the target's manifest is carried, not its id. *)
WantRollback(c, g) ==
  /\ up /\ client[c].pc = "new" /\ Compiling = {} /\ Kept(g)
  /\ client' = [client EXCEPT ![c].pc = "asking", ![c].kind = "rollback",
                              ![c].site = row[g].site, ![c].blocks = row[g].blocks]
  /\ UNCHANGED <<disk, runtime, queue, act, gc, owed, up, crashes, faults, stray, lived>>

(* A block set or a rollback enters the queue. *)
Enter(c) ==
  /\ up /\ client[c].pc = "asking"
  /\ Admit(c, client[c].kind, client[c].site, client[c].blocks)
  /\ UNCHANGED <<disk, runtime, gc, owed, up, crashes, faults, stray, lived>>

(* A delete under blocks/ publishes nothing: it only schedules a pass. *)
DeleteSource(c) ==
  /\ up /\ client[c].pc = "new"
  /\ client' = [client EXCEPT ![c].pc = "gone"]
  /\ owed' = owed + 1
  /\ UNCHANGED <<disk, runtime, queue, act, gc, up, crashes, faults, stray, lived>>

-----------------------------------------------------------------------------
(* THE ACTIVATION *)

(* The files publish_site has to write or remove. *)
Changed(prev, next) == {p \in Path : prev[p] # next[p]}

(* What follows a publish, once every file is out. *)
Onward(a) ==
  IF a.todo # {} THEN a
  ELSE [a EXCEPT !.pc = CASE a.pc = "publish" -> "activate"
                          [] a.pc = "restore" -> "abandon"
                          [] a.pc = "reboot" -> "bootup"]

(* What runs next: a failed activation answers its request; a failed        *)
(* convergence republishes the active generation, when there is one, over   *)
(* what the abandoned one may have left.                                    *)
Return(a, told) ==
  IF a.by # Boot THEN [a EXCEPT !.pc = "answer", !.told = told]
  ELSE IF told = "refused" /\ a.base # None
  THEN Onward([a EXCEPT !.pc = "reboot", !.todo = Changed(a.site, a.old)])
  ELSE [a EXCEPT !.pc = "bootup", !.todo = {}]

(* activate up to the insert of the staged row.  The journal and the active *)
(* generation are read first; the workspace is read, and the row inserted,  *)
(* under one hold of its lock.                                              *)
Stage ==
  LET base == journal.active
      site == IF act.kind = "rollback" THEN act.site ELSE work
      blocks == IF act.kind = "site" THEN Manifest(base).blocks ELSE act.blocks
  IN /\ act.pc = "stage" /\ WorkspaceFree
     /\ IF base # None /\ ~Kept(base)
        THEN /\ act' = Return(act, "refused")
             /\ UNCHANGED <<minted, row>>
        ELSE /\ minted' = minted + 1
             /\ row' = [row EXCEPT ![minted + 1] = [status |-> "inflight", site |-> site,
                                                    blocks |-> blocks]]
             /\ act' = [act EXCEPT !.pc = "journal", !.gen = minted + 1, !.base = base,
                                   !.site = site, !.blocks = blocks,
                                   !.old = Manifest(base).site,
                                   !.oldBlocks = Manifest(base).blocks]
     /\ UNCHANGED <<work, blobs, journal, folder, runtime, queue, client, gc, owed, up,
                    crashes, faults, stray, lived>>

(* activate_staged: the journal names the generation before anything is     *)
(* done for it.  A recovery it named until now is given up.                 *)
Journal ==
  /\ act.pc = "journal"
  /\ journal' = [active |-> act.base, desired |-> act.gen]
  /\ row' = [row EXCEPT ![act.gen].status = "inflight"]
  /\ stray' = (stray \/ journal.desired \notin {None, act.gen})
  /\ act' = [act EXCEPT !.pc = "validate"]
  /\ UNCHANGED <<work, blobs, minted, folder, runtime, queue, client, gc, owed, up,
                 crashes, faults, lived>>

(* missing_content: a site or block edit vouches for the active site's      *)
(* blobs; a rollback and the boot probe every one.                          *)
Vouched(a) == IF a.by # Boot /\ a.kind # "rollback" THEN Named(a.old) ELSE {}

Publishing(a) == Onward([a EXCEPT !.pc = "publish", !.todo = Changed(a.old, a.site)])

Validate ==
  /\ act.pc = "validate"
  /\ act' = IF ~(Named(act.site) \subseteq blobs \cup Vouched(act))
            THEN [act EXCEPT !.pc = "abandon"]
            ELSE IF act.blocks # act.oldBlocks THEN [act EXCEPT !.pc = "build"]
                                               ELSE Publishing(act)
  /\ UNCHANGED <<disk, runtime, queue, client, gc, owed, up, crashes, faults, stray, lived>>

(* RuntimeControl::rebuild swaps the runtime and retains the one it         *)
(* replaced, or refuses a block set that does not load.                     *)
Rebuild ==
  /\ act.pc = "build"
  /\ \/ /\ runtime' = [now |-> act.blocks, before |-> runtime.now]
        /\ act' = [Publishing(act) EXCEPT !.rebuilt = TRUE]
     \/ /\ act' = [act EXCEPT !.pc = "abandon"]
        /\ UNCHANGED runtime
  /\ UNCHANGED <<disk, queue, client, gc, owed, up, crashes, faults, stray, lived>>

(* publish_site runs for the generation, for the one it failed to replace   *)
(* (restore), and for the active one at boot (restore_active_site).         *)
Target(a) == IF a.pc = "publish" THEN a.site ELSE a.old

(* Bug: files go out in any order. *)
NextFilesUnordered(a) == a.todo

(* Changed files first, then removals, and the entrypoint last. *)
NextFiles(a) ==
  LET s == Target(a)
      writes == {p \in a.todo \ {Entry} : s[p] # Absent}
      removals == {p \in a.todo : s[p] = Absent}
  IN IF writes # {} THEN writes ELSE IF removals # {} THEN removals ELSE a.todo

PutFile(p) ==
  /\ act.pc \in {"publish", "restore", "reboot"}
  /\ p \in NextFiles(act)
  /\ Target(act)[p] \in blobs \cup {Absent}
  /\ folder' = [folder EXCEPT ![p] = Target(act)[p]]
  /\ act' = Onward([act EXCEPT !.todo = @ \ {p}])
  /\ UNCHANGED <<work, blobs, row, minted, journal, runtime, queue, client, gc, owed, up,
                 crashes, faults, stray, lived>>

(* A publish fails at a file whose blob is gone, or because the store does. *)
(* A failed generation is taken back: the retained runtime, then the        *)
(* previous site, over the one it was about to publish.  A restore that     *)
(* fails is only reported; a boot that cannot republish serves what is      *)
(* there and loads no block.                                                *)
PublishFails(p) ==
  /\ p \in NextFiles(act)
  /\ IF Target(act)[p] \in blobs \cup {Absent} THEN Fault ELSE UNCHANGED faults
  /\ \/ /\ act.pc = "publish"
        /\ runtime' = IF act.rebuilt THEN [now |-> runtime.before, before |-> {}] ELSE runtime
        /\ act' = [act EXCEPT !.pc = "restore", !.todo = Changed(act.site, act.old)]
        /\ UNCHANGED <<up, stray>>
     \/ /\ act.pc = "restore"
        /\ act' = [act EXCEPT !.pc = "abandon", !.todo = {}]
        /\ stray' = TRUE
        /\ UNCHANGED <<runtime, up>>
     \/ /\ act.pc = "reboot"
        /\ act' = Idle
        /\ stray' = TRUE /\ up' = TRUE
        /\ UNCHANGED runtime
  /\ UNCHANGED <<disk, queue, client, gc, owed, crashes, lived>>

(* abandon: the row, then the journal. *)
Abandon ==
  /\ act.pc = "abandon"
  /\ row' = [row EXCEPT ![act.gen].status = "failed"]
  /\ act' = [act EXCEPT !.pc = "close"]
  /\ UNCHANGED <<work, blobs, minted, journal, folder, runtime, queue, client, gc, owed,
                 up, crashes, faults, stray, lived>>

Close ==
  /\ act.pc = "close"
  /\ journal' = [active |-> act.base, desired |-> None]
  /\ act' = Return(act, "refused")
  /\ UNCHANGED <<work, blobs, row, minted, folder, runtime, queue, client, gc, owed, up,
                 crashes, faults, stray, lived>>

(* Bug: the generation that was serving keeps its status. *)
SupersedeSkipped ==
  /\ act.pc = "supersede"
  /\ act' = [act EXCEPT !.pc = "commit"]
  /\ UNCHANGED <<disk, runtime, queue, client, gc, owed, up, crashes, faults, stray, lived>>

(* The commit: the row is active, the one before it is superseded, and the  *)
(* journal moves.  A superseded row that is gone is an error.               *)
Activate ==
  /\ act.pc = "activate"
  /\ row' = [row EXCEPT ![act.gen].status = "active"]
  /\ act' = [act EXCEPT !.pc = "supersede"]
  /\ UNCHANGED <<work, blobs, minted, journal, folder, runtime, queue, client, gc, owed,
                 up, crashes, faults, stray, lived>>

Supersede ==
  /\ act.pc = "supersede"
  /\ IF act.base \in {None, act.gen}
     THEN act' = [act EXCEPT !.pc = "commit"] /\ UNCHANGED row
     ELSE IF Kept(act.base)
          THEN /\ row' = [row EXCEPT ![act.base].status = "superseded"]
               /\ act' = [act EXCEPT !.pc = "commit"]
          ELSE act' = Return(act, "refused") /\ UNCHANGED row
  /\ UNCHANGED <<work, blobs, minted, journal, folder, runtime, queue, client, gc, owed,
                 up, crashes, faults, stray, lived>>

(* runtime_state::write, schedule_maintenance. *)
Commit ==
  /\ act.pc = "commit"
  /\ journal' = [active |-> act.gen, desired |-> None]
  /\ lived' = act.gen
  /\ owed' = owed + 1
  /\ act' = [act EXCEPT !.pc = "reread"]
  /\ UNCHANGED <<work, blobs, row, minted, folder, runtime, queue, client, gc, up,
                 crashes, faults, stray>>

(* At boot the maintenance pass runs inline, before the row is read again. *)
Maintained == act.by = Boot => owed = 0 /\ gc.pc = "idle"

(* The committed row is read again for the answer; a rollback has yet to    *)
(* adopt.                                                                   *)
Reread ==
  /\ act.pc = "reread" /\ Maintained
  /\ act' = IF act.kind = "rollback" THEN [act EXCEPT !.pc = "adopt"] ELSE Return(act, "live")
  /\ UNCHANGED <<disk, runtime, queue, client, gc, owed, up, crashes, faults, stray, lived>>

(* adopt_site: the workspace follows the rollback. *)
Adopt ==
  /\ act.pc = "adopt" /\ WorkspaceFree
  /\ work' = act.site
  /\ act' = Return(act, "live")
  /\ UNCHANGED <<blobs, row, minted, journal, folder, runtime, queue, client, gc, owed, up,
                 crashes, faults, stray, lived>>

(* A call of the activation fails where the code returns at once, leaving   *)
(* the ledger and the journal as they are; of "publish" the call is the     *)
(* journal's, before the first file.  A read that fails after the commit    *)
(* fails the activation too, and a boot then republishes the generation     *)
(* that was replaced over the one the journal now calls active.             *)
CallFails ==
  /\ Fault
  /\ \/ /\ act.pc \in {"stage", "journal", "validate", "build", "abandon", "close", "activate",
                       "supersede", "commit", "adopt"}
        /\ UNCHANGED stray
     \/ /\ act.pc = "publish" /\ act.todo = Changed(act.old, act.site)
        /\ UNCHANGED stray
     \/ /\ act.pc = "reread" /\ Maintained
        /\ stray' = (stray \/ (act.by = Boot /\ act.base # None))
  /\ act' = Return(act, "refused")
  /\ UNCHANGED <<disk, runtime, queue, client, gc, owed, up, crashes, lived>>

-----------------------------------------------------------------------------
(* RETENTION AND COLLECTION *)

Rows == {g \in Gen : Kept(g)}
InWindow(g) == Cardinality({h \in Rows : h > g}) < Window

(* retained: the window, the newest active row, the rows in flight. *)
Retained ==
  {g \in Rows : \/ InWindow(g)
                \/ row[g].status = "inflight"
                \/ row[g].status = "active" /\ \A h \in Rows : row[h].status = "active" => h <= g}

(* Bug: a pass starts that nothing scheduled. *)
PruneUnscheduled ==
  /\ gc.pc = "idle"
  /\ owed' = owed - 1
  /\ gc' = [gc EXCEPT !.pc = "list"]
  /\ UNCHANGED <<disk, runtime, queue, client, act, up, crashes, faults, stray, lived>>

(* maintain: prune first. *)
Prune ==
  /\ gc.pc = "idle" /\ owed > 0
  /\ row' = [g \in Gen |-> IF Kept(g) /\ ~InWindow(g) /\ row[g].status \notin {"active", "inflight"}
                           THEN NoRow ELSE row[g]]
  /\ owed' = owed - 1
  /\ gc' = [gc EXCEPT !.pc = "list"]
  /\ UNCHANGED <<work, blobs, minted, journal, folder, runtime, queue, client, act, up,
                 crashes, faults, stray, lived>>

(* Bug: only the ledger is read for roots. *)
FindGarbageLedgerOnly ==
  /\ gc.pc = "list"
  /\ gc' = [pc |-> "delete",
            garbage |-> blobs \ UNION {Named(row[g].site) : g \in Retained}]
  /\ UNCHANGED <<disk, runtime, queue, client, act, owed, up, crashes, faults, stray, lived>>

(* collect_interleaved, under the workspace lock: the blobs are listed,     *)
(* then the roots are read, the workspace among them.                       *)
FindGarbage ==
  /\ gc.pc = "list"
  /\ gc' = [pc |-> "delete",
            garbage |-> blobs \ ((UNION {Named(row[g].site) : g \in Retained}) \cup Named(work))]
  /\ UNCHANGED <<disk, runtime, queue, client, act, owed, up, crashes, faults, stray, lived>>

(* collect_blobs, which ends the hold of the lock. *)
Collect ==
  /\ gc.pc = "delete"
  /\ blobs' = blobs \ gc.garbage
  /\ gc' = Rest
  /\ UNCHANGED <<work, row, minted, journal, folder, runtime, queue, client, act, owed, up,
                 crashes, faults, stray, lived>>

-----------------------------------------------------------------------------
(* CRASH AND BOOT *)

(* A boot that dies while it republishes gives that recovery up, once the   *)
(* journal has been cleared.                                                *)
Crash ==
  /\ crashes < MaxCrashes
  /\ crashes' = crashes + 1
  /\ up' = FALSE
  /\ queue' = NoQueue /\ act' = Idle /\ gc' = Rest /\ owed' = 0
  /\ runtime' = [now |-> {}, before |-> {}]
  /\ client' = [c \in Client |-> [client[c] EXCEPT
                  !.pc = IF @ \in {"asking", "waiting", "driving"} THEN "gone" ELSE @]]
  /\ stray' = (stray \/ (act.pc = "reboot" /\ journal.desired = None))
  /\ UNCHANGED <<disk, faults, lived>>

(* Bug: the boot clears the journal without converging on it. *)
ConvergeClears ==
  /\ ~up /\ act.pc = "idle"
  /\ act' = [Idle EXCEPT !.pc = "bootup", !.by = Boot, !.kind = "boot"]
  /\ UNCHANGED <<disk, runtime, queue, client, gc, owed, up, crashes, faults, stray, lived>>

(* converge_on_boot up to the convergence: a pointer to an active row that  *)
(* is gone is cleared, the rows nobody will finish are failed, and the      *)
(* journalled generation is run again, or given up when its row is gone.    *)
Converge ==
  LET desired == journal.desired
      base == IF Kept(journal.active) THEN journal.active ELSE None
      boot == [Idle EXCEPT !.by = Boot, !.kind = "boot", !.base = base,
                           !.old = Manifest(base).site, !.oldBlocks = Manifest(base).blocks]
  IN /\ ~up /\ act.pc = "idle"
     /\ row' = [g \in Gen |-> IF row[g].status = "inflight" /\ g # desired
                              THEN [row[g] EXCEPT !.status = "failed"] ELSE row[g]]
     /\ journal' = [journal EXCEPT !.active = base]
     /\ stray' = (stray \/ base # journal.active)
     /\ act' = IF desired = None THEN [boot EXCEPT !.pc = "bootup"]
               ELSE IF Kept(desired)
               THEN [boot EXCEPT !.pc = "journal", !.gen = desired, !.site = row[desired].site,
                                 !.blocks = row[desired].blocks]
               ELSE Return(boot, "refused")
     /\ UNCHANGED <<work, blobs, minted, folder, runtime, queue, client, gc, owed, up,
                    crashes, faults, lived>>

(* The end of the boot: the journal is cleared if it named a row that is    *)
(* gone, and the host loads the active blocks, or fails to and serves       *)
(* without them.                                                            *)
BootUp ==
  /\ act.pc = "bootup"
  /\ journal' = IF act.gen = None THEN [journal EXCEPT !.desired = None] ELSE journal
  /\ \/ /\ runtime' = [now |-> Manifest(journal.active).blocks, before |-> runtime.now]
        /\ UNCHANGED <<faults, stray>>
     \/ /\ Fault
        /\ stray' = TRUE
        /\ UNCHANGED runtime
  /\ up' = TRUE
  /\ act' = Idle
  /\ UNCHANGED <<work, blobs, row, minted, folder, queue, client, gc, owed, crashes, lived>>

-----------------------------------------------------------------------------
Drive ==
  \/ Stage \/ Journal \/ Validate \/ Rebuild \/ Abandon \/ Close
  \/ Activate \/ Supersede \/ Commit \/ Reread \/ Adopt \/ Answer
  \/ \E p \in Path : PutFile(p) \/ PublishFails(p)

Maintain == Prune \/ FindGarbage \/ Collect

Request(c) ==
  \/ \E e \in Edit : Write(c, e[1], e[2])
  \/ \E b \in Block : WantBlocks(c, b)
  \/ \E g \in Gen : WantRollback(c, g)
  \/ DeleteSource(c)

Finished ==
  /\ up /\ act.pc = "idle" /\ gc.pc = "idle" /\ owed = 0
  /\ \A c \in Client : client[c].pc \in {"live", "refused", "gone"}
  /\ UNCHANGED vars

Next ==
  \/ \E c \in Client : Request(c) \/ Enter(c) \/ Cancel(c)
  \/ Drive \/ CallFails
  \/ Maintain
  \/ Crash \/ Converge \/ BootUp
  \/ Finished

Spec == Init /\ [][Next]_vars

-----------------------------------------------------------------------------
(* PROPERTIES *)

Act == [pc : {"idle", "stage", "journal", "validate", "build", "publish", "restore",
              "reboot", "abandon", "close", "activate", "supersede", "commit", "reread",
              "adopt", "answer", "bootup"},
        by : Client \cup {Nobody, Boot},
        kind : {"none", "site", "blocks", "rollback", "boot"}, site : Site,
        blocks : SUBSET Block, gen : {None} \cup Gen, base : {None} \cup Gen,
        old : Site, oldBlocks : SUBSET Block, rebuilt : BOOLEAN, todo : SUBSET Path,
        waiters : SUBSET Client, told : {"live", "refused"}]

Queue == [driver : Client \cup {Nobody}, mine : {"none", "live", "refused"},
          kind : {"none", "site", "blocks", "rollback"}, site : Site,
          blocks : SUBSET Block, waiters : SUBSET Client]

Caller == [pc : {"new", "asking", "waiting", "driving", "live", "refused", "gone"},
           kind : {"none", "site", "blocks", "rollback"}, site : Site,
           blocks : SUBSET Block, seen : Nat]

(* Types of what is stored and of what runs.  There are generations enough  *)
(* for the requests: each is composed for a request of its own.             *)
TypeOK ==
  /\ work \in Site /\ folder \in Site /\ blobs \subseteq Content
  /\ row \in [Gen -> Row]
  /\ minted \in Gen /\ lived \in 1 .. minted
  /\ journal \in [active : {None} \cup Gen, desired : {None} \cup Gen]
  /\ runtime \in [now : SUBSET Block, before : SUBSET Block]
  /\ queue \in Queue /\ client \in [Client -> Caller] /\ act \in Act
  /\ gc \in [pc : {"idle", "list", "delete"}, garbage : SUBSET Content]
  /\ owed \in Nat /\ crashes \in Nat /\ faults \in Nat
  /\ up \in BOOLEAN /\ stray \in BOOLEAN

(* Nothing runs, the journal owes no recovery, and none was given up or     *)
(* went over what was committed.                                            *)
AtRest == up /\ act.pc = "idle" /\ journal.desired = None /\ ~stray

(* Whatever was interrupted, by a failed publish, a failed call, a dropped  *)
(* request or the death of the process, and whatever boot or restore        *)
(* repaired it: once at rest, browsers are served exactly the site of the   *)
(* generation the journal calls active, and the runtime runs its blocks.    *)
(* It is said of a row that is kept: a boot whose re-run is refused after   *)
(* the base was superseded leaves the serving row "superseded", and         *)
(* retention prunes it once it is out of the window.                        *)
Coherent ==
  AtRest /\ Kept(journal.active) =>
    folder = row[journal.active].site /\ runtime.now = row[journal.active].blocks

(* activate_staged: "Exactly one generation is Active at a time".  At rest  *)
(* no row says active but the one the journal names: retention would keep   *)
(* the wrong one otherwise.                                                 *)
OneActive ==
  AtRest => \A g \in Gen : row[g].status = "active" => g = journal.active

(* A collection that runs beside writes, activations and rollbacks never    *)
(* deletes content that can still be asked for: of a generation within the  *)
(* window that was live (a rollback target), of the workspace, or of the    *)
(* generation that is being published.                                      *)
TargetsStored ==
  /\ \A g \in Rows : InWindow(g) /\ row[g].status \in {"active", "superseded"}
                    => Named(row[g].site) \subseteq blobs
  /\ Named(work) \subseteq blobs
  /\ act.pc \in {"build", "publish"} => Named(act.site) \subseteq blobs

(* publisher.rs, "Why the order matters": from a request's publish to its   *)
(* commit, a browser that is served the new entrypoint is served the new    *)
(* version of every other file.                                             *)
EntrypointLast ==
  ( /\ act.pc \in {"publish", "activate", "supersede", "commit"} /\ act.by # Boot /\ ~stray
    /\ act.site[Entry] \notin {act.old[Entry], Absent}
    /\ folder[Entry] = act.site[Entry] )
  => folder = act.site

(* QueueLease: "Liveness is the whole point".  A caller that waits is in    *)
(* the hands of a driver that lives and will answer it, also after other    *)
(* drivers and waiters were dropped.                                        *)
NobodyStranded ==
  \A c \in Client : client[c].pc = "waiting" =>
    /\ c \in queue.waiters \cup act.waiters
    /\ queue.driver \in Client /\ act.by = queue.driver
    /\ client[queue.driver].pc = "driving"

(* What a request has been told, in the words of Publication. *)
Told(c) == CASE client[c].pc \in {"new", "asking"} -> "new"
             [] client[c].pc \in {"waiting", "driving"} -> "waiting"
             [] OTHER -> client[c].pc

P == INSTANCE Publication WITH First <- 1,
  newest <- minted, live <- lived,
  asked <- [c \in Client |-> client[c].seen], told <- [c \in Client |-> Told(c)]

(* The queue, the journal, the crashes and the boots implement Publication: *)
(* generations go live in the order they were composed, never twice, and a  *)
(* caller is told "live" only when a generation composed after it asked is  *)
(* live, coalesced or not.                                                  *)
KeepsPromise == P!Spec
=============================================================================

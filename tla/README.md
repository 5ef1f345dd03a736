# Verification of impresspress: TLA+ models, model checking and proofs

impresspress is a Rust application platform: a core of *blocks* (authentication,
administration, commerce, files, messages, a development sandbox, ...) on a
small runtime, hosted natively, in a browser or on Cloudflare. The blocks keep
all durable state in a database that offers single statements, single-statement
compare-and-set updates with a row count, and small batches, but no
transactions across awaits. Every handler is a sequence of such statements that
interleaves with every other handler, on any number of isolates. That is what
this project models: the protocols the handlers follow so that races, lost
answers and half-done work do no harm.

Paths below are relative to `src/crates/impresspress-core/src/` unless they
start with `src/`.

## Inventory

| Component | State | Operations | What is hard | What makes it correct |
|---|---|---|---|---|
| Login families (`blocks/auth`, `blocks/auth_ui/api/{login,refresh,logout}.rs`, `blocks/userportal/pages/sessions.rs`) | one session row per family, refresh rows, JWT claims | sign in, refresh (rotate), revoke a device, log out, burn on replay | a rotation is claim, insert, touch; a revocation is delete, revoke; either may be cut off | one live generation, one successor per token, nothing usable after an answered revocation |
| Account credentials (`change_password.rs`, `reset_password.rs`, `forgot_password.rs`) | password hash, reset link, `auth_version` | change, reset, request a link | sign-ins, refreshes and key creations in flight while the change ends what it can see | after an answered change only the new password's credentials work; a link is spent once |
| API keys (`api_keys.rs`) | key rows | create (with a token or a key), revoke, delete | authority checked before the insert, ended before or after it | a key does not outlive the credential that made it |
| Administration (`blocks/admin/{iam,ops}.rs`) | role grants, disabled/deleted, roles catalogue | assign, remove, disable, enable, delete, delete a role | tokens carry roles; order of write and version bump | an answered role change reaches every token |
| Version cache (`blocks/auth/mod.rs`, `crypto.rs`) | per-isolate map with time stamps | lookup, fill, invalidate, clear | a fill that races a bump, isolates an invalidation does not reach | a bump is hidden for less than the lifetime |
| Stripe webhook events (`blocks/products/stripe.rs`) | event row with status, owner, attempts, lease and backoff times | record, claim, seal, fail, dead-letter, replay | redelivery, expired leases, stale reads, operator replays, crashes | exclusive lease, sealed once, nothing acknowledged is lost |
| Refunds and provider operations (`blocks/products/purchase.rs`, `repo/{refunds,provider_operations}.rs`, `stripe_provider.rs`) | order's refunded total, refund ledger with one active row per order, leased outbound queue | request a refund, reconcile, apply webhooks, close or dead-letter | the request, a worker and a webhook finish the same refund; lost Stripe answers, repeated calls, retried keys | the total never exceeds what Stripe paid, a settled refund is in it, nothing is marked failed that was not refused |
| Subscriptions (`stripe.rs`, `repo/{subscriptions,purchases,mod}.rs`) | order's subscription status, the user's platform row with plan and add-on totals, item snapshots | complete a checkout, project updates, invoices and deletions | events out of order, in one second, repeated; two deliveries at once; a crash between completion and snapshot | projections only go forward and end where Stripe ended |
| Dev sandbox (`blocks/dev`) | workspace, generations, journal, activation queue, published files, runtime, blobs | edit, compile, roll back, activate, adopt, restore, prune, collect, converge at boot | coalesced callers, dropped drivers, crash in mid-activation, collection against staging | at rest the journal, the ledger, the served files and the runtime agree; an answer is about the caller's own change |
| Cloudflare runtime (`src/crates/impresspress-cloudflare`) | runtime cache with one build slot, retry window | build, wait, probe | everyone waiting on one build | a failed build frees the slot |
| Migrations (`migration_helper.rs`) | ledger, lock | plan, apply | two processes at boot | each migration once, in order |
| Files, messages, tickets, LLM, vector, signal, legal pages | rows and objects | CRUD, calls to services | little of their own | - |
| Pipeline, router, CSRF, rate limit, hosts, CLI, bundler | none or per isolate | filtering, glue | - | - |

How they interact: the pipeline checks the presented credential
(`crypto.rs`, through the version cache) and hands the request to a block's
handler; handlers call the repositories; `bump_auth_version` is the message from
every account change to every token, and the session row is the message from a
revocation to a rotation. Webhooks call the commerce repositories under an
event lease; refund requests leave an operation that the reconciliation worker
takes over. Sandbox requests meet in an in-memory queue in which one of them
drives an activation for all; the host's runtime is rebuilt through a control
handle. Shared memory is otherwise the per-isolate caches only.

## Modules

| Module | Models |
|---|---|
| `AuthStore` | the tables of one account, the repository statements, the request-time credential checks, the local state of requests |
| `AuthSessions` | login, refresh, device revocation, logout (EXTENDS `AuthStore`) |
| `AuthAccount` | password change and reset, links, API keys, administration, composed with `AuthSessions`; the specification and its properties |
| `AuthInvariants` | the inductive invariant `AuthInv`, as named conjuncts |
| `AuthProofs` | the theorems about `AuthAccount` |
| `AuthVersionCache`, `AuthVersionCacheProofs` | the cache in front of `auth_version`, with a clock and several isolates |
| `StripeEvents`, `StripeEventsProofs` | the lease on one webhook event |
| `Refunds`, `RefundsProofs` | the refunds of one order: requests, the worker, webhooks and Stripe |
| `Subscriptions`, `SubscriptionsProofs`, `SettlementProofs` | the projections of one user's subscriptions from Stripe's events |
| `Sandbox`, `SandboxProofs`, `SandboxStoreProofs` | the activations of the dev sandbox, its collections, crashes and boots; the first proofs are about the queue and its promise, the second about what is stored and served |
| `Publication` | what the activation queue promises its callers, abstractly; `Sandbox` implements it |
| `MCAuth`, `MCAuthVersionCache`, `MCStripeEvents`, `MCRefunds`, `MCSandbox`, `MCSubscriptions` | the instances TLC checks |

**How state corresponds.** In the auth modules a request that mints something
*is* the identity of what it minted (family, refresh token, API key, reset
link), and the claims of its JWTs are its own `fam`, `ver` and `role`. `pc` is
the statement a handler is about to run; the last labels are its answers.
Passwords and role grants are generation numbers: `epoch[r]` is the generation
the request's credential stands on, which no row stores and only the properties
use. In `StripeEvents` a delivery is its own owner token; `applied`, `claims` and
`resets` are history. In `Refunds` a refund is named by its idempotency key,
under which Stripe holds one refund and replays its first answer; `me[p]` is what
a process has read, and a webhook's stamp is the second its event was created
in. In `Subscriptions` a plan and the add-on totals are the second of the event
that reported them, `active` stands for every live status, and `sealed` is what
`StripeEvents` calls processed. In `Sandbox` a site maps paths to contents, a
blob is its content, generations are numbered as they are inserted, `act` is the
activation that runs and `queue` the in-memory queue; `lived` and `stray` are
history.

**How actions correspond.** One action per database statement, in the handler's
order, with the handler's early returns as alternatives. `Outcome(o)` gives each
statement three results: it answers, it fails without effect, or it takes effect
and its answer is lost. A process that dies is one that takes no further step,
which every safety property covers without an action for it. Where a handler
goes on after an error (`end_credentials_after_password_change` remembers it and
runs all three steps, a stale family's end is best effort) the model goes on too.
`Refunds` has an action for a failed statement and one for a death (a statement
whose effect stood and whose answer was lost is the step followed by a death);
a call can also be denied (`Denied`): the Stripe client does not load, is for the
other mode, or Stripe does not accept its key, whatever Stripe has paid under the
idempotency key before. `MaxFaults` bounds them all.
`Subscriptions` has `Drop` for both, without a bound, and `Closes` for an order
that fails or is refunded while its checkout is under way. `Sandbox` takes calls that
run under the workspace lock as one step, since the lock keeps every other user
of the same files out; `Crash` loses the queue, the driver, the runtime and the
scheduled passes and keeps what is stored. `Write` is one step more than the lock
gives: it saves the workspace and enters the queue, between which the code
releases the lock. A request dropped in between leaves a saved workspace and no
activation, which is also a write that fails after its save.

**What is left to choice.** Whether a password matches, whether a policy refuses
an address, which credential a client presents and how often. In `AuthStore` an
access token's version comparison is not a guard, since it goes through the
cache; `AuthVersionCache` bounds how long that can matter, and
`ChangeEndsOldCredentials` and `RoleChangeReachesTokens` judge tokens by the
stored version. In `Refunds`, whether Stripe accepts, delays, fails or rejects,
and when a lease or a backoff runs out. In `Subscriptions`, what Stripe's
customers do and which delivery arrives next. In `Sandbox`, whether a block set
loads, and what is edited.

## Runs

| Run | Question | Bounds | States |
|---|---|---|---|
| `AuthAccount` | can any interleaving of sign-ins, refreshes, replays, revocations, password changes, resets, keys and role changes leave two generations, a credential an answer has ended, a link redeemed twice or old roles? | one signed-in device and 3 more requests of any kind, 2 faults | 339k |
| `AuthLiveness` | are the refresh rows of an ended family revoked in the end? | 3 requests, no fault | 128k |
| `AuthVersionCache` | how stale can a check be? | 2 isolates, 2 checks, lifetime 2, 2 bumps, clock to 5 | 1.5M |
| `StripeLease` | can an event be worked on twice, sealed twice or lost? | 4 deliveries, lease 2, budget 2, clock to 4, 1 fault, 1 replay | 2.6M |
| `StripeBudget` (violated) | is the retry budget kept? | 4 deliveries, budget 3, no fault | - |
| `StripeReplay` (violated) | can an acknowledged event always be replayed? | 3 deliveries, budget 1, 1 fault, 1 replay | - |
| `Refunds` | do the ledger, the queue and the order's total agree with what Stripe paid? | 2 keys of half the order each, 2 requests, 1 worker pass, 1 delivery, at most 2 at a time, budget 2, 2 seconds, 1 fault | 1.1M |
| `RefundSlot` (violated) | does a pending refund always have somebody who will move it? | 1 key, 2 requests, 2 deliveries, no fault | - |
| `RefundTotals` (violated) | do the manual refunds of an order add up? | 2 keys, 2 requests, no fault | - |
| `Sandbox` | is the sandbox coherent at rest, its content stored, its callers answered about their own change? | 3 requests, 2 paths, 2 contents, 1 block, window 2, 1 crash, 1 fault (both: 2 requests) | 1.3M |
| `Subscriptions` | do the projections only go forward, and end where Stripe ended? | 2 subscriptions in turn, 2 workers, 2 rounds, 3 seconds, 3 unsealed events | 3.8M |
| `SubscriptionEnd` (violated) | is a deletion final? | as above, 4 unsealed events | - |

**Why the bounds are enough to be interesting.** Each race in the auth models
needs at most three actors (a change, a credential made before it, something
made from that credential); four requests leave room for a fourth that disturbs
them, and one fault for any of their statements. The theorems below then remove
the bounds for all safety properties. The clock of the cache run reaches past
two lifetimes, so every entry can go stale after either bump. The clock of
`StripeLease` spans two leases, so an expired lease can itself expire.
In `Refunds` two keys are what the single slot can confuse, and the three kinds
of process meet two at a time on one refund, in every pairing. Three sandbox
requests are a driver, one it runs for and one folded behind it; a generation
more than the window lets a row be pruned; one crash and one fault together
interrupt a recovery. The constraint `Budget` lets all three requests be made
under a crash or under a fault, and two under both, which is what an edit, the
recovery of it and the edit after it need; without it the run has 3.6M states,
and passes too. In `Subscriptions` the loops of the code have three rounds
and the model two, so that giving up happens; three unsealed events hold a
change and the two events of a cancellation beside it, in any order, and the
last event of one change while the next one's arrive.
Requests of one instance are interchangeable but for the seeded sign-in, which
makes the symmetry of the safety runs sound (keys, subscriptions and workers are
interchangeable as well, sandbox paths and contents are not); the liveness run
uses none. The account, cache, event and refund runs end when every request has
been answered, so deadlock is not checked there. `Sandbox` and `Subscriptions`
have a `Finished` step that is enabled only when nothing is left to do, and
deadlock is checked: no caller, pass, boot or event gets stuck half way.

**Fairness.** `FairSpec` is weak fairness of each request that has been accepted
(`RunsOn`): the runtime polls a started handler to its answer. Arrival of
requests is not fair, and `AuthLiveness` has no faults: with a database that
refuses the last revocation the row does stay live until it expires, and the
code says so (it answers the failure). The other modules state safety only:
a webhook's redelivery and a worker's next pass are Stripe's and a scheduler's
promises. What would be a liveness question there is asked as a state predicate
instead (`NobodyStranded`, `Settled`, and the `Quiet` of the refund runs).

**The abstract specification.** `Publication` has four steps: a caller asks, a
generation is composed, one goes live, callers are told. `KeepsPromise` is its
specification under the mapping in `Sandbox` (the newest inserted generation, the
last committed one, and what each request has been told). It says that
generations go live in the order of composition and never twice, also across
crashes, and that "live" is answered only when a generation composed after the
caller asked is live, for a caller that drives and for one that was folded in.

Each property has a mutant, a variant of one action that a plausible bug would
give (the definitions commented `Bug:`), under which TLC finds it violated.

## What disagrees with the comments

* `StripeBudget`. `record_event` compares status and owner of the row it read
  ("the row must still be in the state this delivery just read"), but every
  failed row has the same status and an empty owner. A delivery that stalls
  between its read and its claim while another claims and fails again writes a
  stale `attempts` and skips the new backoff, so an event can be attempted more
  often than `MAX_ATTEMPTS`. Comparing `attempts` as well would close it.
* `StripeReplay`. A replay resets the row to `pending` before it runs the
  handler. If it stops there, or the handler's outcome is not recorded, the row
  is `pending` or `processing`; Stripe no longer sends an event it saw
  acknowledged as dead-lettered, and a replay accepts only `failed` and
  `dead_letter`. `record_event` names this state unrecoverable and avoids it on
  its own path.
* `RefundSlot`. Stripe fails a refund; the webhook marks the row failed and
  dead-letters its operation. A retry under the same key makes the row `pending`
  again and answers at once because it carries a refund id: nobody calls Stripe,
  no operation is queued and no event is left. The row is "recorded; the provider
  has not answered" for ever, and keeps the order's one active slot.
* `RefundTotals`. `refund_purchase` reads the order before it claims the slot. Of
  two manual refunds at once the second can claim after the first has settled
  with a target computed before, and both end `succeeded` with one of them in the
  total. (For Stripe orders the same race overstates nothing: the charge's own
  webhook brings the total, which `NeverOverstated` covers.)
* `SubscriptionEnd`. A past-due subscription is canceled and an invoice it left
  open is paid. If the invoice's event is handled first it restores `active` with
  a newer stamp; the deletion is refused as older, and sealed.

Observed, and not counted as disagreements because no comment rules them out:

* An update without a status may overtake one that has it, and the projection
  then waits for the next update (`Settled` therefore asks that the newest events
  restate the status). Two changes in one second other than a cancellation have
  no order the code could know.
* A subscription that takes the user's row over before its predecessor's deletion
  is handled keeps the predecessor's add-on totals until its own first update.
* A boot that finishes a journalled rollback does not adopt its site into the
  workspace.

Exceptions that the properties state, each of them reached by the models:

* **A checkout of an order that failed or was refunded** (`CheckoutIsWhole`).
  `reconcile_checkout_session` updates an open order only. For any other the
  handler warns ("already completed or refunded"), takes the snapshot only if the
  order is `completed` now, and seals the event. A failed order is then never
  linked to the subscription that was paid for it, and one that was completed
  before a crash and refunded, even in part, before the redelivery stays without
  its items: what the comment on `snapshot_due` calls stranded "without its item
  snapshot forever".
* **A refund whose call was denied** (`FailedMeansRefused`). A request fails the
  row and dead-letters the operation on every error that is not `Internal`
  (`purchase.rs`, after `create_refund`): a missing key, the other mode, a 401.
  If an earlier call under the same idempotency key was paid and its answer lost,
  the row says `failed` of a refund that was paid, where `contracts.rs` means "the
  provider refused or canceled the refund". The charge's webhook still brings the order's total, and a
  retry under the key gets Stripe's first answer and converges.
* **Two active rows** (`OneActive`). An activation whose second status write fails,
  or that is dropped between the two, leaves both rows `Active` with the journal
  still naming it. A boot would finish it, but another request journals over it,
  and then nothing supersedes the extra row, against "Exactly one generation is
  `Active` at a time" (`activation.rs`, at the commit). The files it wrote stay as
  well, because a publish skips what the active generation has unchanged
  (`Coherent`). This and the next two are what the history variable `stray`
  records; it is never reset.
* **A boot that fails after its commit** (`Coherent`, `EntrypointLast`).
  `activate_staged` reads the committed row again for its answer, and an error of
  that read is an error of the activation. `converge_on_boot` then republishes the
  previous site over the generation that is active by now; the journal is at rest
  and no later boot looks at the folder, against "the sandbox always boots serving
  something coherent". A request whose read fails there is told that it failed
  while its generation is live, and a rollback does not adopt its site.
* **A boot that cannot republish**, or whose block set does not load, serves what
  is there.

Three more exceptions in the sandbox came out of the proofs, each from an
invariant that was not inductive as first stated. All three need a crash between
two particular statements, and the properties name them as well:

* A crash between superseding the serving row and moving the journal, followed by
  a boot whose re-run is refused, leaves the serving row `superseded`. Once it is
  out of the window a prune deletes it while it serves, although
  `retention.rs` keeps "the generation that is serving, however far down the
  ledger it has fallen". `Coherent` says which row may be missing.
* A collection between the new generation's `active` and the superseding of the
  old one counts the old one neither as serving nor, out of the window, as
  retained. If the process then dies and the re-run is refused, the old one
  serves again with content collected. `TargetsStored` speaks of the window only.
* A boot whose re-run is refused has put the journal back at rest
  (`activate_staged`) before it republishes the old site
  (`restore_active_site`); the dangling arm does it the other way round. A second
  death in between leaves a journal at rest over a half-published folder, which
  no later boot repairs. `Coherent` excepts it through `stray`.

## Proofs

Every safety property the passing runs check, the action properties and the
refinement `KeepsPromise` included, is proved with TLAPS for every value of the
constants, from the assumptions named in the modules (`None` and `NoOwner` are
no request or delivery, bounds are naturals, lifetimes and budgets positive, the
delays a function into the naturals, the window at least one, finitely many
sandbox clients). No property rests on the bounds. The inductive invariants hold
in TLC on the instances of the runs as well.

* `AuthProofs`. `AuthInv` is inductive, with the types. `RequestShape`,
  `TailShape` and `FamilyShape` say what a request's place in its handler implies
  for its local state, and that a family whose session row was deleted never has
  one again (`NoTokensAfter`). `OneHolder`: the right to continue a family is
  held once, by its live row or by the rotation that claimed that row and has
  not inserted the successor (`OneLive`, `RotatesOnce`). `RevokedDeviceIsOut` is
  a part of its own; it holds because a rotation that is answered touched the
  session row after its insert, and a revocation deletes that row before it
  revokes (`RevokedIsOut`). `BumpOutdatesOldPasswords` and
  `BumpOutdatesOldRoles`: once a change's bump is acknowledged, every request
  still standing on the older password or the older roles carries a smaller
  version, whether or not it has been answered yet; `KeyShape` adds that a live
  key of the older password has not passed the version re-check
  (`OldCredentialsEnd`, `OldRolesEnd`). `OneRedeemer`: a link is the column's or
  belongs to one redemption (`LinkOnce`). The properties are not inductive
  alone: they speak of answers, and the invariant of the steps before them.
* `AuthVersionCacheProofs`. An entry, and a version read on a miss, cover every
  bump that landed before their time stamp. That is why the stamp must be the
  time the check began and not the time of the fill.
* `StripeEventsProofs`. A worker holds the row or has outlived its lease. It is
  kept because a claim that overwrites a held row compares the owner it read,
  and that owner's lease had run out when it was read; dead-lettering takes the
  same comparison, and a replay finds no held row.
* `SubscriptionsProofs`. `CheckoutsAreWhole`: a worker past a step of a checkout
  has that step's effect behind it or found the order closed (`Ordered`), and
  links, snapshots and closures are never taken back. `ProjectionsGoForward` needs
  more than the compare-and-swaps: a checkout overwrites the row without judging its status, so the proof carries
  that Stripe opens a subscription before it ends it (`Stream`), that the row's
  stamp is that of an event of its subscription (`RowInv`), and that what a worker
  is about to write was allowed over what it read (`Judged`).
* `SettlementProofs` goes on from there to where the projections end
  (`Settled`, `CanceledHasNoQuota`, `TotalsForward`). `History` is what Stripe's
  stream can be: one checkout per subscription, made only when the one before has
  ended; a deletion exactly for an ended one, with the last update of the same
  second; and the newest events of a live one restate its status. `Delivered` is
  what a sealed event has left behind: no checkout can give the row back to its
  subscription later (`Placed`), and the projection covers the event, being at
  least as new or terminal (`OrderDone`, `RowDone`). `Delivering` says the same of
  a worker half way, stage by stage. `Settled` then reads: with everything
  sealed, the newest event is covered, so the projection says what Stripe says.
* `RefundsProofs`. A ledger row follows Stripe's refund and never runs ahead of
  it; what a process holds in memory was true when it was read and only moves in
  one direction (`CopyHeld`); a process past a step has that step's effect behind
  it (`Held`). `NeverOverstated` needs that a refund's target was computed on top
  of no more than Stripe had paid by then, so that reaching it overstates nothing
  once Stripe has paid that refund too. A row or an operation that failed, and a
  process about to fail it, stand on a refusal (`Refused`): Stripe's, the refund's
  own failure, or a denied call under the key. `SettledIsAccounted`,
  `FailedMeansRefused` and `ClosedAfterAccounting` follow from the order of the
  statements, and `TerminalStays` is an action property of the same invariant.
* `SandboxProofs`. One request at most drives, and the waiting are in the queue it
  will take or in the batch it runs for (`QueueInv`): nobody is stranded. For
  `PromiseKept` (`Spec => KeepsPromise`), the generation that runs is younger
  than what any caller it runs for had seen when it asked, the last committed one
  is no younger than the newest, and an outcome is "live" only after a commit past
  the caller's `seen` (`PromiseInv`); `CountInv` ties generations to the
  requests that asked for them, so that every step is one of `Publication` or a
  stutter.
* `SandboxStoreProofs`. What each place of an activation, a boot or a pass implies
  for the ledger (`RowInv`, `ActInv`, `OneInv`), the files served and the folder
  half way (`ServedInv`, `OutInv`, `EntryInv`; a boot that puts the old site back
  does so under the base the journal names, or is `stray`), and the blobs (`StoreInv`: a
  collection marks nothing that the workspace, a retained row or an activation in
  flight names). Together they are kept by every step, a crash in any place
  included, and give `Coherent`, `OneActive`, `EntrypointLast` and
  `TargetsStored`.
* Every specification's types are proved as well (`TypeCorrect`).

Only model-checked: `EndedFamilyIsRevoked` (liveness under fairness is outside
the prover) and the five disagreements, which are counterexamples.

## Not modelled

Auth: row and token expiry and the sweep; OAuth, bootstrap, sign-up and address
verification (they end in the modelled issuance); the role catalogue; hashing,
signatures, mail; clock skew between isolates (one clock). Of one account only:
accounts share no rows but the cache's size limit, which is the `Evict` action.

Commerce: events without an id, which the code does not lease; payment intents,
disputes, connected accounts, payment links, entitlements, transfers; the
catalogue and pricing; notices to the platform and the grace window, which no
statement reads. `StripeEvents` takes an event's effects as one step that
succeeds or fails; `Refunds` and `Subscriptions` take them apart and leave the
lease out, which allows them more interleavings than the lease does.

Sandbox: artifacts and builds and their collection, `llms.txt`, quotas, the seed
import, path collisions, snapshots and export. Block loading is a choice.

The other feature blocks, the pipeline, the page rendering that makes up most of
the source, the hosts and the tooling are request filtering, formatting and I/O
without a protocol of their own; the Cloudflare runtime cache, its cached reads
and the migration ledger do have one and are not modelled.

## Plan

1. Done: one account's credentials, the version cache, the webhook lease,
   refunds with their outbound queue, subscription projections, the sandbox.
2. Done: every safety property and the refinement proved.
3. The role catalogue: deletion in two passes against assignment.
4. The Cloudflare runtime cache's single build slot, and the migration ledger.
5. Expiry and the sweep in the session model; OAuth and bootstrap sign-ins.
6. An abstract account (a set of usable credentials and the answers that end
   them), and `AuthAccount` as its refinement.

--------------------------- MODULE AuthVersionCache ---------------------------
(***************************************************************************)
(* The short-lived per-isolate cache that verify_access_token reads an     *)
(* account's auth_version through (blocks/auth/mod.rs, crypto.rs): fills   *)
(* that race bumps, bumps whose invalidation reaches one isolate only, and *)
(* the clear of a full cache.  One account; the clock is shared.           *)
(***************************************************************************)
EXTENDS Integers

CONSTANTS
  Isolate,    \* isolates or processes, each with its own cache
  Check,      \* credential checks, each run once
  Ttl,        \* AUTH_VERSION_CACHE_TTL_MS, in ticks
  MaxClock,   \* bound on time
  MaxBumps,   \* bound on the version
  NoIsolate   \* no isolate

ASSUME TtlAssumption == Ttl \in Nat \ {0}
ASSUME BoundAssumption == MaxClock \in Nat /\ MaxBumps \in Nat
ASSUME NoIsolateAssumption == NoIsolate \notin Isolate

VARIABLES
  clock,      \* now_millis
  version,    \* the auth_version column
  landed,     \* when each version's bump took effect
  stale,      \* the isolate of a bump that has not invalidated yet
  cached,     \* per isolate: a version, or -1 for no entry
  cachedAt,   \* per isolate: the entry's cached_at_ms
  pc,         \* per check
  iso,        \* the isolate that runs the check
  now,        \* the check's now_ms, captured before anything is read
  claim,      \* the token's auth_version claim
  seen        \* the version the check decides by

vars == <<clock, version, landed, stale, cached, cachedAt, pc, iso, now, claim, seen>>
check == <<pc, iso, now, claim, seen>>

Versions == 0 .. MaxBumps

Init ==
  /\ clock = 0 /\ version = 0 /\ stale = NoIsolate
  /\ landed = [n \in Versions |-> 0]
  /\ cached = [i \in Isolate |-> -1]
  /\ cachedAt = [i \in Isolate |-> 0]
  /\ pc = [c \in Check |-> "idle"]
  /\ iso = [c \in Check |-> NoIsolate]
  /\ now = [c \in Check |-> 0]
  /\ claim = [c \in Check |-> 0]
  /\ seen = [c \in Check |-> 0]

Tick ==
  /\ clock < MaxClock
  /\ clock' = clock + 1
  /\ UNCHANGED <<version, landed, stale, cached, cachedAt, check>>

Remove(i) ==
  /\ cached' = [cached EXCEPT ![i] = -1]
  /\ cachedAt' = [cachedAt EXCEPT ![i] = 0]

(* bump_auth_version: the increment, then the same isolate's invalidation. *)
Bump(i) ==
  /\ stale = NoIsolate /\ version < MaxBumps
  /\ version' = version + 1
  /\ landed' = [landed EXCEPT ![version + 1] = clock]
  /\ stale' = i
  /\ UNCHANGED <<clock, cached, cachedAt, check>>

(* invalidate_auth_version_cache; a process may also die before it. *)
Invalidate ==
  /\ stale # NoIsolate
  /\ Remove(stale) \/ UNCHANGED <<cached, cachedAt>>
  /\ stale' = NoIsolate
  /\ UNCHANGED <<clock, version, landed, check>>

(* A full cache is cleared by another account's fill. *)
Evict(i) ==
  /\ Remove(i)
  /\ UNCHANGED <<clock, version, landed, stale, check>>

(* Bug: a removed entry is served. *)
FreshEmpty(i, t) == t - cachedAt[i] < Ttl

Fresh(i, t) == cached[i] >= 0 /\ t - cachedAt[i] < Ttl

(* A token minted at some version v arrives at isolate i. *)
Begin(c, i, v) ==
  /\ pc[c] = "idle" /\ v <= version
  /\ iso' = [iso EXCEPT ![c] = i]
  /\ claim' = [claim EXCEPT ![c] = v]
  /\ now' = [now EXCEPT ![c] = clock]
  /\ pc' = [pc EXCEPT ![c] = "lookup"]
  /\ UNCHANGED <<clock, version, landed, stale, cached, cachedAt, seen>>

Decision(c, v) == IF claim[c] < v THEN "refused" ELSE "accepted"

(* A hit decides at once; a miss goes to the database. *)
Lookup(c) ==
  /\ pc[c] = "lookup"
  /\ IF Fresh(iso[c], now[c])
     THEN /\ seen' = [seen EXCEPT ![c] = cached[iso[c]]]
          /\ pc' = [pc EXCEPT ![c] = Decision(c, cached[iso[c]])]
     ELSE pc' = [pc EXCEPT ![c] = "read"] /\ UNCHANGED seen
  /\ UNCHANGED <<clock, version, landed, stale, cached, cachedAt, iso, now, claim>>

(* users::auth_version; a read that fails answers neither way. *)
Read(c) ==
  /\ pc[c] = "read"
  /\ \/ seen' = [seen EXCEPT ![c] = version] /\ pc' = [pc EXCEPT ![c] = "fill"]
     \/ pc' = [pc EXCEPT ![c] = "failed"] /\ UNCHANGED seen
  /\ UNCHANGED <<clock, version, landed, stale, cached, cachedAt, iso, now, claim>>

(* Bug: the entry is stamped with the time of the fill. *)
FillStampsClock(c) ==
  /\ pc[c] = "fill"
  /\ cached' = [cached EXCEPT ![iso[c]] = seen[c]]
  /\ cachedAt' = [cachedAt EXCEPT ![iso[c]] = clock]
  /\ pc' = [pc EXCEPT ![c] = Decision(c, seen[c])]
  /\ UNCHANGED <<clock, version, landed, stale, iso, now, claim, seen>>

(* The entry is stamped with the time the check began, not with the clock. *)
Fill(c) ==
  /\ pc[c] = "fill"
  /\ cached' = [cached EXCEPT ![iso[c]] = seen[c]]
  /\ cachedAt' = [cachedAt EXCEPT ![iso[c]] = now[c]]
  /\ pc' = [pc EXCEPT ![c] = Decision(c, seen[c])]
  /\ UNCHANGED <<clock, version, landed, stale, iso, now, claim, seen>>

Next ==
  \/ Tick \/ Invalidate
  \/ \E i \in Isolate : Bump(i) \/ Evict(i)
  \/ \E c \in Check :
       \/ \E i \in Isolate, v \in Versions : Begin(c, i, v)
       \/ Lookup(c) \/ Read(c) \/ Fill(c)

Spec == Init /\ [][Next]_vars

-----------------------------------------------------------------------------

(* Types; a version that is cached, read or decided by is one that was *)
(* stored, never the mark of an absent entry.                          *)
TypeOK ==
  /\ clock \in Nat /\ version \in Versions
  /\ landed \in [Versions -> Nat]
  /\ stale \in Isolate \cup {NoIsolate}
  /\ cached \in [Isolate -> Versions \cup {-1}]
  /\ cachedAt \in [Isolate -> Nat]
  /\ pc \in [Check -> {"idle", "lookup", "read", "fill",
                        "accepted", "refused", "failed"}]
  /\ iso \in [Check -> Isolate \cup {NoIsolate}]
  /\ now \in [Check -> Nat]
  /\ claim \in [Check -> Versions]
  /\ seen \in [Check -> Versions]

(* A token accepted by a check that began at least the cache's lifetime     *)
(* after a bump landed is not behind that bump, on any isolate: neither an  *)
(* invalidation that reached another isolate only nor a slow fill that      *)
(* stores a version read before the bump stretches the window.              *)
StaleAtMostTtl ==
  \A c \in Check : pc[c] = "accepted" =>
    \A n \in 1 .. version : landed[n] + Ttl <= now[c] => claim[c] >= n

-----------------------------------------------------------------------------
(* The inductive invariant: what a check or an entry knows covers every    *)
(* bump that landed before its time stamp.                                 *)

Covers(v, t) == \A n \in 1 .. version : landed[n] < t => v >= n

LandedInPast == \A n \in 1 .. version : landed[n] <= clock

EntriesCover ==
  \A i \in Isolate :
    cached[i] >= 0 => cachedAt[i] <= clock /\ Covers(cached[i], cachedAt[i])

ChecksBegan ==
  \A c \in Check : pc[c] # "idle" => now[c] <= clock /\ iso[c] \in Isolate

FillsCover == \A c \in Check : pc[c] = "fill" => Covers(seen[c], now[c])

CacheInv ==
  LandedInPast /\ EntriesCover /\ ChecksBegan /\ FillsCover /\ StaleAtMostTtl
=============================================================================

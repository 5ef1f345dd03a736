----------------------- MODULE AuthVersionCacheProofs -----------------------
(***************************************************************************)
(* The staleness bound of AuthVersionCache, for every number of isolates   *)
(* and checks, every cache lifetime and every bound on time and bumps.     *)
(***************************************************************************)
EXTENDS AuthVersionCache, TLAPS

(* The empty caches and idle checks satisfy the invariant. *)
LEMMA CacheInit == Init => TypeOK /\ CacheInv
  BY BoundAssumption, TtlAssumption
     DEF Init, TypeOK, Versions, CacheInv, LandedInPast, EntriesCover,
         ChecksBegan, FillsCover, Covers, StaleAtMostTtl

(* Every step of a check, a bump or the clock keeps the types. *)
LEMMA CacheType == TypeOK /\ CacheInv /\ [Next]_vars => TypeOK'
<1> SUFFICES ASSUME TypeOK, CacheInv, [Next]_vars PROVE TypeOK'
  OBVIOUS
<1> USE BoundAssumption, NoIsolateAssumption DEF TypeOK, Versions, check
<1>1. CASE UNCHANGED vars
  BY <1>1 DEF vars
<1>2. CASE Tick
  BY <1>2 DEF Tick
<1>3. CASE Invalidate
  <2>1. CASE Remove(stale)
    <3>1. stale \in Isolate
      BY <1>3 DEF Invalidate
    <3>2. cached' \in [Isolate -> Versions \cup {-1}]
      BY <2>1, <3>1 DEF Remove
    <3>3. cachedAt' \in [Isolate -> Nat]
      BY <2>1, <3>1 DEF Remove
    <3>4. QED
      BY <1>3, <3>2, <3>3 DEF Invalidate
  <2>2. CASE UNCHANGED <<cached, cachedAt>>
    BY <1>3, <2>2 DEF Invalidate
  <2>3. QED
    BY <1>3, <2>1, <2>2 DEF Invalidate
<1>4. ASSUME NEW i \in Isolate, Bump(i) PROVE TypeOK'
  BY <1>4 DEF Bump
<1>5. ASSUME NEW i \in Isolate, Evict(i) PROVE TypeOK'
  BY <1>5 DEF Evict, Remove
<1>6. ASSUME NEW c \in Check, NEW i \in Isolate, NEW v \in Versions,
             Begin(c, i, v)
      PROVE TypeOK'
  BY <1>6 DEF Begin
<1>7. ASSUME NEW c \in Check, Lookup(c) PROVE TypeOK'
  <2>1. iso[c] \in Isolate
    BY <1>7 DEF CacheInv, ChecksBegan, Lookup
  <2>2. CASE Fresh(iso[c], now[c])
    <3>1. cached[iso[c]] \in Versions
      BY <2>1, <2>2 DEF Fresh
    <3>2. Decision(c, cached[iso[c]]) \in {"accepted", "refused"}
      BY DEF Decision
    <3>3. seen' = [seen EXCEPT ![c] = cached[iso[c]]]
      BY <1>7, <2>2 DEF Lookup
    <3>4. pc' = [pc EXCEPT ![c] = Decision(c, cached[iso[c]])]
      BY <1>7, <2>2 DEF Lookup
    <3>5. seen' \in [Check -> Versions]
      BY <3>1, <3>3
    <3>6. pc' \in [Check -> {"idle", "lookup", "read", "fill",
                            "accepted", "refused", "failed"}]
      BY <3>2, <3>4
    <3>7. QED
      BY <1>7, <3>5, <3>6 DEF Lookup
  <2>3. CASE ~Fresh(iso[c], now[c])
    BY <1>7, <2>3 DEF Lookup
  <2>4. QED
    BY <2>2, <2>3
<1>8. ASSUME NEW c \in Check, Read(c) PROVE TypeOK'
  BY <1>8 DEF Read
<1>9. ASSUME NEW c \in Check, Fill(c) PROVE TypeOK'
  BY <1>9 DEF CacheInv, ChecksBegan, Fill, Decision
<1>10. QED
  BY <1>1, <1>2, <1>3, <1>4, <1>5, <1>6, <1>7, <1>8, <1>9 DEF Next

(* Every step keeps what entries and checks know ahead of their stamps. *)
LEMMA CacheNext == TypeOK /\ CacheInv /\ [Next]_vars => CacheInv'
<1> SUFFICES ASSUME TypeOK, CacheInv, [Next]_vars, TypeOK' PROVE CacheInv'
  BY CacheType
<1> USE BoundAssumption, TtlAssumption, NoIsolateAssumption
    DEF TypeOK, CacheInv, Versions, check
<1>1. CASE UNCHANGED vars
  <2> USE <1>1 DEF vars
  <2>1. LandedInPast'
    BY DEF LandedInPast
  <2>2. EntriesCover'
    BY DEF LandedInPast, EntriesCover, ChecksBegan, FillsCover, Covers
  <2>3. ChecksBegan'
    BY DEF ChecksBegan
  <2>4. FillsCover'
    BY DEF ChecksBegan, FillsCover, Covers
  <2>5. StaleAtMostTtl'
    BY DEF EntriesCover, ChecksBegan, FillsCover, Covers, StaleAtMostTtl
  <2>6. QED
    BY <2>1, <2>2, <2>3, <2>4, <2>5
<1>2. CASE Tick
  <2> USE <1>2 DEF Tick
  <2>1. LandedInPast'
    BY DEF LandedInPast
  <2>2. EntriesCover'
    BY DEF LandedInPast, EntriesCover, ChecksBegan, FillsCover, Covers
  <2>3. ChecksBegan'
    BY DEF ChecksBegan
  <2>4. FillsCover'
    BY DEF ChecksBegan, FillsCover, Covers
  <2>5. StaleAtMostTtl'
    BY DEF EntriesCover, ChecksBegan, FillsCover, Covers, StaleAtMostTtl
  <2>6. QED
    BY <2>1, <2>2, <2>3, <2>4, <2>5
<1>3. CASE Invalidate
  <2> USE <1>3 DEF Invalidate
  <2>1. LandedInPast'
    BY DEF LandedInPast
  <2>2. EntriesCover'
    <3>1. ASSUME NEW j \in Isolate, cached'[j] >= 0
          PROVE cached'[j] = cached[j] /\ cachedAt'[j] = cachedAt[j]
      <4>1. CASE Remove(stale)
        BY <3>1, <4>1 DEF Remove
      <4>2. QED
        BY <3>1, <4>1
    <3>2. QED
      BY <3>1 DEF EntriesCover, Covers
  <2>3. ChecksBegan'
    BY DEF ChecksBegan
  <2>4. FillsCover'
    BY DEF ChecksBegan, FillsCover, Covers
  <2>5. StaleAtMostTtl'
    BY DEF EntriesCover, ChecksBegan, FillsCover, Covers, StaleAtMostTtl
  <2>6. QED
    BY <2>1, <2>2, <2>3, <2>4, <2>5
<1>4. ASSUME NEW i \in Isolate, Bump(i) PROVE CacheInv'
  <2> USE <1>4 DEF Bump
  <2>1. ASSUME NEW n \in 1 .. version'
        PROVE \/ n \in 1 .. version /\ landed'[n] = landed[n]
              \/ n = version + 1 /\ landed'[n] = clock
    OBVIOUS
  <2>2. LandedInPast'
    BY <2>1 DEF LandedInPast
  <2>3. ASSUME NEW v \in Int, NEW t \in Nat, t <= clock, Covers(v, t)
        PROVE Covers(v, t)'
    <3> SUFFICES ASSUME NEW n \in 1 .. version', landed'[n] < t PROVE v >= n
      BY DEF Covers
    <3>1. CASE n = version + 1 /\ landed'[n] = clock
      BY <2>3, <3>1
    <3>2. CASE n \in 1 .. version /\ landed'[n] = landed[n]
      BY <2>3, <3>2 DEF Covers
    <3>3. QED
      BY <2>1, <3>1, <3>2
  <2>4. EntriesCover'
    <3> SUFFICES ASSUME NEW j \in Isolate, cached[j] >= 0
                 PROVE cachedAt[j] <= clock /\ Covers(cached[j], cachedAt[j])'
      BY DEF EntriesCover
    <3>1. cachedAt[j] <= clock /\ Covers(cached[j], cachedAt[j])
      BY DEF EntriesCover
    <3>2. cached[j] \in Int /\ cachedAt[j] \in Nat
      OBVIOUS
    <3>3. Covers(cached[j], cachedAt[j])'
      BY <3>1, <3>2, <2>3
    <3>4. QED
      BY <3>1, <3>3
  <2>5. ChecksBegan'
    BY DEF ChecksBegan
  <2>6. FillsCover'
    <3> SUFFICES ASSUME NEW c \in Check, pc[c] = "fill"
                 PROVE Covers(seen[c], now[c])'
      BY DEF FillsCover
    <3>1. now[c] <= clock /\ Covers(seen[c], now[c])
      BY DEF FillsCover, ChecksBegan
    <3>2. seen[c] \in Int /\ now[c] \in Nat
      OBVIOUS
    <3>3. QED
      BY <3>1, <3>2, <2>3
  <2>7. StaleAtMostTtl'
    <3> SUFFICES ASSUME NEW c \in Check, pc[c] = "accepted",
                        NEW n \in 1 .. version', landed'[n] + Ttl <= now[c]
                 PROVE claim[c] >= n
      BY DEF StaleAtMostTtl
    <3>1. now[c] <= clock
      BY DEF ChecksBegan
    <3>2. CASE n = version + 1 /\ landed'[n] = clock
      BY <3>1, <3>2
    <3>3. CASE n \in 1 .. version /\ landed'[n] = landed[n]
      BY <3>3 DEF StaleAtMostTtl
    <3>4. QED
      BY <2>1, <3>2, <3>3
  <2>8. QED
    BY <2>2, <2>4, <2>5, <2>6, <2>7
<1>5. ASSUME NEW i \in Isolate, Evict(i) PROVE CacheInv'
  <2> USE <1>5 DEF Evict, Remove
  <2>1. LandedInPast'
    BY DEF LandedInPast
  <2>2. EntriesCover'
    BY DEF LandedInPast, EntriesCover, ChecksBegan, FillsCover, Covers
  <2>3. ChecksBegan'
    BY DEF ChecksBegan
  <2>4. FillsCover'
    BY DEF ChecksBegan, FillsCover, Covers
  <2>5. StaleAtMostTtl'
    BY DEF EntriesCover, ChecksBegan, FillsCover, Covers, StaleAtMostTtl
  <2>6. QED
    BY <2>1, <2>2, <2>3, <2>4, <2>5
<1>6. ASSUME NEW c \in Check, NEW i \in Isolate, NEW v \in Versions,
             Begin(c, i, v)
      PROVE CacheInv'
  <2> USE <1>6 DEF Begin
  <2>1. LandedInPast'
    BY DEF LandedInPast
  <2>2. EntriesCover'
    BY DEF LandedInPast, EntriesCover, ChecksBegan, FillsCover, Covers
  <2>3. ChecksBegan'
    BY DEF ChecksBegan
  <2>4. FillsCover'
    BY DEF ChecksBegan, FillsCover, Covers
  <2>5. StaleAtMostTtl'
    BY DEF EntriesCover, ChecksBegan, FillsCover, Covers, StaleAtMostTtl
  <2>6. QED
    BY <2>1, <2>2, <2>3, <2>4, <2>5
<1>7. ASSUME NEW c \in Check, Lookup(c) PROVE CacheInv'
  <2> USE <1>7 DEF Lookup, Decision, Fresh
  <2>1. LandedInPast'
    BY DEF LandedInPast
  <2>2. EntriesCover'
    BY DEF LandedInPast, EntriesCover, ChecksBegan, FillsCover, Covers
  <2>3. ChecksBegan'
    BY DEF ChecksBegan
  <2>4. FillsCover'
    BY DEF ChecksBegan, FillsCover, Covers
  <2>5. StaleAtMostTtl'
    <3> SUFFICES ASSUME NEW d \in Check, pc'[d] = "accepted",
                        NEW n \in 1 .. version, landed[n] + Ttl <= now[d]
                 PROVE claim[d] >= n
      BY DEF StaleAtMostTtl
    <3>1. CASE d # c
      BY <3>1 DEF StaleAtMostTtl
    <3>2. CASE d = c
      <4>1. iso[c] \in Isolate
        BY DEF ChecksBegan
      <4>2. Fresh(iso[c], now[c])
        BY <3>2
      <4>3. claim[c] >= cached[iso[c]]
        BY <3>2, <4>1, <4>2
      <4>4. landed[n] < cachedAt[iso[c]]
        BY <3>2, <4>1, <4>2
      <4>5. cached[iso[c]] >= n
        BY <4>1, <4>2, <4>4 DEF EntriesCover, Covers
      <4>6. QED
        BY <3>2, <4>1, <4>3, <4>5
    <3>3. QED
      BY <3>1, <3>2
  <2>6. QED
    BY <2>1, <2>2, <2>3, <2>4, <2>5
<1>8. ASSUME NEW c \in Check, Read(c) PROVE CacheInv'
  <2> USE <1>8 DEF Read
  <2>1. LandedInPast'
    BY DEF LandedInPast
  <2>2. EntriesCover'
    BY DEF LandedInPast, EntriesCover, ChecksBegan, FillsCover, Covers
  <2>3. ChecksBegan'
    BY DEF ChecksBegan
  <2>4. FillsCover'
    <3> SUFFICES ASSUME NEW d \in Check, pc'[d] = "fill",
                        NEW n \in 1 .. version, landed[n] < now[d]
                 PROVE seen'[d] >= n
      BY DEF FillsCover, Covers
    <3>1. CASE d # c
      BY <3>1 DEF FillsCover, Covers
    <3>2. CASE d = c
      BY <3>2
    <3>3. QED
      BY <3>1, <3>2
  <2>5. StaleAtMostTtl'
    BY DEF EntriesCover, ChecksBegan, FillsCover, Covers, StaleAtMostTtl
  <2>6. QED
    BY <2>1, <2>2, <2>3, <2>4, <2>5
<1>9. ASSUME NEW c \in Check, Fill(c) PROVE CacheInv'
  <2> USE <1>9 DEF Fill, Decision
  <2>1. LandedInPast'
    BY DEF LandedInPast
  <2>2. EntriesCover'
    BY DEF LandedInPast, EntriesCover, ChecksBegan, FillsCover, Covers
  <2>3. ChecksBegan'
    BY DEF ChecksBegan
  <2>4. FillsCover'
    BY DEF ChecksBegan, FillsCover, Covers
  <2>5. StaleAtMostTtl'
    BY DEF EntriesCover, ChecksBegan, FillsCover, Covers, StaleAtMostTtl
  <2>6. QED
    BY <2>1, <2>2, <2>3, <2>4, <2>5
<1>10. QED
  BY <1>1, <1>2, <1>3, <1>4, <1>5, <1>6, <1>7, <1>8, <1>9 DEF Next

(* The cached entries and the checks keep their types: every entry holds a    *)
(* version that auth_version has had.                                         *)
THEOREM TypeCorrect == Spec => []TypeOK
BY CacheInit, CacheType, CacheNext, PTL DEF Spec

(* current_auth_version_at never serves a version more than the cache's       *)
(* lifetime behind: no token is accepted by a check that began that long      *)
(* after the bump that outdated it.                                           *)
THEOREM StalenessBound == Spec => []StaleAtMostTtl
<1>1. Spec => [](TypeOK /\ CacheInv)
  BY CacheInit, CacheType, CacheNext, PTL DEF Spec
<1>2. CacheInv => StaleAtMostTtl
  BY DEF CacheInv
<1>3. QED
  BY <1>1, <1>2, PTL
=============================================================================

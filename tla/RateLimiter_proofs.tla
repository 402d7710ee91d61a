-------------------------- MODULE RateLimiter_proofs --------------------------
(***************************************************************************)
(* For any number of processes, keys and calls, with and without Redis:    *)
(* what a counter lets through in a minute, and what the local maps keep.  *)
(***************************************************************************)
EXTENDS RateLimiter, FiniteSetTheorems, TLAPS

\* Until it can expire, the counter in Redis accounts for what it let through.
SharedAccounts ==
    \A k \in Key, w \in Window :
        /\ admitted[Redis][k][w] <= Limit
        /\ window <= w + 1 => admitted[Redis][k][w] <= shared[k][w]

\* A bucket accounts for what was let through in the current minute, and
\* nothing was let through in a minute to come.
LocalAccounts ==
    \A p \in Process, k \in Key, w \in Window :
        /\ admitted[p][k][w] <= Limit
        /\ w > window => admitted[p][k][w] = 0
        /\ w = window =>
              admitted[p][k][w] <=
                  IF local[p][k].window = window THEN local[p][k].count ELSE 0

IInv == TypeOK /\ SharedAccounts /\ LocalAccounts

-----------------------------------------------------------------------------

LEMMA CountersApart == \A p \in Process : p # Redis /\ p \in Counter
  BY ProcessAssumption DEF Counter

LEMMA RedisCounts == Redis \in Counter
  BY DEF Counter

\* Cleaning keeps the shape of the map and every bucket of the current minute.
LEMMA CleanupLocalKeeps ==
    ASSUME NEW buckets \in [Key -> Bucket], window \in Window,
           \A k \in Key : buckets[k].window <= window
    PROVE  /\ CleanupLocal(buckets) \in [Key -> Bucket]
           /\ \A k \in Key :
                 /\ CleanupLocal(buckets)[k].window <= window
                 /\ buckets[k].window = window =>
                        CleanupLocal(buckets)[k] = buckets[k]
                 /\ CleanupLocal(buckets)[k] \in {buckets[k], NoBucket}
  <1>1. NoBucket \in Bucket /\ NoBucket.window <= window
    BY MaxWindowAssumption DEF NoBucket, Bucket, Window
  <1>2. \A k \in Key : buckets[k].window \in Nat
    BY MaxWindowAssumption DEF Bucket, Window
  <1> QED
    BY <1>1, <1>2, MaxWindowAssumption DEF CleanupLocal, KeepAfter, Window

\* Counting keeps the shape of a bucket and moves it to the current minute.
LEMMA NextBucketCounts ==
    ASSUME NEW bucket \in Bucket, window \in Window
    PROVE  /\ NextBucket(bucket) \in Bucket
           /\ NextBucket(bucket).window = window
           /\ NextBucket(bucket).count \in Nat \ {0}
           /\ bucket.window = window =>
                  NextBucket(bucket).count = bucket.count + 1
  BY DEF NextBucket, Bucket

LEMMA InitIInv == Init => IInv
  <1> SUFFICES ASSUME Init PROVE IInv
    OBVIOUS
  <1> USE LimitAssumption, MaxWindowAssumption, ArrivalCapAssumption
  <1>1. 0 \in Window /\ NoBucket \in Bucket
    BY DEF Window, NoBucket, Bucket
  <1>2. \A s \in Counter, k \in Key, w \in Window : admitted[s][k][w] = 0
    BY DEF Init
  <1>3. TypeOK
    BY <1>1 DEF Init, TypeOK, NoBucket
  <1>4. SharedAccounts
    BY <1>2, RedisCounts DEF Init, SharedAccounts
  <1>5. LocalAccounts
    BY <1>2, CountersApart DEF Init, LocalAccounts, NoBucket
  <1> QED  BY <1>3, <1>4, <1>5 DEF IInv

-----------------------------------------------------------------------------

\* Where a call is decided, the other entries of the history stay.
LEMMA DecideCounts ==
    ASSUME TypeOK, NEW c \in Call, call[c] # Idle, NEW s \in Counter,
           NEW w \in Window, NEW count \in Nat, Decide(c, s, w, count)
    PROVE  /\ admitted' \in [Counter -> [Key -> [Window -> Nat]]]
           /\ \A t \in Counter, k \in Key, v \in Window :
                 admitted'[t][k][v] =
                    IF t = s /\ k = call[c].key /\ v = w /\ count <= Limit
                    THEN admitted[t][k][v] + 1 ELSE admitted[t][k][v]
           /\ DOMAIN call' = Call
           /\ call'[c] = Idle
           /\ \A d \in Call \ {c} : call'[d] = call[d]
  BY DEF TypeOK, Decide

LEMMA CallInside ==
    ASSUME TypeOK, NEW c \in Call, call[c] # Idle
    PROVE  /\ call[c].pc \in {"redis", "local"}
           /\ call[c].process \in Process /\ call[c].process \in Counter
           /\ call[c].key \in Key
           /\ call[c].window \in Window
           /\ window \in Nat /\ call[c].window \in Nat
           /\ window <= call[c].window + 1 /\ call[c].window <= window
  <1>1. call[c] \in [pc : {"redis", "local"}, process : Process,
                     key : Key, window : Window]
    BY DEF TypeOK
  <1>2. call[c].window \in {window, window - 1} /\ window \in Window
    BY DEF TypeOK
  <1>3. \A w \in Window : w \in Nat
    BY MaxWindowAssumption DEF Window
  <1> QED  BY <1>1, <1>2, <1>3 DEF Counter

LEMMA NotIdle == \A c \in Call : call[c].pc \in {"redis", "local"} => call[c] # Idle
  BY DEF Idle

\* The call leaves: what is known of the other calls stays.
LEMMA CallsStay ==
    ASSUME TypeOK, NEW c \in Call, window' = window, DOMAIN call' = Call,
           call'[c] = Idle, \A d \in Call \ {c} : call'[d] = call[d]
    PROVE  \A d \in Call : call'[d] # Idle =>
              /\ call'[d] \in [pc : {"redis", "local"}, process : Process,
                               key : Key, window : Window]
              /\ call'[d].window \in {window', window' - 1}
  BY DEF TypeOK

LEMMA IncrSharedCounts ==
    ASSUME TypeOK, NEW c \in Call, IncrShared(c)
    PROVE  /\ shared' \in [Key -> [Window -> Nat]]
           /\ \A k \in Key, v \in Window :
                 shared'[k][v] = IF k = call[c].key /\ v = call[c].window
                                 THEN shared[k][v] + 1 ELSE shared[k][v]
  <1>1. call[c].key \in Key /\ call[c].window \in Window
    BY CallInside, NotIdle DEF IncrShared
  <1> QED  BY <1>1 DEF TypeOK, IncrShared

LEMMA CountSharedKeeps ==
    ASSUME IInv, NEW c \in Call, CountShared(c)
    PROVE  IInv'
  <1> DEFINE k == call[c].key
             w == call[c].window
  <1>0. TypeOK /\ SharedAccounts /\ LocalAccounts /\ IncrShared(c)
        /\ Decide(c, Redis, w, shared[k][w] + 1)
        /\ UNCHANGED <<window, local, arrivals>>
    BY DEF IInv, CountShared
  <1>1. call[c] # Idle /\ k \in Key /\ w \in Window /\ window <= w + 1
    BY <1>0, CallInside, NotIdle DEF IncrShared
  <1>2. shared[k][w] + 1 \in Nat
    BY <1>0, <1>1 DEF TypeOK
  <1>3. /\ admitted' \in [Counter -> [Key -> [Window -> Nat]]]
        /\ \A t \in Counter, j \in Key, v \in Window :
              admitted'[t][j][v] =
                 IF t = Redis /\ j = k /\ v = w /\ shared[k][w] + 1 <= Limit
                 THEN admitted[t][j][v] + 1 ELSE admitted[t][j][v]
        /\ DOMAIN call' = Call
        /\ call'[c] = Idle
        /\ \A d \in Call \ {c} : call'[d] = call[d]
    BY <1>0, <1>1, <1>2, DecideCounts, RedisCounts
  <1>4. /\ shared' \in [Key -> [Window -> Nat]]
        /\ \A j \in Key, v \in Window :
              shared'[j][v] = IF j = k /\ v = w
                              THEN shared[j][v] + 1 ELSE shared[j][v]
    BY <1>0, IncrSharedCounts
  <1>5. TypeOK'
    BY <1>0, <1>3, <1>4, CallsStay DEF TypeOK
  <1>6. SharedAccounts'
    <2> SUFFICES ASSUME NEW j \in Key, NEW v \in Window
                 PROVE  /\ admitted'[Redis][j][v] <= Limit
                        /\ window <= v + 1 =>
                               admitted'[Redis][j][v] <= shared'[j][v]
      BY <1>0 DEF SharedAccounts
    <2>1. /\ admitted[Redis][j][v] \in Nat /\ shared[j][v] \in Nat
          /\ admitted[Redis][j][v] <= Limit
          /\ window <= v + 1 => admitted[Redis][j][v] <= shared[j][v]
      BY <1>0, RedisCounts DEF SharedAccounts, TypeOK
    <2>2. /\ admitted'[Redis][j][v] =
                IF j = k /\ v = w /\ shared[k][w] + 1 <= Limit
                THEN admitted[Redis][j][v] + 1 ELSE admitted[Redis][j][v]
          /\ shared'[j][v] = IF j = k /\ v = w
                             THEN shared[j][v] + 1 ELSE shared[j][v]
      BY <1>3, <1>4, RedisCounts
    <2> HIDE DEF k, w
    <2>3. CASE j = k /\ v = w
      BY <1>1, <2>1, <2>2, <2>3, LimitAssumption
    <2>4. CASE ~(j = k /\ v = w)
      BY <2>1, <2>2, <2>4
    <2> QED  BY <2>3, <2>4
  <1>7. LocalAccounts'
    <2>1. \A p \in Process, j \in Key, v \in Window :
              admitted'[p][j][v] = admitted[p][j][v]
      BY <1>3, CountersApart
    <2> QED  BY <1>0, <2>1 DEF LocalAccounts
  <1> QED  BY <1>5, <1>6, <1>7 DEF IInv

LEMMA CountLocalKeeps ==
    ASSUME IInv, NEW c \in Call, CountLocal(c)
    PROVE  IInv'
  <1> DEFINE p == call[c].process
             k == call[c].key
             buckets == CleanupLocal(local[p])
             bucket == NextBucket(buckets[k])
  <1>0. TypeOK /\ SharedAccounts /\ LocalAccounts
        /\ local' = [local EXCEPT ![p] = [buckets EXCEPT ![k] = bucket]]
        /\ Decide(c, p, window, bucket.count)
        /\ UNCHANGED <<window, shared, arrivals>>
    BY DEF IInv, CountLocal
  <1>1. /\ call[c] # Idle /\ p \in Process /\ p \in Counter /\ k \in Key
        /\ window \in Window /\ window \in Nat
    BY <1>0, CallInside, NotIdle DEF CountLocal, TypeOK
  <1>2. /\ buckets \in [Key -> Bucket]
        /\ \A j \in Key : /\ buckets[j].window <= window
                          /\ local[p][j].window = window =>
                                 buckets[j] = local[p][j]
    BY <1>0, <1>1, CleanupLocalKeeps DEF TypeOK
  <1>3. /\ bucket \in Bucket /\ bucket.window = window
        /\ bucket.count \in Nat \ {0}
        /\ buckets[k].window = window => bucket.count = buckets[k].count + 1
    BY <1>1, <1>2, NextBucketCounts
  <1> HIDE DEF bucket, buckets
  <1>4. /\ admitted' \in [Counter -> [Key -> [Window -> Nat]]]
        /\ \A t \in Counter, j \in Key, v \in Window :
              admitted'[t][j][v] =
                 IF t = p /\ j = k /\ v = window /\ bucket.count <= Limit
                 THEN admitted[t][j][v] + 1 ELSE admitted[t][j][v]
        /\ DOMAIN call' = Call
        /\ call'[c] = Idle
        /\ \A d \in Call \ {c} : call'[d] = call[d]
    BY <1>0, <1>1, <1>3, DecideCounts
  <1> HIDE DEF k, p
  <1>5. /\ local' \in [Process -> [Key -> Bucket]]
        /\ \A q \in Process, j \in Key :
              local'[q][j] = IF q = p THEN IF j = k THEN bucket ELSE buckets[j]
                                      ELSE local[q][j]
    BY <1>0, <1>1, <1>2, <1>3 DEF TypeOK
  <1>6. \A q \in Process, j \in Key : local'[q][j].window <= window'
    BY <1>0, <1>1, <1>2, <1>3, <1>5 DEF TypeOK
  <1>7. TypeOK'
    BY <1>0, <1>4, <1>5, <1>6, CallsStay DEF TypeOK
  <1>8. SharedAccounts'
    <2>1. \A j \in Key, v \in Window :
              admitted'[Redis][j][v] = admitted[Redis][j][v]
      BY <1>1, <1>4, CountersApart, RedisCounts
    <2> QED  BY <1>0, <2>1 DEF SharedAccounts
  <1>9. LocalAccounts'
    <2> SUFFICES ASSUME NEW q \in Process, NEW j \in Key, NEW v \in Window
                 PROVE  /\ admitted'[q][j][v] <= Limit
                        /\ v > window => admitted'[q][j][v] = 0
                        /\ v = window =>
                              admitted'[q][j][v] <=
                                 IF local'[q][j].window = window
                                 THEN local'[q][j].count ELSE 0
      BY <1>0 DEF LocalAccounts
    <2>1. /\ admitted[q][j][v] \in Nat
          /\ admitted[q][j][v] <= Limit
          /\ v > window => admitted[q][j][v] = 0
          /\ v = window => admitted[q][j][v] <=
                IF local[q][j].window = window THEN local[q][j].count ELSE 0
      BY <1>0, CountersApart DEF LocalAccounts, TypeOK
    <2>2. admitted'[q][j][v] =
              IF q = p /\ j = k /\ v = window /\ bucket.count <= Limit
              THEN admitted[q][j][v] + 1 ELSE admitted[q][j][v]
      BY <1>4, CountersApart
    <2>3. CASE q = p /\ j = k /\ v = window
      <3>1. local'[q][j] = bucket
        BY <1>1, <1>5, <2>3
      <3>2. admitted[q][j][v] + 1 <= bucket.count
        <4>1. CASE local[q][j].window = window
          <5>1. bucket.count = local[q][j].count + 1
            BY <1>1, <1>2, <1>3, <2>3, <4>1
          <5>2. local[q][j].count \in Nat
            BY <1>0 DEF TypeOK, Bucket
          <5> QED  BY <2>1, <2>3, <4>1, <5>1, <5>2
        <4>2. CASE local[q][j].window # window
          BY <1>3, <2>1, <2>3, <4>2
        <4> QED  BY <4>1, <4>2
      <3> QED  BY <1>1, <1>3, <2>1, <2>2, <2>3, <3>1, <3>2, LimitAssumption
    <2>4. CASE ~(q = p /\ j = k /\ v = window)
      <3>1. ASSUME v = window, local[q][j].window = window
            PROVE  local'[q][j] = local[q][j]
        BY <1>2, <1>5, <2>4, <3>1
      <3>2. admitted'[q][j][v] = admitted[q][j][v]
        BY <2>2, <2>4
      <3>3. ASSUME v = window, local[q][j].window # window
            PROVE  admitted[q][j][v] = 0
        BY <2>1, <3>3
      <3>4. local'[q][j].count \in Nat
        BY <1>5 DEF Bucket
      <3> QED  BY <2>1, <3>1, <3>2, <3>3, <3>4
    <2> QED  BY <2>3, <2>4
  <1> QED  BY <1>7, <1>8, <1>9 DEF IInv

\* Steps that count nothing leave the accounts as they are.
LEMMA NothingCounted ==
    ASSUME IInv, TypeOK', UNCHANGED <<window, local, admitted>>,
           \A k \in Key, w \in Window :
               window <= w + 1 => shared'[k][w] >= shared[k][w]
    PROVE  IInv'
  <1>1. \A k \in Key, w \in Window : admitted[Redis][k][w] \in Nat
            /\ shared[k][w] \in Nat /\ shared'[k][w] \in Nat
    BY RedisCounts DEF IInv, TypeOK
  <1>2. SharedAccounts'
    BY <1>1 DEF IInv, SharedAccounts
  <1>3. LocalAccounts'
    BY DEF IInv, LocalAccounts
  <1> QED  BY <1>2, <1>3 DEF IInv

LEMMA NextIInv == IInv /\ [Next]_vars => IInv'
  <1> SUFFICES ASSUME IInv, [Next]_vars PROVE IInv'
    OBVIOUS
  <1>0. TypeOK /\ SharedAccounts /\ LocalAccounts /\ window \in Nat
    BY MaxWindowAssumption DEF IInv, TypeOK, Window
  <1>00. \A k \in Key, w \in Window :
            shared[k][w] \in Nat /\ shared[k][w] >= shared[k][w]
    <2>1. \A k \in Key, w \in Window : shared[k][w] \in Nat
      BY <1>0 DEF TypeOK
    <2> QED  BY <2>1
  <1>1. ASSUME NEW c \in Call, NEW p \in Process, NEW k \in Key, Arrive(c, p, k)
        PROVE  IInv'
    <2>1. TypeOK'
      BY <1>0, <1>1, ArrivalCapAssumption DEF TypeOK, Arrive
    <2> QED  BY <1>00, <1>1, <2>1, NothingCounted DEF Arrive
  <1>2. ASSUME NEW c \in Call, CountShared(c) PROVE IInv'
    BY <1>2, CountSharedKeeps
  <1>3. ASSUME NEW c \in Call, LoseReply(c) PROVE IInv'
    <2>1. call[c] # Idle
      BY <1>3, NotIdle DEF LoseReply, IncrShared
    <2>2. /\ shared' \in [Key -> [Window -> Nat]]
          /\ \A k \in Key, w \in Window : shared'[k][w] >= shared[k][w]
      BY <1>0, <1>00, <1>3, IncrSharedCounts DEF LoseReply
    <2>3. TypeOK'
      BY <1>0, <1>3, <2>1, <2>2 DEF LoseReply, ToLocal, TypeOK
    <2> QED  BY <1>3, <2>2, <2>3, NothingCounted DEF LoseReply, ToLocal
  <1>4. ASSUME NEW c \in Call, RedisAway(c) PROVE IInv'
    <2>1. call[c] # Idle
      BY <1>4, NotIdle DEF RedisAway
    <2>2. TypeOK'
      BY <1>0, <1>4, <2>1 DEF RedisAway, ToLocal, TypeOK
    <2> QED  BY <1>00, <1>4, <2>2, NothingCounted DEF RedisAway, ToLocal
  <1>5. ASSUME NEW c \in Call, CountLocal(c) PROVE IInv'
    BY <1>5, CountLocalKeeps
  <1>6. ASSUME NEW c \in Call, Abandon(c) PROVE IInv'
    <2>1. TypeOK'
      BY <1>0, <1>6 DEF Abandon, TypeOK
    <2> QED  BY <1>00, <1>6, <2>1, NothingCounted DEF Abandon
  <1>7. ASSUME NEW k \in Key, NEW w \in Window, Expire(k, w) PROVE IInv'
    <2>1. TypeOK'
      BY <1>0, <1>7 DEF Expire, TypeOK
    <2>2. \A j \in Key, v \in Window :
              window <= v + 1 => shared'[j][v] >= shared[j][v]
      <3> SUFFICES ASSUME NEW j \in Key, NEW v \in Window, window <= v + 1
                   PROVE  shared'[j][v] >= shared[j][v]
        OBVIOUS
      <3>1. shared \in [Key -> [Window -> Nat]] /\ shared[j][v] \in Nat
        BY <1>0 DEF TypeOK
      <3>2. ~ (j = k /\ v = w)
        BY <1>0, <1>7, MaxWindowAssumption DEF Expire, TypeOK, Window
      <3>3. shared'[j][v] = shared[j][v]
        BY <1>7, <3>1, <3>2 DEF Expire
      <3> QED  BY <3>1, <3>3
    <2> QED  BY <1>0, <1>7, <2>1, <2>2, NothingCounted DEF Expire
  <1>8. CASE Roll
    <2>1. window' \in Window /\ window' = window + 1
      BY <1>0, <1>8, MaxWindowAssumption DEF Roll, TypeOK, Window
    <2>2. \A p \in Process, k \in Key :
              local[p][k].window \in Nat /\ local[p][k].window <= window
      BY <1>0, MaxWindowAssumption DEF TypeOK, Bucket, Window
    <2>3. TypeOK'
      <3>1. \A p \in Process, k \in Key : local'[p][k].window <= window'
        BY <1>0, <1>8, <2>1, <2>2 DEF Roll
      <3>2. \A c \in Call : call[c] # Idle => call[c].window = window' - 1
        BY <1>0, <1>8, <2>1 DEF Roll
      <3> QED  BY <1>0, <1>8, <2>1, <3>1, <3>2 DEF Roll, TypeOK
    <2>4. SharedAccounts'
      BY <1>0, <1>8, <2>1, MaxWindowAssumption DEF Roll, SharedAccounts, Window
    <2>5. LocalAccounts'
      BY <1>0, <1>8, <2>1, <2>2, MaxWindowAssumption
         DEF Roll, LocalAccounts, Window
    <2> QED  BY <2>3, <2>4, <2>5 DEF IInv
  <1>9. CASE UNCHANGED vars
    BY <1>0, <1>9 DEF vars, IInv, TypeOK, SharedAccounts, LocalAccounts
  <1> QED
    BY <1>1, <1>2, <1>3, <1>4, <1>5, <1>6, <1>7, <1>8, <1>9 DEF Next, LimiterStep

-----------------------------------------------------------------------------

(* A Redis that comes and goes, lost replies, restarts, calls that straddle two
   minutes and the cleaning of the maps never let a counter admit more than the
   limit for a key in a minute (ratelimit.go:39-50). *)
THEOREM Limited == Spec => []LimitPerCounter
  <1>1. IInv => LimitPerCounter
    BY DEF IInv, SharedAccounts, LocalAccounts, LimitPerCounter, Counter
  <1> QED  BY <1>1, InitIInv, NextIInv, PTL DEF Spec

-----------------------------------------------------------------------------
(* What the limit per counter means for a client. *)

\* The calls let through for a key in a minute, numbered by their counters.
Granted(k, w) == UNION {{s} \X (1 .. admitted[s][k][w]) : s \in Counter}

(* However Redis comes and goes, a key gets no more calls through in a minute
   than the limit for every process and once more for Redis
   (ratelimit.go:48-82). *)
THEOREM KeyLimited ==
    ASSUME IsFiniteSet(Process)
    PROVE  Spec => [](\A k \in Key, w \in Window :
                          /\ IsFiniteSet(Granted(k, w))
                          /\ Cardinality(Granted(k, w)) <=
                                 (Cardinality(Process) + 1) * Limit)
  <1>1. ASSUME TypeOK, LimitPerCounter, NEW k \in Key, NEW w \in Window
        PROVE  /\ IsFiniteSet(Granted(k, w))
               /\ Cardinality(Granted(k, w)) <= (Cardinality(Process) + 1) * Limit
    <2>1. /\ IsFiniteSet(Counter) /\ Cardinality(Counter) = Cardinality(Process) + 1
          /\ Cardinality(Process) \in Nat
      BY ProcessAssumption, FS_AddElement, FS_CardinalityType DEF Counter
    <2>2. IsFiniteSet(1 .. Limit) /\ Cardinality(1 .. Limit) = Limit
      BY LimitAssumption, FS_Interval
    <2>3. /\ IsFiniteSet(Counter \X (1 .. Limit))
          /\ Cardinality(Counter \X (1 .. Limit)) = Cardinality(Counter) * Limit
      BY <2>1, <2>2, FS_Product
    <2>4. Granted(k, w) \subseteq Counter \X (1 .. Limit)
      <3>1. ASSUME NEW s \in Counter
            PROVE  1 .. admitted[s][k][w] \subseteq 1 .. Limit
        BY <1>1, LimitAssumption DEF TypeOK, LimitPerCounter
      <3> QED  BY <3>1 DEF Granted
    <2>5. /\ IsFiniteSet(Granted(k, w))
          /\ Cardinality(Granted(k, w)) <= Cardinality(Counter \X (1 .. Limit))
      BY <2>3, <2>4, FS_Subset
    <2> QED  BY <2>1, <2>3, <2>5
  <1>2. IInv => TypeOK
    BY DEF IInv
  <1>3. Spec => []TypeOK
    BY <1>2, InitIInv, NextIInv, PTL DEF Spec
  <1>4. TypeOK /\ LimitPerCounter =>
            \A k \in Key, w \in Window :
                /\ IsFiniteSet(Granted(k, w))
                /\ Cardinality(Granted(k, w)) <= (Cardinality(Process) + 1) * Limit
    BY <1>1
  <1> QED  BY <1>3, <1>4, Limited, PTL

(* After every local count fewer than Capacity entries of earlier minutes are
   in the map: its size is bounded by Capacity and the keys of one minute
   (ratelimit.go:71-94). *)
THEOREM MapsCleaned == Spec => StaleEntriesBounded
  <1>1. IInv /\ [Next]_vars =>
           [\A p \in Process :
               local'[p] # local[p] => Cardinality(Stale(p)') < Capacity]_vars
    <2> SUFFICES ASSUME IInv, Next, NEW p \in Process, local'[p] # local[p]
                 PROVE  Cardinality(Stale(p)') < Capacity
      OBVIOUS
    <2>1. PICK c \in Call : CountLocal(c)
      BY DEF Next, LimiterStep, Roll, Arrive, CountShared, LoseReply, RedisAway,
             ToLocal, Abandon, Expire
    <2> DEFINE k == call[c].key
               buckets == CleanupLocal(local[p])
    <2>2. TypeOK /\ window \in Window /\ window \in Nat /\ window' = window
      BY <2>1, MaxWindowAssumption DEF IInv, TypeOK, CountLocal, Window
    <2>3. call[c].process = p /\ k \in Key
      BY <2>1, <2>2, CallInside, NotIdle DEF CountLocal, TypeOK
    <2>4. /\ buckets \in [Key -> Bucket]
          /\ \A j \in Key : buckets[j] \in {local[p][j], NoBucket}
      BY <2>2, CleanupLocalKeeps DEF TypeOK
    <2>5. local'[p] = [buckets EXCEPT ![k] = NextBucket(buckets[k])]
      BY <2>1, <2>2, <2>3 DEF CountLocal, TypeOK
    <2>6. NextBucket(buckets[k]).window = window
      BY DEF NextBucket
    <2>7. Stale(p)' \subseteq {j \in Tracked(buckets) : buckets[j].window < window}
      BY <2>2, <2>4, <2>5, <2>6 DEF Stale, Tracked
    <2>8. CASE Cardinality(Tracked(local[p])) < Capacity
      <3>1. Stale(p)' \subseteq Tracked(local[p])
        BY <2>7, <2>8 DEF CleanupLocal
      <3>2. IsFiniteSet(Tracked(local[p]))
        BY KeyAssumption, FS_Subset DEF Tracked
      <3>3. /\ Cardinality(Stale(p)') <= Cardinality(Tracked(local[p]))
            /\ Cardinality(Stale(p)') \in Nat
            /\ Cardinality(Tracked(local[p])) \in Nat
        BY <3>1, <3>2, FS_Subset, FS_CardinalityType
      <3> QED  BY <2>8, <3>3, CapacityAssumption
    <2>9. CASE ~(Cardinality(Tracked(local[p])) < Capacity)
      <3>1. \A j \in Key : buckets[j].count > 0 => ~(buckets[j].window < window)
        BY <2>9 DEF CleanupLocal, KeepAfter, NoBucket
      <3>2. Stale(p)' = {}
        BY <2>7, <3>1 DEF Tracked
      <3> QED  BY <3>2, FS_EmptySet, CapacityAssumption
    <2> QED  BY <2>8, <2>9
  <1> QED  BY <1>1, InitIInv, NextIInv, PTL DEF Spec, StaleEntriesBounded
=============================================================================

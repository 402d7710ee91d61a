----------------------------- MODULE RateLimiter -----------------------------
(***************************************************************************)
(* The request limiter (backend/internal/middleware/ratelimit.go).  Every  *)
(* call is counted under its key (client address and route) in the current *)
(* minute: in Redis, shared by all processes, or, when Redis does not      *)
(* answer or is not configured, in a map of the process guarded by a       *)
(* mutex.  A call is let through when its count is at most the limit.      *)
(***************************************************************************)
EXTENDS Naturals, FiniteSets

CONSTANTS
    Process,     \* the backend processes behind one Redis; a process that was
                 \* restarted is another one, its map starts empty
    Key,         \* client address and route
    Call,        \* the calls that can be in the limiter at the same time
    Limit,       \* the configured REQUEST_LIMIT
    Capacity,    \* the size from which the local map is cleaned: 512
    UsesRedis,   \* whether REDIS_ADDR is configured
    MaxWindow,   \* bound: the last minute
    ArrivalCap   \* bound: the calls that arrive

ASSUME LimitAssumption == Limit \in Nat \ {0}

ASSUME CapacityAssumption == Capacity \in Nat \ {0}

ASSUME UsesRedisAssumption == UsesRedis \in BOOLEAN

ASSUME MaxWindowAssumption == MaxWindow \in Nat

ASSUME ArrivalCapAssumption == ArrivalCap \in Nat

ASSUME KeyAssumption == IsFiniteSet(Key)

Redis == "redis"

ASSUME ProcessAssumption == Redis \notin Process

Counter == Process \cup {Redis}

Window == 0 .. MaxWindow

VARIABLES
    window,    \* the current minute
    shared,    \* the counters in Redis, 0 when there is none
    local,     \* the map of every process
    call,      \* the calls in the limiter
    arrivals,  \* the calls that arrived so far
    admitted   \* history: the calls let through, by the counter that counted them

vars == <<window, shared, local, call, arrivals, admitted>>

Idle == [pc |-> "idle"]

NoBucket == [window |-> 0, count |-> 0]

Bucket == [window : Window, count : Nat]

Arrived(p, k, pc) == [pc |-> pc, process |-> p, key |-> k, window |-> window]

Init ==
    /\ window = 0
    /\ shared = [k \in Key |-> [w \in Window |-> 0]]
    /\ local = [p \in Process |-> [k \in Key |-> NoBucket]]
    /\ call = [c \in Call |-> Idle]
    /\ arrivals = 0
    /\ admitted = [s \in Counter |-> [k \in Key |-> [w \in Window |-> 0]]]

-----------------------------------------------------------------------------

\* The key of the Redis counter is built from the clock before Redis is asked.
Arrive(c, p, k) ==
    /\ call[c] = Idle
    /\ arrivals < ArrivalCap
    /\ arrivals' = arrivals + 1
    /\ call' = [call EXCEPT ![c] =
                   [pc |-> IF UsesRedis THEN "redis" ELSE "local",
                    process |-> p, key |-> k, window |-> window]]
    /\ UNCHANGED <<window, shared, local, admitted>>

\* The call leaves the limiter: to its handler, or with 429.
Decide(c, counter, w, count) ==
    /\ call' = [call EXCEPT ![c] = Idle]
    /\ admitted' =
          IF count <= Limit
          THEN [admitted EXCEPT ![counter][call[c].key][w] = @ + 1]
          ELSE admitted

\* INCR under the key that was built on arrival.
IncrShared(c) ==
    /\ call[c].pc = "redis"
    /\ shared' = [shared EXCEPT ![call[c].key][call[c].window] = @ + 1]

CountShared(c) ==
    /\ IncrShared(c)
    /\ Decide(c, Redis, call[c].window, shared[call[c].key][call[c].window] + 1)
    /\ UNCHANGED <<window, local, arrivals>>

ToLocal(c) ==
    /\ call' = [call EXCEPT ![c].pc = "local"]
    /\ UNCHANGED <<window, local, arrivals, admitted>>

\* Redis counted the call and its answer is lost: the call is counted again.
LoseReply(c) == IncrShared(c) /\ ToLocal(c)

RedisAway(c) ==
    /\ call[c].pc = "redis"
    /\ ToLocal(c)
    /\ UNCHANGED shared

Tracked(buckets) == {k \in Key : buckets[k].count > 0}

\* Keep the entries of minutes after w.
KeepAfter(w, buckets) ==
    [k \in Key |-> IF buckets[k].window < w THEN NoBucket ELSE buckets[k]]

\* The entries of the current minute go as well.
CleanupLocalAll(buckets) ==
    IF Cardinality(Tracked(buckets)) < Capacity
    THEN buckets ELSE KeepAfter(window + 1, buckets)

\* Off by one: one entry too many before the map is cleaned.
CleanupLocalLate(buckets) ==
    IF Cardinality(Tracked(buckets)) <= Capacity
    THEN buckets ELSE KeepAfter(window, buckets)

\* The entries of earlier minutes go, once there are many entries.
CleanupLocal(buckets) ==
    IF Cardinality(Tracked(buckets)) < Capacity
    THEN buckets ELSE KeepAfter(window, buckets)

\* When the minute has rolled over the count starts again.
NextBucket(bucket) ==
    [window |-> window,
     count |-> IF bucket.window = window THEN bucket.count + 1 ELSE 1]

\* Under the mutex, with the clock read anew.
CountLocal(c) ==
    LET p == call[c].process
        k == call[c].key
        buckets == CleanupLocal(local[p])
        bucket == NextBucket(buckets[k])
    IN
    /\ call[c].pc = "local"
    /\ local' = [local EXCEPT ![p] = [buckets EXCEPT ![k] = bucket]]
    /\ Decide(c, p, window, bucket.count)
    /\ UNCHANGED <<window, shared, arrivals>>

\* The process of the call exits.
Abandon(c) ==
    /\ call[c] # Idle
    /\ call' = [call EXCEPT ![c] = Idle]
    /\ UNCHANGED <<window, shared, local, arrivals, admitted>>

\* A counter that expires before its minute is over.
ExpireEarly(k, w) ==
    /\ shared[k][w] > 0
    /\ window >= w
    /\ shared' = [shared EXCEPT ![k][w] = 0]
    /\ UNCHANGED <<window, local, call, arrivals, admitted>>

\* A counter expires two minutes after its last increment.
Expire(k, w) ==
    /\ shared[k][w] > 0
    /\ window >= w + 2
    /\ shared' = [shared EXCEPT ![k][w] = 0]
    /\ UNCHANGED <<window, local, call, arrivals, admitted>>

\* Redis answers or is given up within a minute, so a call sees the minute roll
\* over at most once between building its key and being counted.
Roll ==
    /\ window < MaxWindow
    /\ \A c \in Call : call[c] # Idle => call[c].window = window
    /\ window' = window + 1
    /\ UNCHANGED <<shared, local, call, arrivals, admitted>>

LimiterStep(c) ==
    \/ \E p \in Process, k \in Key : Arrive(c, p, k)
    \/ CountShared(c) \/ LoseReply(c) \/ RedisAway(c) \/ CountLocal(c) \/ Abandon(c)

Next ==
    \/ Roll
    \/ \E c \in Call : LimiterStep(c)
    \/ \E k \in Key, w \in Window : Expire(k, w)

\* No fairness: what is bounded here is bounded in every behaviour.
Spec == Init /\ [][Next]_vars

-----------------------------------------------------------------------------
(* Every variable keeps its type; a call is at most a minute old and nothing is
   counted in a minute that has not come. *)
TypeOK ==
    /\ window \in Window
    /\ shared \in [Key -> [Window -> Nat]]
    /\ local \in [Process -> [Key -> Bucket]]
    /\ \A p \in Process, k \in Key : local[p][k].window <= window
    /\ DOMAIN call = Call
    /\ \A c \in Call : call[c] # Idle =>
          /\ call[c] \in [pc : {"redis", "local"}, process : Process,
                          key : Key, window : Window]
          /\ call[c].window \in {window, window - 1}
    /\ arrivals \in Nat
    /\ admitted \in [Counter -> [Key -> [Window -> Nat]]]

(* No counter lets more than the limit through for one key in one minute
   (ratelimit.go:48): not when Redis comes and goes in the middle of a minute,
   not when calls straddle two minutes, not when the map is cleaned.  So a key
   gets at most Limit * Cardinality(Counter) calls a minute. *)
LimitPerCounter ==
    \A s \in Counter, k \in Key, w \in Window : admitted[s][k][w] <= Limit

(* The map of a process does not pile up old entries (ratelimit.go:85-94):
   whenever a call was counted in it, fewer than Capacity entries are of an
   earlier minute. *)
Stale(p) == {k \in Tracked(local[p]) : local[p][k].window < window}

StaleEntriesBounded ==
    [][\A p \in Process :
          local'[p] # local[p] => Cardinality(Stale(p)') < Capacity]_vars
=============================================================================

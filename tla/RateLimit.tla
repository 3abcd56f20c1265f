----------------------------- MODULE RateLimit -----------------------------
(***************************************************************************)
(* The fixed-window limiter in front of the routes                         *)
(* (adapters/http/rate_limit.rs), of one scope: each replica with a map of *)
(* its own, or all that have RATE_LIMIT_REDIS_URL on the counters in       *)
(* Redis.  Time is in seconds.  A request reads its clock before it has    *)
(* the lock of the map, or the answer of Redis: it may be counted up to    *)
(* Lag later, behind requests that read theirs after it.                   *)
(***************************************************************************)
EXTENDS Integers, FiniteSets

CONSTANTS Addresses,  \* of clients, as a proxy or the socket has them
          None,       \* no header, or no peer address
          Replicas,
          OnRedis,    \* the replicas whose limiter is Redis
          Limit,      \* max_per_window
          Window,     \* window, window_secs
          Lag,
          MaxTime     \* bounds the clock

VARIABLES now,
          hits,      \* of each replica, the windows in its map
          buckets,   \* the counters in Redis
          admitted,  \* the requests that were counted and let through
          requests   \* how many were

vars == <<now, hits, buckets, admitted, requests>>

\* client_key: the first entry of X-Forwarded-For, the peer, or one for all.
ClientKey(forwarded, peer) ==
    IF forwarded # None THEN forwarded ELSE IF peer # None THEN peer ELSE "unknown"

Clients == Addresses \cup {"unknown"}

Times   == 0 .. MaxTime
Indices == 0 .. MaxTime

\* An entry of the map; one that is not in it has count 0.
Hit   == [start: Times, count: Nat]
NoHit == [start |-> 0, count |-> 0]

\* A counter and the time it expires at.
Bucket   == [count: Nat, until: Nat]
NoBucket == [count |-> 0, until |-> 0]

\* A request that was let through: when it read its clock, and as which of
\* which window it was counted.
Admission == [id: Nat, by: Replicas, client: Clients, at: Times,
              window: Times, nr: Nat]

\* Every variable is of its kind.
TypeOK ==
    /\ now \in Times
    /\ hits \in [Replicas -> [Clients -> Hit]]
    /\ buckets \in [Clients -> [Indices -> Bucket]]
    /\ admitted \in SUBSET Admission
    /\ requests \in Nat

Init ==
    /\ now = 0
    /\ hits = [p \in Replicas |-> [c \in Clients |-> NoHit]]
    /\ buckets = [c \in Clients |-> [i \in Indices |-> NoBucket]]
    /\ admitted = {}
    /\ requests = 0

Tick ==
    /\ now < MaxTime
    /\ now' = now + 1
    /\ UNCHANGED <<hits, buckets, admitted, requests>>

\* The times a request that is counted now may have read.
Clock == {t \in Times : t <= now /\ now <= t + Lag}

\* The middleware: a request counted above the limit goes no further.
Admit(p, c, at, window, nr) ==
    IF nr <= Limit
    THEN /\ admitted' = admitted \cup
                 {[id |-> requests, by |-> p, client |-> c, at |-> at,
                   window |-> window, nr |-> nr]}
         /\ requests' = requests + 1
    ELSE UNCHANGED <<admitted, requests>>

\* duration_since is 0 for a clock that is behind.
Expired(hit, at) == at >= hit.start + Window

\* What housekeeping leaves of a client's entry; that of any client ends.
Kept(hit, at) == IF Expired(hit, at) THEN NoHit ELSE hit

Counted(hit, at) ==
    IF hit.count = 0 THEN [start |-> at, count |-> 1]
    ELSE [start |-> hit.start, count |-> hit.count + 1]

\* FixedWindowLimiter::allow_at.  After housekeeping the entry has not expired,
\* so its second look at the window does nothing.
AllowAt(p, c, at) ==
    LET hit == Counted(Kept(hits[p][c], at), at)
    IN  /\ hits' = [hits EXCEPT ![p] = [d \in Clients |->
                        IF d = c THEN hit ELSE Kept(hits[p][d], at)]]
        /\ Admit(p, c, at, hit.start, hit.count)
        /\ UNCHANGED <<now, buckets>>

\* INCR and EXPIRE of one transaction; a key that has expired counts from 1.
Incremented(bucket) ==
    [count |-> IF bucket.until > now THEN bucket.count + 1 ELSE 1,
     until |-> now + Window + 1]

\* RedisWindowLimiter::try_allow with an answer.
TryAllow(p, c, at) ==
    LET i      == at \div Window
        bucket == Incremented(buckets[c][i])
    IN  /\ buckets' = [buckets EXCEPT ![c][i] = bucket]
        /\ Admit(p, c, at, i, bucket.count)
        /\ UNCHANGED <<now, hits>>

\* Without one the request goes through, counted in Redis or not.
FailOpen(p, c, at) ==
    /\ \/ LET i == at \div Window
          IN  buckets' = [buckets EXCEPT ![c][i] = Incremented(buckets[c][i])]
       \/ UNCHANGED buckets
    /\ UNCHANGED <<now, hits, admitted, requests>>

\* Limiter::allow for the client of a request
Allow(p, c, at) ==
    IF p \in OnRedis THEN TryAllow(p, c, at) \/ FailOpen(p, c, at)
                     ELSE AllowAt(p, c, at)

Next ==
    \/ Tick
    \/ \E p \in Replicas, forwarded, peer \in Addresses \cup {None}, at \in Clock :
           Allow(p, ClientKey(forwarded, peer), at)

Spec == Init /\ [][Next]_vars

-----------------------------------------------------------------------------
\* The requests of a client let through whose clocks were in Window seconds
\* from t: of one replica's map, and of all on Redis.
LocalBurst(p, c, t) ==
    {a \in admitted : a.by = p /\ a.client = c /\ a.at \in t .. t + Window - 1}

SharedBurst(c, t) ==
    {a \in admitted : a.by \in OnRedis /\ a.client = c /\ a.at \in t .. t + Window - 1}

\* A window of the clock holds parts of two windows of the map, or of three when
\* a request that was late for the lock opens a window before the last one's end.
LocalBurstBounded ==
    \A p \in Replicas \ OnRedis, c \in Clients, t \in Times :
        IsFiniteSet(LocalBurst(p, c, t)) /\ Cardinality(LocalBurst(p, c, t)) <= 3 * Limit

\* With nothing late, twice the limit around the end of a window.
PunctualBurstBounded ==
    \A p \in Replicas \ OnRedis, c \in Clients, t \in Times :
        IsFiniteSet(LocalBurst(p, c, t)) /\ Cardinality(LocalBurst(p, c, t)) <= 2 * Limit

\* On Redis twice the limit, over all replicas, but for the requests Redis did not
\* answer: the second that EXPIRE adds keeps a late request from counting in a
\* bucket that has expired and starts again.
SharedBurstBounded ==
    \A c \in Clients, t \in Times :
        IsFiniteSet(SharedBurst(c, t)) /\ Cardinality(SharedBurst(c, t)) <= 2 * Limit
=============================================================================

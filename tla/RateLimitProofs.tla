-------------------------- MODULE RateLimitProofs --------------------------
(***************************************************************************)
(* What the limiter lets through, for every limit and window, any number   *)
(* of clients and replicas.                                                *)
(***************************************************************************)
EXTENDS RateLimit, FiniteSetTheorems, TLAPS

Sized ==
    /\ Limit \in Nat
    /\ Window \in Nat \ {0}
    /\ Lag \in Nat
    /\ MaxTime \in Nat

(***************************************************************************)
(* Types.                                                                  *)
(***************************************************************************)
LEMMA KeyOfClient ==
    ASSUME NEW forwarded \in Addresses \cup {None}, NEW peer \in Addresses \cup {None}
    PROVE  ClientKey(forwarded, peer) \in Clients
  BY DEF ClientKey, Clients

\* One request at a time, by the client it is counted for.
LEMMA AllowOrTick ==
    ASSUME [Next]_vars
    PROVE  \/ Tick
           \/ \E p \in Replicas \ OnRedis, c \in Clients, at \in Clock : AllowAt(p, c, at)
           \/ \E p \in OnRedis \cap Replicas, c \in Clients, at \in Clock :
                  TryAllow(p, c, at) \/ FailOpen(p, c, at)
           \/ UNCHANGED vars
  <1>1. CASE Next
    <2>1. ASSUME NEW p \in Replicas, NEW forwarded \in Addresses \cup {None},
                 NEW peer \in Addresses \cup {None}, NEW at \in Clock,
                 Allow(p, ClientKey(forwarded, peer), at)
          PROVE  \/ \E q \in Replicas \ OnRedis, c \in Clients, t \in Clock : AllowAt(q, c, t)
                 \/ \E q \in OnRedis \cap Replicas, c \in Clients, t \in Clock :
                        TryAllow(q, c, t) \/ FailOpen(q, c, t)
      BY <2>1, KeyOfClient DEF Allow
    <2> QED BY <1>1, <2>1 DEF Next
  <1> QED BY <1>1

LEMMA AdmitTypes ==
    ASSUME TypeOK, NEW p \in Replicas, NEW c \in Clients, NEW at \in Times,
           NEW window \in Times, NEW nr \in Nat, Admit(p, c, at, window, nr)
    PROVE  admitted' \in SUBSET Admission /\ requests' \in Nat
  <1>1. [id |-> requests, by |-> p, client |-> c, at |-> at,
         window |-> window, nr |-> nr] \in Admission
    BY DEF TypeOK, Admission
  <1> QED BY <1>1 DEF TypeOK, Admit

LEMMA CountedTypes ==
    ASSUME Sized, NEW hit \in Hit, NEW at \in Times
    PROVE  /\ Kept(hit, at) \in Hit
           /\ Counted(hit, at) \in Hit
  <1>1. NoHit \in Hit
    BY DEF Sized, NoHit, Hit, Times
  <1>2. Kept(hit, at) \in Hit
    BY <1>1 DEF Kept
  <1>3. hit.start \in Times /\ hit.count + 1 \in Nat /\ 1 \in Nat
    BY DEF Hit
  <1>4. [start |-> at, count |-> 1] \in Hit /\ [start |-> hit.start, count |-> hit.count + 1] \in Hit
    BY <1>3 DEF Hit
  <1> QED BY <1>2, <1>4 DEF Counted

LEMMA IndexType ==
    ASSUME Sized, NEW at \in Times
    PROVE  /\ at \div Window \in Indices
           /\ \A t \in Times : t \div Window = at \div Window => t < at + Window
  BY DEF Sized, Times, Indices

LEMMA IncrementedTypes ==
    ASSUME Sized, TypeOK, NEW bucket \in Bucket
    PROVE  Incremented(bucket) \in Bucket
  BY DEF Sized, TypeOK, Incremented, Bucket, Times

THEOREM LimiterTypes ==
    ASSUME Sized
    PROVE  Spec => []TypeOK
  <1>1. Init => TypeOK
    BY DEF Sized, Init, TypeOK, Times, Hit, NoHit, Bucket, NoBucket
  <1>2. ASSUME TypeOK, [Next]_vars
        PROVE  TypeOK'
    <2>1. CASE Tick
      BY <1>2, <2>1 DEF Sized, TypeOK, Tick, Times
    <2>2. ASSUME NEW p \in Replicas, NEW c \in Clients, NEW at \in Clock, AllowAt(p, c, at)
          PROVE  TypeOK'
      <3>1. at \in Times
        BY DEF Clock
      <3>2. \A d \in Clients : Kept(hits[p][d], at) \in Hit
        BY <1>2, <3>1, CountedTypes DEF TypeOK
      <3>3. Counted(Kept(hits[p][c], at), at) \in Hit
        BY <3>1, <3>2, CountedTypes
      <3>4. hits' \in [Replicas -> [Clients -> Hit]]
        BY <1>2, <2>2, <3>2, <3>3 DEF TypeOK, AllowAt
      <3>5. admitted' \in SUBSET Admission /\ requests' \in Nat
        BY <1>2, <2>2, <3>1, <3>3, AdmitTypes DEF AllowAt, Hit
      <3> QED BY <1>2, <2>2, <3>4, <3>5 DEF TypeOK, AllowAt
    <2>3. ASSUME NEW p \in Replicas, NEW c \in Clients, NEW at \in Clock,
                 TryAllow(p, c, at) \/ FailOpen(p, c, at)
          PROVE  TypeOK'
      <3>1. at \in Times /\ at \div Window \in Indices
        BY IndexType DEF Clock
      <3>2. Incremented(buckets[c][at \div Window]) \in Bucket
        BY <1>2, <3>1, IncrementedTypes DEF TypeOK
      <3>3. at \div Window \in Times /\ Incremented(buckets[c][at \div Window]).count \in Nat
        BY <3>1, <3>2 DEF Times, Indices, Bucket
      <3>4. buckets' \in [Clients -> [Indices -> Bucket]]
        <4> DEFINE i == at \div Window
                   bucket == Incremented(buckets[c][i])
        <4>1. i \in Indices /\ bucket \in Bucket
          BY <3>1, <3>2
        <4>2. buckets' = [buckets EXCEPT ![c][i] = bucket] \/ buckets' = buckets
          BY <2>3 DEF TryAllow, FailOpen
        <4>3. buckets \in [Clients -> [Indices -> Bucket]]
          BY <1>2 DEF TypeOK
        <4> HIDE DEF i, bucket
        <4> QED BY <4>1, <4>2, <4>3
      <3>5. admitted' \in SUBSET Admission /\ requests' \in Nat
        <4>1. CASE TryAllow(p, c, at)
          BY <1>2, <4>1, <3>1, <3>3, AdmitTypes DEF TryAllow
        <4>2. CASE FailOpen(p, c, at)
          BY <1>2, <4>2 DEF FailOpen, TypeOK
        <4> QED BY <2>3, <4>1, <4>2
      <3> QED BY <1>2, <2>3, <3>4, <3>5 DEF TypeOK, TryAllow, FailOpen
    <2>4. CASE UNCHANGED vars
      BY <1>2, <2>4 DEF TypeOK, vars
    <2> QED BY <1>2, <2>1, <2>2, <2>3, <2>4, AllowOrTick
  <1> QED BY <1>1, <1>2, PTL DEF Spec

(***************************************************************************)
(* Counting: a burst has no more requests than the windows it is counted   *)
(* in have places, because no two are counted in one place.                *)
(***************************************************************************)
LEMMA WindowsBound ==
    ASSUME Limit \in Nat, NEW burst,
           \A a \in burst : a.nr \in 1 .. Limit,
           \A a, b \in burst : a.window = b.window /\ a.nr = b.nr => a = b,
           NEW windows, IsFiniteSet(windows), \A a \in burst : a.window \in windows
    PROVE  /\ IsFiniteSet(burst)
           /\ Cardinality(burst) <= Cardinality(windows) * Limit
  <1> DEFINE place == [a \in burst |-> <<a.window, a.nr>>]
  <1>1. place \in Injection(burst, windows \X (1 .. Limit))
    BY DEF Injection, IsInjective
  <1>2. IsFiniteSet(1 .. Limit) /\ Cardinality(1 .. Limit) = Limit
    BY FS_Interval
  <1>3. /\ IsFiniteSet(windows \X (1 .. Limit))
        /\ Cardinality(windows \X (1 .. Limit)) = Cardinality(windows) * Limit
    BY <1>2, FS_Product
  <1> HIDE DEF place
  <1> QED BY <1>1, <1>3, FS_Injection

\* The two forms it is used in.
LEMMA TwoWindows ==
    ASSUME Limit \in Nat, NEW burst,
           \A a \in burst : a.nr \in 1 .. Limit,
           \A a, b \in burst : a.window = b.window /\ a.nr = b.nr => a = b,
           NEW u, NEW v, \A a \in burst : a.window \in {u, v}
    PROVE  IsFiniteSet(burst) /\ Cardinality(burst) <= 2 * Limit
  <1>1. IsFiniteSet({u}) /\ Cardinality({u}) = 1
    BY FS_Singleton
  <1>2. {u} \cup {v} = {u, v}
    OBVIOUS
  <1>3. IsFiniteSet({u, v}) /\ Cardinality({u, v}) \in {1, 2}
    BY <1>1, <1>2, FS_AddElement
  <1>4. IsFiniteSet(burst) /\ Cardinality(burst) <= Cardinality({u, v}) * Limit
    BY <1>3, WindowsBound
  <1>5. Cardinality(burst) \in Nat
    BY <1>4, FS_CardinalityType
  <1>6. CASE Cardinality({u, v}) = 1
    BY <1>4, <1>5, <1>6
  <1>7. CASE Cardinality({u, v}) = 2
    BY <1>4, <1>5, <1>7
  <1> QED BY <1>3, <1>4, <1>6, <1>7

LEMMA ThreeWindows ==
    ASSUME Limit \in Nat, NEW burst,
           \A a \in burst : a.nr \in 1 .. Limit,
           \A a, b \in burst : a.window = b.window /\ a.nr = b.nr => a = b,
           NEW u, NEW v, NEW w, \A a \in burst : a.window \in {u, v, w}
    PROVE  IsFiniteSet(burst) /\ Cardinality(burst) <= 3 * Limit
  <1>1. IsFiniteSet({u}) /\ Cardinality({u}) = 1
    BY FS_Singleton
  <1>2. {u} \cup {v} = {u, v} /\ {u, v} \cup {w} = {u, v, w}
    OBVIOUS
  <1>3. IsFiniteSet({u, v}) /\ Cardinality({u, v}) \in {1, 2}
    BY <1>1, <1>2, FS_AddElement
  <1>4. IsFiniteSet({u, v, w}) /\ Cardinality({u, v, w}) \in {1, 2, 3}
    <2> DEFINE pair == {u, v}
    <2>1. pair \cup {w} = {u, v, w} /\ IsFiniteSet(pair) /\ Cardinality(pair) \in {1, 2}
      BY <1>2, <1>3
    <2> HIDE DEF pair
    <2>2. /\ IsFiniteSet(pair \cup {w})
          /\ Cardinality(pair \cup {w})
               = IF w \in pair THEN Cardinality(pair) ELSE Cardinality(pair) + 1
      BY <2>1, FS_AddElement
    <2> QED BY <2>1, <2>2
  <1>5. IsFiniteSet(burst) /\ Cardinality(burst) <= Cardinality({u, v, w}) * Limit
    BY <1>4, WindowsBound
  <1>6. Cardinality(burst) \in Nat
    BY <1>5, FS_CardinalityType
  <1>7. CASE Cardinality({u, v, w}) = 1
    BY <1>5, <1>6, <1>7
  <1>8. CASE Cardinality({u, v, w}) = 2
    BY <1>5, <1>6, <1>8
  <1>9. CASE Cardinality({u, v, w}) = 3
    BY <1>5, <1>6, <1>9
  <1> QED BY <1>4, <1>5, <1>7, <1>8, <1>9

(***************************************************************************)
(* A request has the id of no other, so that a burst is as large as the    *)
(* number of its requests, and was counted within the limit.               *)
(***************************************************************************)
IdsInv ==
    /\ \A a, b \in admitted : a.id = b.id => a = b
    /\ \A a \in admitted : a.id < requests /\ a.nr \in 1 .. Limit

LEMMA AdmitKeepsIds ==
    ASSUME Sized, TypeOK, IdsInv, NEW p \in Replicas, NEW c \in Clients, NEW at \in Times,
           NEW window, NEW nr \in Nat \ {0}, Admit(p, c, at, window, nr)
    PROVE  IdsInv'
  <1> DEFINE new == [id |-> requests, by |-> p, client |-> c, at |-> at,
                     window |-> window, nr |-> nr]
  <1>1. \/ nr <= Limit /\ admitted' = admitted \cup {new} /\ requests' = requests + 1
        \/ UNCHANGED <<admitted, requests>>
    BY DEF Admit
  <1>2. new.id = requests /\ new.nr = nr
    OBVIOUS
  <1>3. requests \in Nat /\ \A a \in admitted : a.id < requests /\ a.id \in Nat
    BY DEF TypeOK, IdsInv, Admission
  <1> HIDE DEF new
  <1>4. \A a \in admitted' : a.id < requests' /\ a.nr \in 1 .. Limit
    BY <1>1, <1>2, <1>3 DEF IdsInv, Sized
  <1>5. \A a, b \in admitted' : a.id = b.id => a = b
    BY <1>1, <1>2, <1>3 DEF IdsInv
  <1> QED BY <1>4, <1>5 DEF IdsInv

LEMMA CountedTwice ==
    ASSUME Sized, TypeOK, NEW p \in Replicas, NEW c \in Clients, NEW at \in Clock
    PROVE  /\ Counted(Kept(hits[p][c], at), at).count \in Nat \ {0}
           /\ Incremented(buckets[c][at \div Window]).count \in Nat \ {0}
  <1>1. at \in Times /\ hits[p][c] \in Hit
    BY DEF TypeOK, Clock
  <1>2. Kept(hits[p][c], at) \in Hit
    BY <1>1, CountedTypes
  <1>3. buckets[c][at \div Window].count \in Nat
    BY <1>1, IndexType DEF TypeOK, Bucket
  <1> QED BY <1>2, <1>3 DEF Counted, Incremented, Hit

LEMMA IdsInvAlways ==
    ASSUME Sized
    PROVE  Spec => []IdsInv
  <1>1. Init => IdsInv
    BY DEF Init, IdsInv
  <1>2. ASSUME TypeOK, IdsInv, [Next]_vars
        PROVE  IdsInv'
    <2>1. CASE Tick
      BY <1>2, <2>1 DEF IdsInv, Tick
    <2>2. ASSUME NEW p \in Replicas, NEW c \in Clients, NEW at \in Clock, AllowAt(p, c, at)
          PROVE  IdsInv'
      BY <1>2, <2>2, CountedTwice, AdmitKeepsIds DEF AllowAt, Clock
    <2>3. ASSUME NEW p \in Replicas, NEW c \in Clients, NEW at \in Clock, TryAllow(p, c, at)
          PROVE  IdsInv'
      BY <1>2, <2>3, CountedTwice, AdmitKeepsIds DEF TryAllow, Clock
    <2>4. ASSUME NEW p \in Replicas, NEW c \in Clients, NEW at \in Clock, FailOpen(p, c, at)
          PROVE  IdsInv'
      BY <1>2, <2>4 DEF FailOpen, IdsInv
    <2>5. CASE UNCHANGED vars
      BY <1>2, <2>5 DEF IdsInv, vars
    <2> QED BY <1>2, <2>1, <2>2, <2>3, <2>4, <2>5, AllowOrTick
  <1> QED BY <1>1, <1>2, LimiterTypes, PTL DEF Spec

(***************************************************************************)
(* The counters in Redis.                                                  *)
(***************************************************************************)
Shared == {a \in admitted : a.by \in OnRedis}

\* A request was counted in the bucket of its clock.  The bucket has counted on
\* from it, and lives on past every request that may still be counted in it.
SharedInv ==
    /\ \A a \in Shared :
        /\ a.window = a.at \div Window
        /\ a.nr <= buckets[a.client][a.window].count
        /\ \A t \in Times : t \div Window = a.window
                             => t + 1 < buckets[a.client][a.window].until
    /\ \A a, b \in Shared :
        a.client = b.client /\ a.window = b.window /\ a.nr = b.nr => a = b

\* Counting a request in a bucket, whether it is answered or not.
LEMMA IncrementGoesOn ==
    ASSUME Sized, Lag <= 1, TypeOK, SharedInv, NEW c \in Clients, NEW at \in Clock,
           NEW i, i = at \div Window,
           buckets' = [buckets EXCEPT ![c][i] = Incremented(buckets[c][i])], now' = now
    PROVE  /\ i \in Indices
           /\ \A a \in Shared :
                /\ a.client = c /\ a.window = i
                     => a.nr < buckets'[c][i].count
                /\ a.nr <= buckets'[a.client][a.window].count
                /\ \A t \in Times : t \div Window = a.window
                                     => t + 1 < buckets'[a.client][a.window].until
           /\ \A t \in Times : t \div Window = i => t + 1 < buckets'[c][i].until
  <1> DEFINE bucket == buckets[c][i]
             after  == Incremented(bucket)
  <1>1. at \in Times /\ at <= now /\ now <= at + Lag /\ now \in Nat /\ at \in Nat
    BY DEF TypeOK, Clock, Times
  <1>2. i \in Indices /\ \A t \in Times : t \div Window = i => t < at + Window
    BY <1>1, IndexType
  <1>3. bucket \in Bucket
    BY <1>2 DEF TypeOK
  <1>4. /\ after.count = IF bucket.until > now THEN bucket.count + 1 ELSE 1
        /\ after.until = now + Window + 1
    BY DEF Incremented
  <1>5. bucket.count \in Nat /\ bucket.until \in Nat
    BY <1>3 DEF Bucket
  <1>6. /\ buckets'[c][i] = after
        /\ \A d \in Clients, j \in Indices :
              ~ (d = c /\ j = i) => buckets'[d][j] = buckets[d][j]
    BY <1>2 DEF TypeOK
  <1>7. ASSUME NEW a \in Shared
        PROVE  /\ a.client \in Clients /\ a.window \in Indices /\ a.nr \in Nat
               /\ a.nr <= buckets[a.client][a.window].count
               /\ \A t \in Times : t \div Window = a.window
                                    => t + 1 < buckets[a.client][a.window].until
    BY DEF SharedInv, TypeOK, Shared, Admission, Times, Indices
  <1>8. \A t \in Times : t \div Window = i => t + 1 < after.until
    BY <1>1, <1>2, <1>4 DEF Sized, Times
  <1>9. ASSUME NEW a \in Shared, a.client = c, a.window = i
        PROVE  a.nr < after.count
    <2>1. at + 1 < bucket.until
      BY <1>1, <1>7, <1>9
    <2>2. bucket.until > now
      BY <1>1, <1>5, <2>1 DEF Sized
    <2>3. a.nr <= bucket.count /\ a.nr \in Nat
      BY <1>7, <1>9
    <2> HIDE DEF bucket, after
    <2> QED BY <1>4, <1>5, <2>2, <2>3
  <1> HIDE DEF bucket, after
  <1>10. ASSUME NEW a \in Shared
         PROVE  /\ a.nr <= buckets'[a.client][a.window].count
                /\ \A t \in Times : t \div Window = a.window
                                     => t + 1 < buckets'[a.client][a.window].until
    <2>1. CASE a.client = c /\ a.window = i
      BY <2>1, <1>6, <1>7, <1>8, <1>9, <1>4, <1>5
    <2>2. CASE ~ (a.client = c /\ a.window = i)
      BY <2>2, <1>6, <1>7
    <2> QED BY <2>1, <2>2
  <1> QED BY <1>2, <1>6, <1>8, <1>9, <1>10

LEMMA SharedInvAlways ==
    ASSUME Sized, Lag <= 1
    PROVE  Spec => []SharedInv
  <1>1. Init => SharedInv
    BY DEF Init, SharedInv, Shared
  <1>2. ASSUME TypeOK, SharedInv, [Next]_vars
        PROVE  SharedInv'
    <2>1. CASE Tick
      BY <1>2, <2>1 DEF SharedInv, Shared, Tick
    <2>2. ASSUME NEW p \in Replicas \ OnRedis, NEW c \in Clients, NEW at \in Clock,
                 AllowAt(p, c, at)
          PROVE  SharedInv'
      <3>1. buckets' = buckets /\ Shared' = Shared
        BY <2>2 DEF AllowAt, Admit, Shared
      <3> QED BY <1>2, <3>1 DEF SharedInv
    <2>3. ASSUME NEW p \in OnRedis \cap Replicas, NEW c \in Clients, NEW at \in Clock,
                 TryAllow(p, c, at)
          PROVE  SharedInv'
      <3> DEFINE i   == at \div Window
                 nr  == Incremented(buckets[c][i]).count
                 new == [id |-> requests, by |-> p, client |-> c, at |-> at,
                         window |-> i, nr |-> nr]
      <3>1. /\ buckets' = [buckets EXCEPT ![c][i] = Incremented(buckets[c][i])] /\ now' = now
            /\ admitted' = admitted \cup {new} \/ admitted' = admitted
        BY <2>3 DEF TryAllow, Admit
      <3>2. /\ new.by = p /\ new.nr = nr
            /\ new.window = i /\ new.client = c /\ new.at = at
        OBVIOUS
      <3>3. /\ i \in Indices
            /\ \A a \in Shared :
                 /\ a.client = c /\ a.window = i => a.nr < buckets'[c][i].count
                 /\ a.nr <= buckets'[a.client][a.window].count
                 /\ \A t \in Times : t \div Window = a.window
                                      => t + 1 < buckets'[a.client][a.window].until
            /\ \A t \in Times : t \div Window = i => t + 1 < buckets'[c][i].until
        BY <1>2, <3>1, IncrementGoesOn
      <3>4. nr \in Nat \ {0} /\ nr = buckets'[c][i].count
        <4>1. nr \in Nat \ {0}
          BY <1>2, CountedTwice
        <4> QED BY <1>2, <3>1, <3>3, <4>1 DEF TypeOK
      <3>5. i = at \div Window
        OBVIOUS
      <3>6. new.by \in OnRedis
        BY <3>2
      <3> HIDE DEF new, i, nr
      <3>7. Shared' = Shared \/ Shared' = Shared \cup {new}
        BY <3>1, <3>6 DEF Shared
      <3>8. ASSUME NEW a \in Shared'
             PROVE  /\ a.window = a.at \div Window
                    /\ a.nr <= buckets'[a.client][a.window].count
                    /\ \A t \in Times : t \div Window = a.window
                                         => t + 1 < buckets'[a.client][a.window].until
        <4>1. CASE a \in Shared
          BY <1>2, <4>1, <3>3 DEF SharedInv
        <4>2. CASE a = new
          BY <4>2, <3>2, <3>3, <3>4, <3>5
        <4> QED BY <3>7, <3>8, <4>1, <4>2
      <3>9. \A a \in Shared : a.client = c /\ a.window = i => a.nr < nr /\ a.nr \in Nat
        BY <1>2, <3>3, <3>4 DEF TypeOK, Shared, Admission
      <3>10. \A a, b \in Shared' :
               a.client = b.client /\ a.window = b.window /\ a.nr = b.nr => a = b
        BY <1>2, <3>2, <3>4, <3>7, <3>9 DEF SharedInv
      <3> QED BY <3>8, <3>10 DEF SharedInv
    <2>4. ASSUME NEW p \in OnRedis \cap Replicas, NEW c \in Clients, NEW at \in Clock,
                 FailOpen(p, c, at)
          PROVE  SharedInv'
      <3> DEFINE i == at \div Window
      <3>1. /\ UNCHANGED <<now, admitted, requests>>
            /\ \/ buckets' = [buckets EXCEPT ![c][i] = Incremented(buckets[c][i])]
               \/ buckets' = buckets
        BY <2>4 DEF FailOpen
      <3>2. ASSUME NEW a \in Shared
            PROVE  /\ a.nr <= buckets'[a.client][a.window].count
                   /\ \A t \in Times : t \div Window = a.window
                                        => t + 1 < buckets'[a.client][a.window].until
        <4>1. CASE buckets' = buckets
          BY <1>2, <4>1 DEF SharedInv
        <4>2. CASE buckets' = [buckets EXCEPT ![c][i] = Incremented(buckets[c][i])]
          BY <1>2, <3>1, <4>2, IncrementGoesOn
        <4> QED BY <3>1, <4>1, <4>2
      <3> QED BY <1>2, <3>1, <3>2 DEF SharedInv, Shared
    <2>5. CASE UNCHANGED vars
      BY <1>2, <2>5 DEF SharedInv, Shared, vars
    <2> QED BY <1>2, <2>1, <2>2, <2>3, <2>4, <2>5, AllowOrTick
  <1> QED BY <1>1, <1>2, LimiterTypes, PTL DEF Spec

\* Over all replicas on Redis a client has at most twice the limit of requests let
\* through in a window's time: those are counted in two buckets, and none of the
\* two starts again while a request may be counted in it.  Lag is at most the
\* second after which a limiter gives up on Redis.
THEOREM SharedBursts ==
    ASSUME Sized, Lag <= 1
    PROVE  Spec => []SharedBurstBounded
  <1>1. ASSUME IdsInv, SharedInv
        PROVE  SharedBurstBounded
    <2> SUFFICES ASSUME NEW c \in Clients, NEW t \in Times
                 PROVE  /\ IsFiniteSet(SharedBurst(c, t))
                        /\ Cardinality(SharedBurst(c, t)) <= 2 * Limit
      BY DEF SharedBurstBounded
    <2> DEFINE u == t \div Window
    <2>1. \A x \in t .. t + Window - 1 : x \div Window \in {u, u + 1}
      BY DEF Sized, Times
    <2>2. \A a \in SharedBurst(c, t) : a \in Shared /\ a.window \in {u, u + 1} /\ a.client = c
      BY <1>1, <2>1 DEF SharedBurst, Shared, SharedInv
    <2>3. \A a \in SharedBurst(c, t) : a.nr \in 1 .. Limit
      BY <1>1, <2>2 DEF IdsInv, Shared
    <2>4. \A a, b \in SharedBurst(c, t) : a.window = b.window /\ a.nr = b.nr => a = b
      BY <1>1, <2>2 DEF SharedInv
    <2> HIDE DEF u
    <2> QED BY <2>2, <2>3, <2>4, TwoWindows DEF Sized
  <1> QED BY <1>1, IdsInvAlways, SharedInvAlways, PTL

(***************************************************************************)
(* The maps of the replicas.                                               *)
(***************************************************************************)
Local == {a \in admitted : a.by \notin OnRedis}

\* The window of the client's entry, which has counted on from the request.
Current(a, hit) == hit.count > 0 /\ hit.start = a.window /\ a.nr <= hit.count

\* It has ended, and no window that is opened since begins before its end but by
\* the delay of the request that opens it.
Closed(a, hit) ==
    /\ a.window + Window <= now
    /\ hit.count > 0 => a.window + Window <= hit.start + Lag

Apart(a, b) == a + Window <= b + Lag \/ b + Window <= a + Lag

LocalInv ==
    /\ \A p \in Replicas \ OnRedis, c \in Clients :
        hits[p][c].count > 0 => hits[p][c].start <= now
    /\ \A a \in Local :
        /\ a.at < a.window + Window
        /\ a.window <= a.at + Lag
        /\ Current(a, hits[a.by][a.client]) \/ Closed(a, hits[a.by][a.client])
    /\ \A a, b \in Local :
        a.by = b.by /\ a.client = b.client =>
            /\ a.window = b.window /\ a.nr = b.nr => a = b
            /\ a.window # b.window => Apart(a.window, b.window)

\* What counting a request does to those that were let through before it.
LEMMA CountingClient ==
    ASSUME Sized, 4 * Lag <= Window + 1, NEW at \in Clock, now \in Nat, NEW hit \in Hit,
           hit.count > 0 => hit.start <= now,
           NEW after, after = Counted(Kept(hit, at), at)
    PROVE  /\ after.start <= now /\ after.count > 0
           /\ at < after.start + Window /\ after.start <= at + Lag
           /\ \A a \in Admission : Current(a, hit) \/ Closed(a, hit) =>
                /\ Current(a, after) \/ Closed(a, after)
                /\ a.window = after.start => a.nr < after.count
                /\ a.window # after.start => Apart(a.window, after.start)
  <1>1. at \in Nat /\ at <= now /\ now <= at + Lag
    BY DEF Clock, Times
  <1>2. hit.start \in Nat /\ hit.count \in Nat
    BY DEF Hit, Times
  <1>3. \A a \in Admission : a.window \in Nat /\ a.nr \in Nat
    BY DEF Admission, Times
  <1>4. Lag \in Nat /\ Window \in Nat /\ Lag < Window
    BY DEF Sized
  <1>5. CASE Expired(hit, at) \/ hit.count = 0
    <2>1. after = [start |-> at, count |-> 1]
      BY <1>5 DEF Kept, Counted, NoHit
    <2>2. after.start = at /\ after.count = 1
      BY <2>1
    <2>3. ASSUME NEW a \in Admission, Current(a, hit) \/ Closed(a, hit)
          PROVE  a.window + Window <= now
      BY <1>1, <1>2, <1>3, <1>4, <1>5, <2>3 DEF Current, Closed, Expired
    <2>4. ASSUME NEW a \in Admission, Current(a, hit) \/ Closed(a, hit)
          PROVE  Closed(a, after) /\ a.window # after.start /\ Apart(a.window, after.start)
      BY <1>1, <1>3, <1>4, <2>2, <2>3, <2>4 DEF Closed, Apart
    <2> QED BY <1>1, <1>4, <2>2, <2>4
  <1>6. CASE ~ Expired(hit, at) /\ hit.count # 0
    <2>1. after = [start |-> hit.start, count |-> hit.count + 1]
      BY <1>6 DEF Kept, Counted
    <2>2. after.start = hit.start /\ after.count = hit.count + 1
      BY <2>1
    <2>3. ASSUME NEW a \in Admission, Current(a, hit)
          PROVE  Current(a, after) /\ a.window = after.start /\ a.nr < after.count
      BY <1>2, <1>3, <2>2, <2>3 DEF Current
    <2>4. ASSUME NEW a \in Admission, Closed(a, hit)
          PROVE  Closed(a, after) /\ a.window # after.start /\ Apart(a.window, after.start)
      BY <1>2, <1>3, <1>4, <1>6, <2>2, <2>4 DEF Closed, Apart
    <2> QED BY <1>1, <1>2, <1>4, <1>6, <2>2, <2>3, <2>4 DEF Expired
  <1> QED BY <1>5, <1>6

\* What housekeeping for it does to those of other clients.
LEMMA KeepingClient ==
    ASSUME Sized, NEW at \in Clock, now \in Nat, NEW hit \in Hit,
           hit.count > 0 => hit.start <= now
    PROVE  /\ Kept(hit, at).count > 0 => Kept(hit, at).start <= now
           /\ \A a \in Admission : Current(a, hit) \/ Closed(a, hit) =>
                Current(a, Kept(hit, at)) \/ Closed(a, Kept(hit, at))
  <1>1. at \in Nat /\ at <= now
    BY DEF Clock, Times
  <1>2. hit.start \in Nat /\ hit.count \in Nat
    BY DEF Hit, Times
  <1>3. \A a \in Admission : a.window \in Nat /\ a.nr \in Nat
    BY DEF Admission, Times
  <1>4. NoHit.count = 0
    BY DEF NoHit
  <1> QED BY <1>1, <1>2, <1>3, <1>4 DEF Sized, Kept, Expired, Current, Closed

LEMMA LocalInvAlways ==
    ASSUME Sized, 4 * Lag <= Window + 1
    PROVE  Spec => []LocalInv
  <1>1. Init => LocalInv
    BY DEF Init, LocalInv, Local, NoHit
  <1>2. ASSUME TypeOK, LocalInv, [Next]_vars
        PROVE  LocalInv'
    <2>1. CASE Tick
      <3>1. now \in Nat /\ now' = now + 1 /\ UNCHANGED <<hits, admitted>>
        BY <1>2, <2>1 DEF TypeOK, Tick, Times
      <3>2. \A p \in Replicas, c \in Clients : hits[p][c].start \in Nat
        BY <1>2 DEF TypeOK, Hit, Times
      <3>3. \A a \in Local : a.window \in Nat
        BY <1>2 DEF TypeOK, Local, Admission, Times
      <3> QED BY <1>2, <3>1, <3>2, <3>3 DEF LocalInv, Local, Current, Closed, Apart, Sized
    <2>2. ASSUME NEW p \in Replicas \ OnRedis, NEW c \in Clients, NEW at \in Clock,
                 AllowAt(p, c, at)
          PROVE  LocalInv'
      <3> DEFINE after == Counted(Kept(hits[p][c], at), at)
                 new   == [id |-> requests, by |-> p, client |-> c, at |-> at,
                           window |-> after.start, nr |-> after.count]
      <3>1. /\ now' = now /\ now \in Nat
            /\ hits' = [hits EXCEPT ![p] = [d \in Clients |->
                            IF d = c THEN after ELSE Kept(hits[p][d], at)]]
            /\ admitted' = admitted \cup {new} \/ admitted' = admitted
        BY <1>2, <2>2 DEF AllowAt, Admit, TypeOK, Times
      <3>2. /\ new.by = p /\ new.client = c /\ new.at = at
            /\ new.window = after.start /\ new.nr = after.count
        OBVIOUS
      <3>3. \A q \in Replicas \ OnRedis, d \in Clients :
              hits[q][d] \in Hit /\ (hits[q][d].count > 0 => hits[q][d].start <= now)
        BY <1>2 DEF TypeOK, LocalInv
      <3>4. /\ after.start <= now /\ after.count > 0
            /\ at < after.start + Window /\ after.start <= at + Lag
            /\ \A a \in Admission : Current(a, hits[p][c]) \/ Closed(a, hits[p][c]) =>
                 /\ Current(a, after) \/ Closed(a, after)
                 /\ a.window = after.start => a.nr < after.count
                 /\ a.window # after.start => Apart(a.window, after.start)
        BY <3>1, <3>3, CountingClient
      <3>5. after.count \in Nat /\ after.start \in Nat
        <4>1. at \in Times
          BY DEF Clock
        <4>2. after \in Hit
          BY <3>3, <4>1, CountedTypes
        <4> HIDE DEF after
        <4> QED BY <4>2 DEF Hit, Times
      <3> HIDE DEF new, after
      <3>6. /\ hits'[p][c] = after
            /\ \A d \in Clients : d # c => hits'[p][d] = Kept(hits[p][d], at)
            /\ \A q \in Replicas : q # p => hits'[q] = hits[q]
        BY <1>2, <3>1 DEF TypeOK
      <3>7. ASSUME NEW q \in Replicas \ OnRedis, NEW d \in Clients
            PROVE  /\ hits'[q][d].count > 0 => hits'[q][d].start <= now'
                   /\ \A a \in Admission : Current(a, hits[q][d]) \/ Closed(a, hits[q][d]) =>
                        Current(a, hits'[q][d]) \/ Closed(a, hits'[q][d])
        <4>1. CASE q = p /\ d = c
          BY <4>1, <3>1, <3>4, <3>6
        <4>2. CASE q = p /\ d # c
          BY <4>2, <3>1, <3>3, <3>6, KeepingClient
        <4>3. CASE q # p
          BY <4>3, <3>1, <3>3, <3>6
        <4> QED BY <4>1, <4>2, <4>3
      <3>8. \A a \in Local : /\ a \in Admission /\ a.by \in Replicas \ OnRedis
                             /\ a.client \in Clients /\ a.nr \in Nat /\ a.window \in Nat
        BY <1>2 DEF TypeOK, Local, Admission, Times
      <3>9. Local' = Local \/ Local' = Local \cup {new}
        BY <3>1, <3>2 DEF Local
      <3>10. ASSUME NEW a \in Local'
             PROVE  /\ a.at < a.window + Window
                    /\ a.window <= a.at + Lag
                    /\ \/ Current(a, hits'[a.by][a.client])
                       \/ Closed(a, hits'[a.by][a.client])
        <4>1. CASE a \in Local
          BY <1>2, <4>1, <3>7, <3>8 DEF LocalInv
        <4>2. CASE a = new
          BY <4>2, <3>2, <3>4, <3>5, <3>6 DEF Current
        <4> QED BY <3>9, <3>10, <4>1, <4>2
      <3>11. ASSUME NEW a \in Local, a.by = p, a.client = c
             PROVE  /\ ~ (a.window = new.window /\ a.nr = new.nr)
                    /\ a.window # new.window =>
                         Apart(a.window, new.window) /\ Apart(new.window, a.window)
        <4>1. Current(a, hits[p][c]) \/ Closed(a, hits[p][c])
          BY <1>2, <3>11 DEF LocalInv
        <4>2. /\ a.window = after.start => a.nr < after.count
              /\ a.window # after.start => Apart(a.window, after.start)
          BY <3>4, <3>8, <4>1
        <4> QED BY <3>2, <3>5, <3>8, <4>2 DEF Apart
      <3>12. \A a, b \in Local' : a.by = b.by /\ a.client = b.client =>
                 /\ a.window = b.window /\ a.nr = b.nr => a = b
                 /\ a.window # b.window => Apart(a.window, b.window)
        BY <1>2, <3>2, <3>9, <3>11 DEF LocalInv
      <3>13. /\ \A a : Current(a, hits'[a.by][a.client])
                      => Current(a, hits[a.by][a.client])'
             /\ \A a : Closed(a, hits'[a.by][a.client])
                      => Closed(a, hits[a.by][a.client])'
        BY <3>1 DEF Current, Closed
      <3> QED BY <3>1, <3>7, <3>10, <3>12, <3>13 DEF LocalInv, Current, Closed
    <2>3. ASSUME NEW p \in OnRedis \cap Replicas, NEW c \in Clients, NEW at \in Clock,
                 TryAllow(p, c, at) \/ FailOpen(p, c, at)
          PROVE  LocalInv'
      <3>1. Local' = Local /\ UNCHANGED <<now, hits>>
        BY <2>3 DEF TryAllow, FailOpen, Admit, Local
      <3> QED BY <1>2, <3>1 DEF LocalInv, Current, Closed
    <2>4. CASE UNCHANGED vars
      BY <1>2, <2>4 DEF LocalInv, Local, Current, Closed, vars
    <2> QED BY <1>2, <2>1, <2>2, <2>3, <2>4, AllowOrTick
  <1> QED BY <1>1, <1>2, LimiterTypes, PTL DEF Spec

\* Of the windows of a burst at most one begins in a time shorter than they are
\* apart.
LEMMA OneWindow ==
    ASSUME Sized, NEW burst, \A a \in burst : a.window \in Nat,
           \A a, b \in burst : a.window # b.window => Apart(a.window, b.window), NEW from \in Int
    PROVE  \E u : \A a \in burst : from <= a.window /\ a.window + Lag < from + Window
                                  => a.window = u
  <1> DEFINE within(a) == from <= a.window /\ a.window + Lag < from + Window
  <1>1. \A a, b \in burst : within(a) /\ within(b) => a.window = b.window
    BY DEF Apart, Sized
  <1>2. CASE \E b \in burst : within(b)
    <2>1. PICK b \in burst : within(b)
      BY <1>2
    <2>2. \A a \in burst : within(a) => a.window = b.window
      BY <1>1, <2>1
    <2> QED BY <2>2
  <1> QED BY <1>2

LEMMA BurstPlaces ==
    ASSUME TypeOK, IdsInv, LocalInv, NEW p \in Replicas \ OnRedis, NEW c \in Clients,
           NEW t \in Times
    PROVE  /\ \A a \in LocalBurst(p, c, t) :
                /\ a.window \in Nat /\ a.at \in Nat /\ a.nr \in 1 .. Limit
                /\ a.at \in t .. t + Window - 1
                /\ a.at < a.window + Window /\ a.window <= a.at + Lag
           /\ \A a, b \in LocalBurst(p, c, t) :
                /\ a.window = b.window /\ a.nr = b.nr => a = b
                /\ a.window # b.window => Apart(a.window, b.window)
  <1>1. \A a \in LocalBurst(p, c, t) :
          /\ a \in Local /\ a \in admitted /\ a.by = p /\ a.client = c
          /\ a.at \in t .. t + Window - 1
    BY DEF LocalBurst, Local
  <1>2. \A a \in admitted : a.window \in Nat /\ a.at \in Nat
    BY DEF TypeOK, Admission, Times
  <1>3. \A a \in LocalBurst(p, c, t) : a.nr \in 1 .. Limit
    BY <1>1 DEF IdsInv
  <1>4. \A a \in LocalBurst(p, c, t) : a.at < a.window + Window /\ a.window <= a.at + Lag
    BY <1>1 DEF LocalInv
  <1>5. \A a, b \in LocalBurst(p, c, t) :
          /\ a.window = b.window /\ a.nr = b.nr => a = b
          /\ a.window # b.window => Apart(a.window, b.window)
    BY <1>1 DEF LocalInv
  <1> QED BY <1>1, <1>2, <1>3, <1>4, <1>5

\* A replica lets a client through at most three times the limit in a window's
\* time, whatever order the requests get the lock in: the windows they are
\* counted in begin within twice that time and the delay, and no two of them
\* begin less than a window and the delay apart.
THEOREM LocalBursts ==
    ASSUME Sized, 4 * Lag <= Window + 1
    PROVE  Spec => []LocalBurstBounded
  <1>1. ASSUME TypeOK, IdsInv, LocalInv
        PROVE  LocalBurstBounded
    <2> SUFFICES ASSUME NEW p \in Replicas \ OnRedis, NEW c \in Clients, NEW t \in Times
                 PROVE  /\ IsFiniteSet(LocalBurst(p, c, t))
                        /\ Cardinality(LocalBurst(p, c, t)) <= 3 * Limit
      BY DEF LocalBurstBounded
    <2> DEFINE burst == LocalBurst(p, c, t)
    <2>1. /\ \A a \in burst :
                /\ a.window \in Nat /\ a.at \in Nat /\ a.nr \in 1 .. Limit
                /\ a.at \in t .. t + Window - 1
                /\ a.at < a.window + Window /\ a.window <= a.at + Lag
          /\ \A a, b \in burst :
                /\ a.window = b.window /\ a.nr = b.nr => a = b
                /\ a.window # b.window => Apart(a.window, b.window)
      BY <1>1, BurstPlaces
    <2>2. t \in Nat /\ Lag \in Nat /\ Window \in Nat
      BY DEF Times, Sized
    <2> DEFINE one   == t - Window + 1
               two   == t - Lag + 1
               three == t + Window - 2 * Lag + 1
    <2>3. one \in Int /\ two \in Int /\ three \in Int
      BY <2>2
    <2>4. \A a \in burst :
            \/ one <= a.window /\ a.window + Lag < one + Window
            \/ two <= a.window /\ a.window + Lag < two + Window
            \/ three <= a.window /\ a.window + Lag < three + Window
      BY <2>1, <2>2
    <2> HIDE DEF burst, one, two, three
    <2>5. PICK u : \A a \in burst : one <= a.window /\ a.window + Lag < one + Window
                                    => a.window = u
      BY <2>1, <2>3, OneWindow
    <2>6. PICK v : \A a \in burst : two <= a.window /\ a.window + Lag < two + Window
                                    => a.window = v
      BY <2>1, <2>3, OneWindow
    <2>7. PICK w : \A a \in burst : three <= a.window /\ a.window + Lag < three + Window
                                    => a.window = w
      BY <2>1, <2>3, OneWindow
    <2>8. \A a \in burst : a.window \in {u, v, w}
      BY <2>4, <2>5, <2>6, <2>7
    <2>9. IsFiniteSet(burst) /\ Cardinality(burst) <= 3 * Limit
      <3>1. Limit \in Nat /\ \A a \in burst : a.nr \in 1 .. Limit
        BY <2>1 DEF Sized
      <3>2. \A a, b \in burst : a.window = b.window /\ a.nr = b.nr => a = b
        BY <2>1
      <3> QED BY <3>1, <3>2, <2>8, ThreeWindows
    <2> QED BY <2>9 DEF burst
  <1> QED BY <1>1, LimiterTypes, IdsInvAlways, LocalInvAlways, PTL

\* And at most twice the limit if none is late for the lock.
THEOREM PunctualBursts ==
    ASSUME Sized, Lag = 0
    PROVE  Spec => []PunctualBurstBounded
  <1>0. 4 * Lag <= Window + 1
    BY DEF Sized
  <1>1. ASSUME TypeOK, IdsInv, LocalInv
        PROVE  PunctualBurstBounded
    <2> SUFFICES ASSUME NEW p \in Replicas \ OnRedis, NEW c \in Clients, NEW t \in Times
                 PROVE  /\ IsFiniteSet(LocalBurst(p, c, t))
                        /\ Cardinality(LocalBurst(p, c, t)) <= 2 * Limit
      BY DEF PunctualBurstBounded
    <2> DEFINE burst == LocalBurst(p, c, t)
    <2>1. /\ \A a \in burst :
                /\ a.window \in Nat /\ a.at \in Nat /\ a.nr \in 1 .. Limit
                /\ a.at \in t .. t + Window - 1
                /\ a.at < a.window + Window /\ a.window <= a.at + Lag
          /\ \A a, b \in burst :
                /\ a.window = b.window /\ a.nr = b.nr => a = b
                /\ a.window # b.window => Apart(a.window, b.window)
      BY <1>1, BurstPlaces
    <2>2. t \in Nat /\ Lag \in Nat /\ Window \in Nat
      BY DEF Times, Sized
    <2> DEFINE one == t - Window + 1
               two == t + 1
    <2>3. one \in Int /\ two \in Int
      BY <2>2
    <2>4. \A a \in burst :
            \/ one <= a.window /\ a.window + Lag < one + Window
            \/ two <= a.window /\ a.window + Lag < two + Window
      BY <2>1, <2>2
    <2> HIDE DEF burst, one, two
    <2>5. PICK u : \A a \in burst : one <= a.window /\ a.window + Lag < one + Window
                                    => a.window = u
      BY <2>1, <2>3, OneWindow
    <2>6. PICK v : \A a \in burst : two <= a.window /\ a.window + Lag < two + Window
                                    => a.window = v
      BY <2>1, <2>3, OneWindow
    <2>7. \A a \in burst : a.window \in {u, v}
      BY <2>4, <2>5, <2>6
    <2>8. IsFiniteSet(burst) /\ Cardinality(burst) <= 2 * Limit
      <3>1. Limit \in Nat /\ \A a \in burst : a.nr \in 1 .. Limit
        BY <2>1 DEF Sized
      <3>2. \A a, b \in burst : a.window = b.window /\ a.nr = b.nr => a = b
        BY <2>1
      <3> QED BY <3>1, <3>2, <2>7, TwoWindows
    <2> QED BY <2>8 DEF burst
  <1> QED BY <1>0, <1>1, LimiterTypes, IdsInvAlways, LocalInvAlways, PTL
=============================================================================

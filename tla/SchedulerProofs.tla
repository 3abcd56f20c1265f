-------------------------- MODULE SchedulerProofs ---------------------------
(***************************************************************************)
(* Scheduler's safety properties, for every number of accounts, searches,  *)
(* replicas, sessions, requests and faults.                                *)
(***************************************************************************)
EXTENDS SchedulerInvariant, FiniteSetTheorems, TLAPS

-----------------------------------------------------------------------------
(***************************************************************************)
(* The loops.                                                              *)
(***************************************************************************)
Steps == {"idle", "list", "next", "count", "insert", "dispatch", "fail",
          "mark", "release"}

\* The loop of p moves on, the others stay.
Moves(p, pc, session, todo, now, age) ==
    \E l \in Loop :
        /\ loop' = [loop EXCEPT ![p] = l]
        /\ l.pc = pc /\ l.session = session /\ l.todo = todo
        /\ l.now = now /\ l.age = age

LEMMA SessionsAreSome == \A s \in Sessions : s # <<>>
  BY DEF Sessions

LEMMA AgesAreNat == 0 \in Ages /\ Interval \in Ages /\ Ages \subseteq Nat
  BY SchedulerAssumption DEF Ages

LEMMA LoopFields ==
    ASSUME TypeOK, NEW p \in Replicas
    PROVE  /\ loop[p] \in Loop
           /\ loop[p].pc \in Steps
           /\ loop[p].session \in Sessions \cup {<<>>}
           /\ loop[p].todo \in SUBSET Searches
           /\ loop[p].now \in Searches \cup {"none"}
           /\ loop[p].age \in Ages
  BY DEF TypeOK, Loop, Steps

LEMMA RestingFields ==
    /\ Resting \in Loop
    /\ Resting.pc = "idle" /\ Resting.session = <<>> /\ Resting.todo = {}
    /\ Resting.now = "none" /\ Resting.age = 0
  BY AgesAreNat DEF Resting, Loop

\* A record of a loop is known by its fields.
LEMMA IdleIsResting ==
    ASSUME NEW l \in Loop, l.pc = "idle", l.session = <<>>, l.todo = {},
           l.now = "none", l.age = 0
    PROVE  l = Resting
  BY DEF Loop, Resting

\* A move of one loop to a record of the right shape keeps all of them so.
LEMMA MoveStep ==
    ASSUME TypeOK, LoopsShaped, NEW p \in Replicas,
           NEW pc, NEW session, NEW todo, NEW now, NEW age,
           Moves(p, pc, session, todo, now, age),
           pc = "idle" => session = <<>> /\ age = 0,
           pc # "idle" => session \in {p} \X (1..PoolSize),
           pc \in Working <=> now \in Searches,
           pc \in {"idle", "list", "release"} => todo = {},
           now \notin todo
    PROVE  /\ loop' \in [Replicas -> Loop]
           /\ LoopsShaped'
           /\ \A q \in Replicas : q # p => loop'[q] = loop[q]
           /\ loop'[p].pc = pc /\ loop'[p].session = session /\ loop'[p].todo = todo
           /\ loop'[p].now = now /\ loop'[p].age = age
  <1> PICK l \in Loop :
        /\ loop' = [loop EXCEPT ![p] = l]
        /\ l.pc = pc /\ l.session = session /\ l.todo = todo
        /\ l.now = now /\ l.age = age
    BY DEF Moves
  <1>1. \A q \in Replicas : loop'[q] = IF q = p THEN l ELSE loop[q]
    BY DEF TypeOK
  <1>2. loop' \in [Replicas -> Loop]
    BY DEF TypeOK
  <1>3. pc = "idle" => l = Resting
    <2>1. pc = "idle" => now = "none"
      BY DEF Loop, Working
    <2> QED BY <2>1, IdleIsResting
  <1>4. ASSUME NEW q \in Replicas
        PROVE  /\ loop'[q].pc = "idle" => loop'[q] = Resting
               /\ loop'[q].pc # "idle" => loop'[q].session \in {q} \X (1..PoolSize)
               /\ loop'[q].pc \in Working <=> loop'[q].now \in Searches
               /\ loop'[q].pc \in {"list", "release"} => loop'[q].todo = {}
               /\ loop'[q].now \notin loop'[q].todo
    <2>1. CASE q = p
      BY <1>1, <1>3, <2>1
    <2>2. CASE q # p
      BY <1>1, <2>2 DEF LoopsShaped, At
    <2> QED BY <2>1, <2>2
  <1>5. LoopsShaped'
    BY <1>4 DEF LoopsShaped, At
  <1> QED BY <1>1, <1>2, <1>5

LEMMA AcquireMoves ==
    ASSUME TypeOK, LoopsShaped, NEW p \in Replicas, NEW n \in 1..PoolSize, Acquire(p, n)
    PROVE  Moves(p, "list", <<p, n>>, {}, "none", 0)
  <1> DEFINE l == [Resting EXCEPT !.pc = "list", !.session = <<p, n>>]
  <1>1. <<p, n>> \in Sessions
    BY DEF Sessions
  <1>2. l \in Loop
    BY <1>1, RestingFields DEF Loop
  <1>3. l.pc = "list" /\ l.session = <<p, n>> /\ l.todo = {} /\ l.now = "none" /\ l.age = 0
    BY RestingFields DEF Loop
  <1>4. loop' = [loop EXCEPT ![p] = l]
    BY DEF Acquire
  <1> QED BY ONLY <1>2, <1>3, <1>4 DEF Moves
LEMMA ListDueMoves ==
    ASSUME TypeOK, LoopsShaped, NEW p \in Replicas, ListDue(p)
    PROVE  Moves(p, "next", loop[p].session, ListedDue, "none", 0)
  <1> DEFINE l == [loop[p] EXCEPT !.pc = "next", !.age = 0, !.todo = ListedDue]
  <1>1. loop[p].now = "none"
    BY LoopFields DEF LoopsShaped, ListDue, At, Working
  <1>5. ListedDue \in SUBSET Searches
    BY DEF ListedDue
  <1>2. l \in Loop
    BY LoopFields, <1>5, AgesAreNat DEF Loop
  <1>3. /\ l.pc = "next" /\ l.session = loop[p].session /\ l.todo = ListedDue
        /\ l.now = "none" /\ l.age = 0
    BY LoopFields, <1>1 DEF Loop
  <1>4. loop' = [loop EXCEPT ![p] = l]
    BY DEF ListDue, TypeOK
  <1> QED BY ONLY <1>2, <1>3, <1>4 DEF Moves

LEMMA TakeMoves ==
    ASSUME TypeOK, LoopsShaped, NEW p \in Replicas, NEW r \in Searches, Take(p, r)
    PROVE  Moves(p, "count", loop[p].session, loop[p].todo \ {r}, r, loop[p].age)
  <1> DEFINE l == [loop[p] EXCEPT !.pc = "count", !.now = r, !.todo = loop[p].todo \ {r}]
  <1>2. l \in Loop
    BY LoopFields DEF Loop
  <1>3. /\ l.pc = "count" /\ l.session = loop[p].session /\ l.todo = loop[p].todo \ {r}
        /\ l.now = r /\ l.age = loop[p].age
    BY LoopFields DEF Loop
  <1>4. loop' = [loop EXCEPT ![p] = l]
    BY DEF Take, TypeOK
  <1> QED BY ONLY <1>2, <1>3, <1>4 DEF Moves

LEMMA ListDoneMoves ==
    ASSUME TypeOK, LoopsShaped, NEW p \in Replicas, ListDone(p)
    PROVE  Moves(p, "release", loop[p].session, {}, "none", loop[p].age)
  <1> DEFINE l == [loop[p] EXCEPT !.pc = "release"]
  <1>1. loop[p].now = "none" /\ loop[p].todo = {}
    BY LoopFields DEF LoopsShaped, ListDone, At, Working
  <1>2. l \in Loop
    BY LoopFields DEF Loop
  <1>3. /\ l.pc = "release" /\ l.session = loop[p].session /\ l.todo = {}
        /\ l.now = "none" /\ l.age = loop[p].age
    BY LoopFields, <1>1 DEF Loop
  <1>4. loop' = [loop EXCEPT ![p] = l]
    BY DEF ListDone, TypeOK
  <1> QED BY ONLY <1>2, <1>3, <1>4 DEF Moves

\* One of the accesses to a search in work, or none.
LEMMA StepMoves ==
    ASSUME TypeOK, NEW p \in Replicas, NEW pc \in Steps,
           loop' = [loop EXCEPT ![p].pc = pc]
    PROVE  Moves(p, pc, loop[p].session, loop[p].todo, loop[p].now, loop[p].age)
  <1> DEFINE l == [loop[p] EXCEPT !.pc = pc]
  <1>2. l \in Loop
    BY LoopFields DEF Loop, Steps
  <1>3. /\ l.pc = pc /\ l.session = loop[p].session /\ l.todo = loop[p].todo
        /\ l.now = loop[p].now /\ l.age = loop[p].age
    BY LoopFields DEF Loop
  <1>4. loop' = [loop EXCEPT ![p] = l]
    BY DEF TypeOK
  <1> QED BY ONLY <1>2, <1>3, <1>4 DEF Moves

LEMMA MarkRanMoves ==
    ASSUME TypeOK, LoopsShaped, NEW p \in Replicas, MarkRan(p)
    PROVE  Moves(p, "next", loop[p].session, loop[p].todo, "none", loop[p].age)
  <1> DEFINE l == [loop[p] EXCEPT !.pc = "next", !.now = "none"]
  <1>2. l \in Loop
    BY LoopFields DEF Loop
  <1>3. /\ l.pc = "next" /\ l.session = loop[p].session /\ l.todo = loop[p].todo
        /\ l.now = "none" /\ l.age = loop[p].age
    BY LoopFields DEF Loop
  <1>4. loop' = [loop EXCEPT ![p] = l]
    BY DEF MarkRan, TypeOK
  <1> QED BY ONLY <1>2, <1>3, <1>4 DEF Moves

LEMMA DropMoves ==
    ASSUME TypeOK, LoopsShaped, NEW p \in Replicas, Drop(p, Dropped(p))
    PROVE  Moves(p, "release", loop[p].session, {}, "none", loop[p].age)
  <1> DEFINE l == [loop[p] EXCEPT !.pc = "release", !.todo = {}, !.now = "none"]
  <1>2. l \in Loop
    BY LoopFields DEF Loop
  <1>3. /\ l.pc = "release" /\ l.session = loop[p].session /\ l.todo = {}
        /\ l.now = "none" /\ l.age = loop[p].age
    BY LoopFields DEF Loop
  <1>4. loop' = [loop EXCEPT ![p] = l]
    BY DEF Drop, Dropped, TypeOK
  <1> QED BY ONLY <1>2, <1>3, <1>4 DEF Moves

LEMMA RestMoves ==
    ASSUME TypeOK, NEW p \in Replicas, loop' = [loop EXCEPT ![p] = Resting]
    PROVE  Moves(p, "idle", <<>>, {}, "none", 0)
  BY RestingFields DEF Moves
-----------------------------------------------------------------------------
(***************************************************************************)
(* The ticks.                                                              *)
(***************************************************************************)
\* The part of TickInv that the loops, the lock and the ages make up.
Ticks == /\ LoopsShaped /\ LockCounts /\ LeaderHoldsLock /\ NoLaterLaunch
         /\ UnbornNeverRan /\ RunsAreMarked /\ LaunchedOncePerInterval

After == {"dispatch", "fail", "mark"}

LEMMA OneLeader ==
    ASSUME TypeOK, LoopsShaped, LeaderHoldsLock, ~ torn,
           NEW p \in Replicas, NEW q \in Replicas,
           loop[p].pc # "idle", loop[q].pc # "idle"
    PROVE  p = q
  <1>1. loop[p].session \in {p} \X (1..PoolSize) /\ loop[q].session \in {q} \X (1..PoolSize)
    BY DEF LoopsShaped, At
  <1>2. loop[p].session = loop[q].session
    BY DEF LeaderHoldsLock, At
  <1> QED BY <1>1, <1>2

\* A move that launches nothing, marks nothing and takes nothing on.
LEMMA MoveKeeps ==
    ASSUME TypeOK, Ticks, NEW p \in Replicas,
           NEW pc, NEW session, NEW todo, NEW now, NEW age,
           Moves(p, pc, session, todo, now, age),
           lock' = lock, torn' = torn, search' = search, ranAge' = ranAge,
           cut \subseteq cut',
           pc = "idle" => session = <<>> /\ age = 0 /\ now = "none",
           pc # "idle" => session = loop[p].session /\ loop[p].pc # "idle"
                            /\ age = loop[p].age,
           pc \in Working <=> now \in Searches,
           pc \in {"idle", "list", "release"} => todo = {},
           todo \subseteq loop[p].todo,
           now \notin todo,
           now \in Listed(p) \cup {"none"},
           pc \notin After => now \in Planned(p) \cup {"none"},
           Launched(p) => \/ pc \in After /\ now = loop[p].now
                          \/ loop[p].now \in cut'
                          \/ search[loop[p].now].age <= ranAge[loop[p].now]
    PROVE  Ticks' /\ loop' \in [Replicas -> Loop]
  <1>1. pc # "idle" => session \in {p} \X (1..PoolSize)
    BY DEF Ticks, LoopsShaped, At
  <1>2. /\ loop' \in [Replicas -> Loop]
        /\ LoopsShaped'
        /\ \A q \in Replicas : q # p => loop'[q] = loop[q]
        /\ loop'[p].pc = pc /\ loop'[p].session = session /\ loop'[p].todo = todo
        /\ loop'[p].now = now /\ loop'[p].age = age
    BY <1>1, MoveStep DEF Ticks
  <1>3. LeaderHoldsLock'
    BY <1>2 DEF Ticks, LeaderHoldsLock, At
  <1>4. LockCounts'
    BY DEF Ticks, LockCounts
  <1>5. NoLaterLaunch'
    <2> SUFFICES ASSUME ~ torn, NEW q \in Replicas, NEW r \in Listed(q)'
                 PROVE  loop'[q].age <= ranAge[r]
      BY DEF NoLaterLaunch
    <2>1. CASE q = p
      <3>1. r \in Listed(p) /\ pc # "idle"
        BY <1>2, <2>1 DEF Listed
      <3> QED BY <1>2, <2>1, <3>1 DEF Ticks, NoLaterLaunch
    <2>2. CASE q # p
      BY <1>2, <2>2 DEF Ticks, NoLaterLaunch, Listed
    <2> QED BY <2>1, <2>2
  <1>6. UnbornNeverRan'
    BY DEF Ticks, UnbornNeverRan
  <1>7. RunsAreMarked'
    <2> SUFFICES ASSUME NEW r \in Searches,
                        ~ (search[r].age <= ranAge[r]), Stored(r), r \notin cut', ~ torn
                 PROVE  \E q \in Replicas : loop'[q].now = r /\ loop'[q].pc \in After
      BY DEF RunsAreMarked, Stored, Launched, After
    <2>1. PICK q \in Replicas : loop[q].now = r /\ Launched(q)
      BY DEF Ticks, RunsAreMarked
    <2>2. CASE q = p
      BY <1>2, <2>1, <2>2
    <2>3. CASE q # p
      BY <1>2, <2>1, <2>3 DEF Launched, After
    <2> QED BY <2>2, <2>3
  <1>8. LaunchedOncePerInterval'
    <2> SUFFICES ASSUME NEW q \in Replicas, NEW r \in Planned(q)'
                 PROVE  r \in Planned(q)
      BY DEF Ticks, LaunchedOncePerInterval
    <2>1. CASE q = p
      BY <1>2, <2>1 DEF Planned, Launched, After
    <2>2. CASE q # p
      BY <1>2, <2>2 DEF Planned, Launched
    <2> QED BY <2>1, <2>2
  <1> QED BY <1>2, <1>3, <1>4, <1>5, <1>6, <1>7, <1>8 DEF Ticks

\* What a Drop adds to cut are searches, and the search in work if it was
\* launched and not marked.
LEMMA DropCuts ==
    ASSUME TypeOK, LoopsShaped, NEW p \in Replicas, NEW to, Drop(p, to)
    PROVE  /\ cut \subseteq cut' /\ cut' \subseteq Searches
           /\ Launched(p) => \/ loop[p].now \in cut'
                             \/ search[loop[p].now].age <= ranAge[loop[p].now]
  <1>1. Launched(p) => loop[p].now \in Searches
    BY DEF LoopsShaped, Launched, Working
  <1>2. /\ cut \subseteq Searches
        /\ cut' = IF Launched(p) /\ ranAge[loop[p].now] < search[loop[p].now].age
                  THEN cut \cup {loop[p].now} ELSE cut
    BY DEF Drop, Launched, TypeOK
  <1>3. ASSUME NEW r \in Searches
        PROVE  ranAge[r] < search[r].age \/ search[r].age <= ranAge[r]
    <2>1. ranAge[r] \in Nat /\ search[r].age \in Nat
      BY AgesAreNat DEF TypeOK, Row
    <2> QED BY <2>1
  <1> QED BY <1>1, <1>2, <1>3

LEMMA TakeTicks ==
    ASSUME TypeOK, Ticks, NEW p \in Replicas, NEW r \in Searches, Take(p, r)
    PROVE  TypeOK' /\ Ticks'
  <1>1. Moves(p, "count", loop[p].session, loop[p].todo \ {r}, r, loop[p].age)
    BY TakeMoves DEF Ticks
  <1>2. /\ loop[p].pc = "next" /\ r \in loop[p].todo
        /\ UNCHANGED <<search, used, lock, requests, ranAge, cut, torn, faults>>
    BY DEF Take, At
  <1>3. r \in Listed(p) /\ r \in Planned(p) /\ ~ Launched(p)
    BY <1>2 DEF Listed, Planned, Launched
  <1>4. Ticks' /\ loop' \in [Replicas -> Loop]
    BY <1>1, <1>2, <1>3, MoveKeeps DEF Working, After
  <1> QED BY <1>2, <1>4 DEF TypeOK

LEMMA ListDoneTicks ==
    ASSUME TypeOK, Ticks, NEW p \in Replicas, ListDone(p)
    PROVE  TypeOK' /\ Ticks'
  <1>1. Moves(p, "release", loop[p].session, {}, "none", loop[p].age)
    BY ListDoneMoves DEF Ticks
  <1>2. /\ loop[p].pc = "next"
        /\ UNCHANGED <<search, used, lock, requests, ranAge, cut, torn, faults>>
    BY DEF ListDone, At
  <1>3. ~ Launched(p) /\ "none" \notin Searches
    BY <1>2, SchedulerAssumption DEF Launched
  <1>4. Ticks' /\ loop' \in [Replicas -> Loop]
    BY <1>1, <1>2, <1>3, MoveKeeps DEF Working, After
  <1> QED BY <1>2, <1>4 DEF TypeOK

\* An access to the search in work, from pc to to.
LEMMA AccessTicks ==
    ASSUME TypeOK, Ticks, NEW p \in Replicas, NEW to \in Working,
           loop' = [loop EXCEPT ![p].pc = to],
           loop[p].pc \in Working, loop[p].pc \in After => to \in After,
           UNCHANGED <<search, lock, ranAge, cut, torn>>
    PROVE  Ticks' /\ loop' \in [Replicas -> Loop]
  <1>1. Moves(p, to, loop[p].session, loop[p].todo, loop[p].now, loop[p].age)
    BY StepMoves DEF Working, Steps
  <1>2. loop[p].now \in Searches /\ loop[p].now \notin loop[p].todo
    BY DEF Ticks, LoopsShaped
  <1>3. loop[p].now # "none"
    BY <1>2, SchedulerAssumption
  <1>4. loop[p].now \in Listed(p) /\ (to \notin After => loop[p].now \in Planned(p))
    BY <1>3 DEF Listed, Planned, Launched, After
  <1>5. Launched(p) <=> loop[p].pc \in After
    BY DEF Launched, After
  <1>6. to # "idle" /\ to \notin {"idle", "list", "release"} /\ loop[p].pc # "idle"
    BY DEF Working
  <1> QED BY <1>1, <1>2, <1>4, <1>5, <1>6, MoveKeeps

LEMMA CountUsedTicks ==
    ASSUME TypeOK, Ticks, NEW p \in Replicas,
           CountUsed(p) \/ DispatchRun(p) \/ FailRun(p)
    PROVE  TypeOK' /\ Ticks'
  <1>1. \E to \in {"insert", "mark", "fail"} :
           /\ loop' = [loop EXCEPT ![p].pc = to]
           /\ loop[p].pc \in After => to \in After
    BY DEF CountUsed, DispatchRun, FailRun, At, After
  <1>2. /\ loop[p].pc \in Working
        /\ UNCHANGED <<search, used, lock, requests, ranAge, cut, torn, faults>>
    BY DEF CountUsed, DispatchRun, FailRun, At, Working
  <1>3. Ticks' /\ loop' \in [Replicas -> Loop]
    BY <1>1, <1>2, AccessTicks DEF Working
  <1> QED BY <1>2, <1>3 DEF TypeOK

\* The rest of a list is dropped.
LEMMA DropTicks ==
    ASSUME TypeOK, Ticks, NEW p \in Replicas, Drop(p, Dropped(p)),
           loop[p].pc \notin {"idle", "release"},
           UNCHANGED <<search, lock, ranAge, torn>>
    PROVE  Ticks' /\ loop' \in [Replicas -> Loop] /\ cut' \subseteq Searches
  <1>1. Moves(p, "release", loop[p].session, {}, "none", loop[p].age)
    BY DropMoves DEF Ticks
  <1>2. /\ cut \subseteq cut' /\ cut' \subseteq Searches
        /\ Launched(p) => \/ loop[p].now \in cut'
                          \/ search[loop[p].now].age <= ranAge[loop[p].now]
    BY DropCuts DEF Ticks
  <1> QED BY <1>1, <1>2, SchedulerAssumption, MoveKeeps DEF Working, After

LEMMA FaultCounts ==
    ASSUME TypeOK, Fault
    PROVE  faults' \in 0..MaxFaults
  BY SchedulerAssumption DEF TypeOK, Fault

LEMMA ErrorTicks ==
    ASSUME TypeOK, Ticks, NEW p \in Replicas, Error(p)
    PROVE  TypeOK' /\ Ticks'
  <1>1. Ticks' /\ loop' \in [Replicas -> Loop] /\ cut' \subseteq Searches
    BY DropTicks DEF Error, At
  <1>2. faults' \in 0..MaxFaults
    BY FaultCounts DEF Error
  <1> QED BY <1>1, <1>2 DEF Error, TypeOK

LEMMA UnlockFailedTicks ==
    ASSUME TypeOK, Ticks, NEW p \in Replicas, UnlockFailed(p)
    PROVE  TypeOK' /\ Ticks'
  <1>1. Moves(p, "idle", <<>>, {}, "none", 0)
    BY RestMoves DEF UnlockFailed
  <1>2. ~ Launched(p)
    BY DEF UnlockFailed, At, Launched
  <1>3. Ticks' /\ loop' \in [Replicas -> Loop]
    BY <1>1, <1>2, SchedulerAssumption, MoveKeeps DEF Working, After, UnlockFailed
  <1>4. faults' \in 0..MaxFaults
    BY FaultCounts DEF UnlockFailed
  <1> QED BY <1>3, <1>4 DEF UnlockFailed, TypeOK

\* Who takes the lock while no session was lost is the only one that ticks.
LEMMA AcquireTicks ==
    ASSUME TypeOK, Ticks, NEW p \in Replicas, NEW n \in 1..PoolSize, Acquire(p, n)
    PROVE  TypeOK' /\ Ticks'
  <1>1. Moves(p, "list", <<p, n>>, {}, "none", 0)
    BY AcquireMoves DEF Ticks
  <1>2. /\ loop[p].pc = "idle" /\ Lockable(lock, <<p, n>>)
        /\ lock' = Locked(lock, <<p, n>>)
        /\ <<p, n>> # loop[p].session
        /\ UNCHANGED <<search, used, requests, ranAge, cut, torn, faults>>
    BY DEF Acquire, At, Pooled
  <1>3. /\ loop' \in [Replicas -> Loop]
        /\ LoopsShaped'
        /\ \A q \in Replicas : q # p => loop'[q] = loop[q]
        /\ loop'[p].pc = "list" /\ loop'[p].session = <<p, n>> /\ loop'[p].todo = {}
        /\ loop'[p].now = "none" /\ loop'[p].age = 0
    BY <1>1, SchedulerAssumption, MoveStep DEF Ticks, Working
  <1>4. lock' \in [holder: Sessions \cup {<<>>}, times: Nat] /\ LockCounts'
        /\ lock'.holder = <<p, n>>
    <2>1. <<p, n>> \in Sessions /\ lock.times \in Nat
      BY DEF Sessions, TypeOK
    <2>2. lock' = [holder |-> <<p, n>>, times |-> lock.times + 1]
      BY <1>2 DEF Locked
    <2> QED BY <2>1, <2>2 DEF LockCounts
  <1>5. \A q \in Replicas : loop[q].pc # "idle" => torn
    <2> SUFFICES ASSUME NEW q \in Replicas, loop[q].pc # "idle", ~ torn
                 PROVE  FALSE
      OBVIOUS
    <2>1. loop[q].session = lock.holder /\ loop[q].session \in {q} \X (1..PoolSize)
      BY DEF Ticks, LeaderHoldsLock, LoopsShaped, At
    <2>2. lock.holder = <<p, n>>
      BY <1>2, <2>1 DEF Lockable
    <2>3. q = p
      BY <2>1, <2>2
    <2> QED BY <1>2, <2>3
  <1>6. LeaderHoldsLock'
    BY <1>2, <1>3, <1>4, <1>5 DEF LeaderHoldsLock, At
  <1>7. ASSUME NEW q \in Replicas
        PROVE  Listed(q)' \subseteq Listed(q) /\ Planned(q)' \subseteq Planned(q)
               /\ (Launched(q) => Launched(q)' /\ loop'[q].now = loop[q].now)
               /\ (Listed(q)' # {} => loop'[q].age = loop[q].age)
    <2>1. CASE q = p
      BY <1>2, <1>3, <2>1 DEF Listed, Planned, Launched
    <2>2. CASE q # p
      BY <1>3, <2>2 DEF Listed, Planned, Launched
    <2> QED BY <2>1, <2>2
  <1>8. NoLaterLaunch'
    BY <1>2, <1>7 DEF Ticks, NoLaterLaunch
  <1>9. RunsAreMarked'
    BY <1>2, <1>7 DEF Ticks, RunsAreMarked, Stored
  <1>10. LaunchedOncePerInterval' /\ UnbornNeverRan'
    BY <1>2, <1>7 DEF Ticks, LaunchedOncePerInterval, UnbornNeverRan
  <1> QED BY <1>2, <1>3, <1>4, <1>6, <1>8, <1>9, <1>10 DEF Ticks, TypeOK

LEMMA ListDueTicks ==
    ASSUME TypeOK, Ticks, NEW p \in Replicas, ListDue(p)
    PROVE  TypeOK' /\ Ticks'
  <1>1. Moves(p, "next", loop[p].session, ListedDue, "none", 0)
    BY ListDueMoves DEF Ticks
  <1>2. /\ loop[p].pc = "list"
        /\ UNCHANGED <<search, used, lock, requests, ranAge, cut, torn, faults>>
    BY DEF ListDue, At
  <1>3. loop[p].session \in {p} \X (1..PoolSize) /\ "none" \notin ListedDue
    BY <1>2, SchedulerAssumption DEF Ticks, LoopsShaped, At, ListedDue
  <1>4. /\ loop' \in [Replicas -> Loop]
        /\ LoopsShaped'
        /\ \A q \in Replicas : q # p => loop'[q] = loop[q]
        /\ loop'[p].pc = "next" /\ loop'[p].session = loop[p].session
        /\ loop'[p].todo = ListedDue /\ loop'[p].now = "none" /\ loop'[p].age = 0
    BY <1>1, <1>3, SchedulerAssumption, MoveStep DEF Ticks, Working
  <1>5. LeaderHoldsLock' /\ LockCounts' /\ UnbornNeverRan'
    BY <1>2, <1>4 DEF Ticks, LeaderHoldsLock, At, LockCounts, UnbornNeverRan
  <1>6. NoLaterLaunch'
    <2> SUFFICES ASSUME ~ torn, NEW q \in Replicas, NEW r \in Listed(q)'
                 PROVE  loop'[q].age <= ranAge[r]
      BY <1>2 DEF NoLaterLaunch
    <2>1. CASE q = p
      <3>1. r \in Searches
        BY <1>4, <2>1 DEF Listed, ListedDue
      <3> QED BY <1>4, <2>1, <3>1 DEF TypeOK, Ages
    <2>2. CASE q # p
      BY <1>4, <2>2 DEF Ticks, NoLaterLaunch, Listed
    <2> QED BY <2>1, <2>2
  <1>7. RunsAreMarked'
    <2>1. ASSUME NEW q \in Replicas, Launched(q)
          PROVE  Launched(q)' /\ loop'[q].now = loop[q].now
      BY <1>2, <1>4, <2>1 DEF Launched
    <2> QED BY <1>2, <2>1 DEF Ticks, RunsAreMarked, Stored
  <1>8. LaunchedOncePerInterval'
    <2> SUFFICES ASSUME ~ torn, NEW q \in Replicas, NEW r \in Planned(q)', r \notin cut
                 PROVE  ranAge[r] >= Interval
      BY <1>2 DEF LaunchedOncePerInterval
    <2>1. CASE q = p
      <3>1. r \in Searches /\ Stored(r) /\ search[r].age >= Interval
        BY <1>4, <2>1 DEF Planned, ListedDue, Due
      <3>2. \A o \in Replicas : ~ Launched(o)
        BY <1>2, OneLeader DEF Ticks, Launched
      <3>3. search[r].age <= ranAge[r]
        BY <3>1, <3>2 DEF Ticks, RunsAreMarked
      <3>4. search[r].age \in Nat /\ ranAge[r] \in Nat /\ Interval \in Nat
        BY <3>1, AgesAreNat DEF TypeOK, Row
      <3> QED BY <3>1, <3>3, <3>4
    <2>2. CASE q # p
      BY <1>4, <2>2 DEF Ticks, LaunchedOncePerInterval, Planned, Launched
    <2> QED BY <2>1, <2>2
  <1> QED BY <1>2, <1>4, <1>5, <1>6, <1>7, <1>8 DEF Ticks, TypeOK

\* The insert of a run is the launch: nobody else has the search in its list.
LEMMA InsertRunTicks ==
    ASSUME TypeOK, Ticks, NEW p \in Replicas, InsertRun(p)
    PROVE  TypeOK' /\ Ticks'
  <1> DEFINE r == loop[p].now
  <1>1. /\ loop[p].pc = "insert"
        /\ UNCHANGED <<search, lock, requests, torn, faults>>
    BY DEF InsertRun, At
  <1>2. r \in Searches /\ r # "none" /\ r \notin loop[p].todo
    BY <1>1, SchedulerAssumption DEF Ticks, LoopsShaped, Working
  <1>3. CASE Stored(r)
    <2>1. /\ used' = [used EXCEPT ![search[r].owner] = @ + 1]
          /\ loop' = [loop EXCEPT ![p].pc = "dispatch"]
          /\ ranAge' = [ranAge EXCEPT ![r] = loop[p].age]
          /\ cut' = cut
      BY <1>3 DEF InsertRun
    <2>2. Moves(p, "dispatch", loop[p].session, loop[p].todo, r, loop[p].age)
      BY <2>1, StepMoves DEF Steps
    <2>3. loop[p].session \in {p} \X (1..PoolSize)
      BY <1>1 DEF Ticks, LoopsShaped, At
    <2>4. /\ loop' \in [Replicas -> Loop]
          /\ LoopsShaped'
          /\ \A q \in Replicas : q # p => loop'[q] = loop[q]
          /\ loop'[p].pc = "dispatch" /\ loop'[p].session = loop[p].session
          /\ loop'[p].todo = loop[p].todo /\ loop'[p].now = r /\ loop'[p].age = loop[p].age
      BY <1>2, <2>2, <2>3, MoveStep DEF Ticks, Working
    <2>5. loop[p].age \in Ages /\ loop[p].age \in Nat
      BY LoopFields, AgesAreNat
    <2>6. ranAge' \in [Searches -> Ages] /\ used' \in [Users -> Nat]
      BY <1>2, <2>1, <2>5 DEF TypeOK, Row
    <2>7. ranAge'[r] = loop[p].age /\ \A o \in Searches : o # r => ranAge'[o] = ranAge[o]
      BY <1>2, <2>1 DEF TypeOK
    <2>8. LeaderHoldsLock' /\ LockCounts'
      BY <1>1, <2>4 DEF Ticks, LeaderHoldsLock, At, LockCounts
    <2>9. UnbornNeverRan'
      BY <1>1, <1>3, <2>7 DEF Ticks, UnbornNeverRan, Stored
    <2>10. ASSUME ~ torn, NEW q \in Replicas, q # p
           PROVE  loop'[q] = Resting
      <3>1. loop[q].pc = "idle"
        BY <1>1, <2>10, OneLeader DEF Ticks
      <3> QED BY <2>4, <2>10, <3>1 DEF Ticks, LoopsShaped, At
    <2>11. NoLaterLaunch'
      <3> SUFFICES ASSUME ~ torn, NEW q \in Replicas, NEW o \in Listed(q)'
                   PROVE  loop'[q].age <= ranAge'[o]
        BY <1>1 DEF NoLaterLaunch
      <3>1. q = p
        BY <2>10, RestingFields DEF Listed
      <3>2. o \in Listed(p) /\ o \in Searches /\ loop'[q].age = loop[p].age
        BY <2>4, <3>1, LoopFields DEF Listed
      <3>3. CASE o = r
        BY <2>5, <2>7, <3>2, <3>3
      <3>4. CASE o # r
        BY <2>7, <3>2, <3>4 DEF Ticks, NoLaterLaunch
      <3> QED BY <3>3, <3>4
    <2>12. RunsAreMarked'
      <3> SUFFICES ASSUME NEW o \in Searches, ~ (search[o].age <= ranAge'[o]), Stored(o),
                          o \notin cut, ~ torn
                   PROVE  \E q \in Replicas : loop'[q].now = o /\ loop'[q].pc \in After
        BY <1>1, <2>1 DEF RunsAreMarked, Stored, Launched, After
      <3>1. CASE o = r
        BY <2>4, <3>1 DEF After
      <3>2. CASE o # r
        <4>1. PICK q \in Replicas : loop[q].now = o /\ Launched(q)
          BY <2>7, <3>2 DEF Ticks, RunsAreMarked
        <4>2. q # p
          BY <1>1, <4>1 DEF Launched
        <4> QED BY <2>4, <4>1, <4>2 DEF Launched, After
      <3> QED BY <3>1, <3>2
    <2>13. LaunchedOncePerInterval'
      <3> SUFFICES ASSUME ~ torn, NEW q \in Replicas, NEW o \in Planned(q)', o \notin cut
                   PROVE  ranAge'[o] >= Interval
        BY <1>1, <2>1 DEF LaunchedOncePerInterval
      <3>1. q = p
        BY <2>10, RestingFields DEF Planned, Launched
      <3>2. o \in loop[p].todo /\ o \in Searches
        BY <2>4, <3>1, LoopFields DEF Planned, Launched
      <3> QED BY <1>2, <2>7, <3>2 DEF Ticks, LaunchedOncePerInterval, Planned
    <2> QED BY <1>1, <2>1, <2>4, <2>6, <2>8, <2>9, <2>11, <2>12, <2>13 DEF Ticks, TypeOK
  <1>4. CASE ~ Stored(r)
    <2>1. Drop(p, Dropped(p)) /\ UNCHANGED <<used, ranAge>>
      BY <1>4 DEF InsertRun
    <2>2. Ticks' /\ loop' \in [Replicas -> Loop] /\ cut' \subseteq Searches
      BY <1>1, <2>1, DropTicks
    <2> QED BY <1>1, <2>1, <2>2 DEF TypeOK
  <1> QED BY <1>3, <1>4

\* A search that ran is marked with the time of its tick, which no later tick
\* has launched.
LEMMA MarkRanTicks ==
    ASSUME TypeOK, Ticks, NEW p \in Replicas, MarkRan(p)
    PROVE  TypeOK' /\ Ticks'
  <1> DEFINE r == loop[p].now
  <1>1. /\ loop[p].pc = "mark"
        /\ search' = Ran(r, loop[p].age)
        /\ UNCHANGED <<used, lock, requests, ranAge, cut, torn, faults>>
    BY DEF MarkRan, At
  <1>2. r \in Searches /\ loop[p].session \in {p} \X (1..PoolSize)
    BY <1>1 DEF Ticks, LoopsShaped, Working, At
  <1>3. /\ loop' \in [Replicas -> Loop]
        /\ LoopsShaped'
        /\ \A q \in Replicas : q # p => loop'[q] = loop[q]
        /\ loop'[p].pc = "next" /\ loop'[p].session = loop[p].session
        /\ loop'[p].todo = loop[p].todo /\ loop'[p].now = "none"
        /\ loop'[p].age = loop[p].age
    <2>1. Moves(p, "next", loop[p].session, loop[p].todo, "none", loop[p].age)
      BY MarkRanMoves DEF Ticks
    <2>2. loop[p].todo \subseteq Searches
      BY LoopFields
    <2> QED BY <1>2, <2>1, <2>2, SchedulerAssumption, MoveStep DEF Ticks, Working
  <1>4. /\ search' \in [Searches -> Row]
        /\ \A o \in Searches : /\ search'[o].state = search[o].state
                               /\ o # r => search'[o] = search[o]
        /\ Stored(r) => search'[r].age = loop[p].age
    <2>1. loop[p].age \in Ages
      BY LoopFields
    <2> QED BY <1>1, <1>2, <2>1 DEF Ran, TypeOK, Row
  <1>5. LeaderHoldsLock' /\ LockCounts' /\ UnbornNeverRan'
    BY <1>1, <1>3, <1>4 DEF Ticks, LeaderHoldsLock, At, LockCounts, UnbornNeverRan
  <1>6. ASSUME NEW q \in Replicas
        PROVE  Listed(q)' \subseteq Listed(q) /\ loop'[q].age = loop[q].age
               /\ Planned(q)' \subseteq Planned(q)
    <2>1. CASE q = p
      BY <1>1, <1>3, <2>1 DEF Listed, Planned, Launched
    <2>2. CASE q # p
      BY <1>3, <2>2 DEF Listed, Planned, Launched
    <2> QED BY <2>1, <2>2
  <1>7. NoLaterLaunch' /\ LaunchedOncePerInterval'
    BY <1>1, <1>6 DEF Ticks, NoLaterLaunch, LaunchedOncePerInterval
  <1>8. RunsAreMarked'
    <2> SUFFICES ASSUME NEW o \in Searches, ~ (search'[o].age <= ranAge[o]), Stored(o)',
                        o \notin cut, ~ torn
                 PROVE  \E q \in Replicas : loop'[q].now = o /\ loop'[q].pc \in After
      BY <1>1 DEF RunsAreMarked, Launched, After
    <2>1. CASE o = r
      <3>1. loop[p].age <= ranAge[r]
        BY <1>2, SchedulerAssumption DEF Ticks, NoLaterLaunch, Listed
      <3> QED BY <1>4, <2>1, <3>1 DEF Stored
    <2>2. CASE o # r
      <3>1. PICK q \in Replicas : loop[q].now = o /\ Launched(q)
        BY <1>4, <2>2 DEF Ticks, RunsAreMarked, Stored
      <3>2. q # p
        BY <2>2, <3>1
      <3> QED BY <1>3, <3>1, <3>2 DEF Launched, After
    <2> QED BY <2>1, <2>2
  <1> QED BY <1>1, <1>3, <1>4, <1>5, <1>7, <1>8 DEF Ticks, TypeOK

\* A loop that ends its tick, with or without a search in work.
LEMMA RestTicks ==
    ASSUME TypeOK, Ticks, NEW p \in Replicas, loop' = [loop EXCEPT ![p] = Resting],
           UNCHANGED <<search, ranAge, torn>>, cut \subseteq cut',
           Launched(p) => \/ loop[p].now \in cut'
                          \/ search[loop[p].now].age <= ranAge[loop[p].now],
           LockCounts',
           \A q \in Replicas : q # p /\ lock.holder = loop[q].session /\ loop[q].pc # "idle"
                                => lock'.holder = lock.holder
    PROVE  Ticks' /\ loop' \in [Replicas -> Loop]
  <1>1. Moves(p, "idle", <<>>, {}, "none", 0)
    BY RestMoves
  <1>2. /\ loop' \in [Replicas -> Loop]
        /\ LoopsShaped'
        /\ \A q \in Replicas : q # p => loop'[q] = loop[q]
        /\ loop'[p].pc = "idle" /\ loop'[p].todo = {} /\ loop'[p].now = "none"
    BY <1>1, SchedulerAssumption, MoveStep DEF Ticks, Working
  <1>3. LeaderHoldsLock'
    <2> SUFFICES ASSUME ~ torn, NEW q \in Replicas, loop'[q].pc # "idle"
                 PROVE  lock'.holder = loop'[q].session
      BY DEF LeaderHoldsLock, At
    <2>1. q # p /\ loop'[q] = loop[q]
      BY <1>2
    <2> QED BY <2>1 DEF Ticks, LeaderHoldsLock, At
  <1>4. ASSUME NEW q \in Replicas
        PROVE  /\ Listed(q)' \subseteq Listed(q) /\ Planned(q)' \subseteq Planned(q)
               /\ Listed(q)' # {} => loop'[q].age = loop[q].age
    <2>1. CASE q = p
      BY <1>2, <2>1 DEF Listed, Planned, Launched
    <2>2. CASE q # p
      BY <1>2, <2>2 DEF Listed, Planned, Launched
    <2> QED BY <2>1, <2>2
  <1>5. NoLaterLaunch' /\ LaunchedOncePerInterval' /\ UnbornNeverRan'
    BY <1>4 DEF Ticks, NoLaterLaunch, LaunchedOncePerInterval, UnbornNeverRan
  <1>6. RunsAreMarked'
    <2> SUFFICES ASSUME NEW r \in Searches,
                        ~ (search[r].age <= ranAge[r]), Stored(r), r \notin cut', ~ torn
                 PROVE  \E q \in Replicas : loop'[q].now = r /\ loop'[q].pc \in After
      BY DEF RunsAreMarked, Stored, Launched, After
    <2>1. PICK q \in Replicas : loop[q].now = r /\ Launched(q)
      BY DEF Ticks, RunsAreMarked
    <2>2. q # p
      BY <2>1
    <2> QED BY <1>2, <2>1, <2>2 DEF Launched, After
  <1> QED BY <1>2, <1>3, <1>5, <1>6 DEF Ticks

LEMMA UnlockedFields ==
    Unlocked \in [holder: Sessions \cup {<<>>}, times: Nat] /\ Unlocked.holder = <<>>
  BY DEF Unlocked

LEMMA LockFields ==
    ASSUME TypeOK, NEW session, session # <<>>
    PROVE  /\ LockCounts => Released(lock, session) \in [holder: Sessions \cup {<<>>}, times: Nat]
           /\ LockCounts /\ Released(lock, session).holder # <<>>
                => Released(lock, session).times >= 1
           /\ lock.holder # session => Released(lock, session) = lock
  <1>1. lock \in [holder: Sessions \cup {<<>>}, times: Nat]
    BY DEF TypeOK
  <1>2. Unlocked \in [holder: Sessions \cup {<<>>}, times: Nat] /\ Unlocked.holder = <<>>
    BY UnlockedFields
  <1>3. CASE lock.holder # session
    BY <1>1, <1>2, <1>3 DEF Released, LockCounts
  <1>4. CASE lock.holder = session /\ lock.times = 1
    BY <1>2, <1>4 DEF Released
  <1>5. CASE lock.holder = session /\ lock.times # 1
    <2> DEFINE after == [lock EXCEPT !.times = lock.times - 1]
    <2>1. Released(lock, session) = after
      BY <1>5 DEF Released
    <2>2. after.holder = lock.holder /\ after.times = lock.times - 1
      BY <1>1
    <2>3. ASSUME LockCounts, lock.holder # <<>>
          PROVE  lock.times - 1 \in Nat /\ lock.times - 1 >= 1
      BY <1>1, <1>5, <2>3 DEF LockCounts
    <2>4. ASSUME LockCounts
          PROVE  after \in [holder: Sessions \cup {<<>>}, times: Nat]
      <3>1. lock.times - 1 \in Nat
        BY <1>5, <2>3, <2>4
      <3> QED BY <1>1, <3>1
    <2> QED BY <1>2, <1>5, <2>1, <2>2, <2>3, <2>4
  <1> QED BY <1>3, <1>4, <1>5

LEMMA ReleaseTicks ==
    ASSUME TypeOK, Ticks, NEW p \in Replicas, Release(p)
    PROVE  TypeOK' /\ Ticks'
  <1>1. /\ loop[p].pc = "release" /\ ~ Launched(p)
        /\ lock' = Released(lock, loop[p].session)
        /\ loop' = [loop EXCEPT ![p] = Resting]
        /\ UNCHANGED <<search, used, requests, ranAge, cut, torn, faults>>
    BY DEF Release, At, Launched
  <1>2. lock' \in [holder: Sessions \cup {<<>>}, times: Nat] /\ LockCounts'
    <2>1. loop[p].session # <<>>
      BY <1>1 DEF Ticks, LoopsShaped, At
    <2> QED BY <1>1, <2>1, LockFields DEF Ticks, LockCounts
  <1>3. ASSUME NEW q \in Replicas, q # p, lock.holder = loop[q].session, loop[q].pc # "idle"
        PROVE  lock' = lock
    <2>1. /\ loop[q].session \in {q} \X (1..PoolSize)
          /\ loop[p].session \in {p} \X (1..PoolSize)
      BY <1>1, <1>3 DEF Ticks, LoopsShaped, At
    <2>2. lock.holder # loop[p].session /\ loop[p].session # <<>>
      BY <1>3, <2>1
    <2> QED BY <1>1, <2>2, LockFields
  <1>4. Ticks' /\ loop' \in [Replicas -> Loop]
    BY <1>1, <1>2, <1>3, RestTicks
  <1> QED BY <1>1, <1>2, <1>4 DEF TypeOK

LEMMA CrashTicks ==
    ASSUME TypeOK, Ticks, NEW p \in Replicas, Crash(p)
    PROVE  TypeOK' /\ Ticks'
  <1>1. /\ lock' = Freed(lock, {p} \X (1..PoolSize))
        /\ Drop(p, Resting)
        /\ loop' = [loop EXCEPT ![p] = Resting]
        /\ UNCHANGED <<search, used, requests, ranAge, torn>>
    BY DEF Crash, Drop
  <1>2. lock' \in [holder: Sessions \cup {<<>>}, times: Nat] /\ LockCounts'
    BY <1>1, UnlockedFields DEF Ticks, LockCounts, Freed, TypeOK
  <1>3. ASSUME NEW q \in Replicas, q # p, lock.holder = loop[q].session, loop[q].pc # "idle"
        PROVE  lock' = lock
    <2>1. loop[q].session \in {q} \X (1..PoolSize)
      BY <1>3 DEF Ticks, LoopsShaped, At
    <2>2. lock.holder \notin {p} \X (1..PoolSize)
      BY <1>3, <2>1
    <2> QED BY <1>1, <2>2 DEF Freed
  <1>4. /\ cut \subseteq cut' /\ cut' \subseteq Searches
        /\ Launched(p) => \/ loop[p].now \in cut'
                          \/ search[loop[p].now].age <= ranAge[loop[p].now]
    BY <1>1, DropCuts DEF Ticks
  <1>5. Ticks' /\ loop' \in [Replicas -> Loop]
    BY <1>1, <1>2, <1>3, <1>4, RestTicks
  <1>6. faults' \in 0..MaxFaults
    BY FaultCounts DEF Crash
  <1> QED BY <1>1, <1>2, <1>4, <1>5, <1>6 DEF TypeOK

LEMMA LoseSessionTicks ==
    ASSUME TypeOK, Ticks, LoseSession
    PROVE  TypeOK' /\ Ticks'
  <1>1. /\ lock' = Unlocked /\ lock.holder # <<>>
        /\ torn' = (torn \/ \E p \in Replicas : loop[p].session = lock.holder)
        /\ UNCHANGED <<search, used, loop, requests, ranAge, cut>>
    BY DEF LoseSession
  <1>2. lock' \in [holder: Sessions \cup {<<>>}, times: Nat] /\ lock'.holder = <<>>
    BY <1>1, UnlockedFields
  <1>3. torn' \in BOOLEAN /\ (torn => torn')
    BY <1>1 DEF TypeOK
  <1>4. LeaderHoldsLock'
    BY <1>1 DEF Ticks, LeaderHoldsLock, At
  <1>5. NoLaterLaunch' /\ LaunchedOncePerInterval' /\ UnbornNeverRan' /\ LockCounts'
    BY <1>1, <1>2, <1>3 DEF Ticks, NoLaterLaunch, LaunchedOncePerInterval, UnbornNeverRan,
                            LockCounts, Listed, Planned, Launched
  <1>6. RunsAreMarked' /\ LoopsShaped'
    BY <1>1, <1>3 DEF Ticks, RunsAreMarked, Stored, Launched, LoopsShaped, At
  <1>7. faults' \in 0..MaxFaults
    BY FaultCounts DEF LoseSession
  <1> QED BY <1>1, <1>2, <1>3, <1>4, <1>5, <1>6, <1>7 DEF TypeOK, Ticks

\* The clock keeps what is no older than something no older than it.
LEMMA OlderKeeps ==
    ASSUME NEW a \in Ages, NEW b \in Ages
    PROVE  /\ Older(a) \in Ages
           /\ a <= b => Older(a) <= Older(b)
           /\ a >= Interval => Older(a) >= Interval
           /\ a = Interval => Older(a) = Interval
  BY SchedulerAssumption DEF Ages, Older

LEMMA PassTicks ==
    ASSUME TypeOK, Ticks, Pass
    PROVE  TypeOK' /\ Ticks'
  <1>1. /\ search' = [r \in Searches |-> [search[r] EXCEPT !.age = Older(search[r].age)]]
        /\ ranAge' = [r \in Searches |-> Older(ranAge[r])]
        /\ UNCHANGED <<used, lock, requests, cut, torn, faults>>
    BY DEF Pass
  <1>2. ASSUME NEW p \in Replicas
        PROVE  /\ loop'[p] \in Loop
               /\ loop'[p].pc = loop[p].pc /\ loop'[p].session = loop[p].session
               /\ loop'[p].todo = loop[p].todo /\ loop'[p].now = loop[p].now
               /\ loop[p].pc = "idle" => loop'[p] = loop[p]
               /\ loop[p].pc # "idle" => loop'[p].age = Older(loop[p].age)
    <2> DEFINE l == [loop[p] EXCEPT !.age = Older(loop[p].age)]
    <2>1. Older(loop[p].age) \in Ages
      BY LoopFields, OlderKeeps
    <2>2. l \in Loop
      BY <2>1, LoopFields DEF Loop
    <2>3. /\ l.pc = loop[p].pc /\ l.session = loop[p].session /\ l.todo = loop[p].todo
          /\ l.now = loop[p].now /\ l.age = Older(loop[p].age)
      BY LoopFields DEF Loop
    <2>4. loop'[p] = IF loop[p].pc = "idle" THEN loop[p] ELSE l
      BY DEF Pass, At
    <2> HIDE DEF l
    <2> QED BY <2>2, <2>3, <2>4, LoopFields
  <1>3. loop' \in [Replicas -> Loop]
    <2>1. loop' = [p \in Replicas |-> loop'[p]]
      BY DEF Pass
    <2> QED BY <1>2, <2>1
  <1>4. ASSUME NEW r \in Searches
        PROVE  /\ search'[r] \in Row
               /\ search'[r].state = search[r].state /\ search'[r].age = Older(search[r].age)
               /\ ranAge'[r] = Older(ranAge[r])
               /\ search[r].age \in Ages /\ ranAge[r] \in Ages
    <2>1. search[r] \in Row /\ search[r].age \in Ages /\ ranAge[r] \in Ages
      BY DEF TypeOK, Row
    <2>2. Older(search[r].age) \in Ages
      BY <2>1, OlderKeeps
    <2> QED BY <1>1, <2>1, <2>2 DEF Row
  <1>5. search' \in [Searches -> Row] /\ ranAge' \in [Searches -> Ages]
    BY <1>1, <1>4, OlderKeeps
  <1>6. ASSUME NEW p \in Replicas
        PROVE  /\ Listed(p)' = Listed(p) /\ Planned(p)' = Planned(p)
               /\ Launched(p)' = Launched(p)
               /\ Listed(p) \subseteq Searches /\ Planned(p) \subseteq Searches
               /\ Listed(p) # {} => loop[p].pc # "idle"
    <2>1. loop[p].pc = "idle" => loop[p].todo = {} /\ loop[p].now = "none"
      BY RestingFields DEF Ticks, LoopsShaped, At
    <2> QED BY <1>2, <2>1, LoopFields DEF Listed, Planned, Launched
  <1>7. LoopsShaped'
    BY <1>2 DEF Ticks, LoopsShaped, At
  <1>8. LeaderHoldsLock' /\ LockCounts'
    BY <1>1, <1>2 DEF Ticks, LeaderHoldsLock, LockCounts, At
  <1>9. NoLaterLaunch'
    <2> SUFFICES ASSUME ~ torn, NEW p \in Replicas, NEW r \in Listed(p)
                 PROVE  loop'[p].age <= ranAge'[r]
      BY <1>1, <1>6 DEF NoLaterLaunch
    <2>1. loop[p].age <= ranAge[r] /\ r \in Searches /\ loop[p].pc # "idle"
      BY <1>6 DEF Ticks, NoLaterLaunch
    <2>2. loop[p].age \in Ages
      BY LoopFields
    <2> QED BY <1>2, <1>4, <2>1, <2>2, OlderKeeps
  <1>10. UnbornNeverRan'
    BY <1>4, OlderKeeps DEF Ticks, UnbornNeverRan
  <1>11. RunsAreMarked'
    <2> SUFFICES ASSUME NEW r \in Searches, Stored(r), r \notin cut, ~ torn,
                        ~ (search'[r].age <= ranAge'[r])
                 PROVE  \E p \in Replicas : loop[p].now = r /\ Launched(p)
      BY <1>1, <1>2, <1>4, <1>6 DEF RunsAreMarked, Stored
    <2>1. ~ (search[r].age <= ranAge[r])
      BY <1>4, OlderKeeps
    <2> QED BY <2>1 DEF Ticks, RunsAreMarked
  <1>12. LaunchedOncePerInterval'
    <2> SUFFICES ASSUME ~ torn, NEW p \in Replicas, NEW r \in Planned(p), r \notin cut
                 PROVE  ranAge'[r] >= Interval
      BY <1>1, <1>6 DEF LaunchedOncePerInterval
    <2>1. ranAge[r] >= Interval /\ r \in Searches
      BY <1>6 DEF Ticks, LaunchedOncePerInterval
    <2> QED BY <1>4, <2>1, OlderKeeps
  <1> QED BY <1>1, <1>3, <1>5, <1>7, <1>8, <1>9, <1>10, <1>11, <1>12 DEF Ticks, TypeOK

\* The steps of the users and of the day leave the loops as they are.
LEMMA UserTicks ==
    ASSUME TypeOK, Ticks, User \/ (\E u \in Users : Forget(u))
    PROVE  TypeOK' /\ Ticks'
  <1>1. UNCHANGED <<lock, loop, torn, faults>>
    BY DEF User, Launch, Create, InsertJob, GiveUp, InsertSearch, Delete, Forget
  <1>2. /\ LoopsShaped' /\ LockCounts' /\ LeaderHoldsLock'
        /\ \A p \in Replicas : Listed(p)' = Listed(p) /\ Planned(p)' = Planned(p)
                               /\ Launched(p)' = Launched(p)
    BY <1>1 DEF Ticks, LoopsShaped, LockCounts, LeaderHoldsLock, At, Listed, Planned, Launched
  <1>3. CASE UNCHANGED <<search, ranAge, cut>>
    <2>1. Ticks'
      BY <1>1, <1>2, <1>3 DEF Ticks, NoLaterLaunch, UnbornNeverRan, RunsAreMarked, Stored,
                              LaunchedOncePerInterval
    <2> DEFINE kept == requests' \in [Requests -> Request \cup {Idle}] /\ used' \in [Users -> Nat]
    <2>2. kept
      <3>1. ASSUME NEW s \in Requests, NEW u \in Users, Launch(s, u) \/ Create(s, u)
            PROVE  kept
        BY <3>1 DEF Launch, Create, Request, TypeOK
      <3>2. ASSUME NEW s \in Requests, InsertJob(s) \/ GiveUp(s)
            PROVE  kept
        <4>1. requests' \in [Requests -> Request \cup {Idle}]
          BY <3>2 DEF InsertJob, GiveUp, TypeOK
        <4>2. used' \in [Users -> Nat]
          BY <3>2 DEF InsertJob, GiveUp, TypeOK, Request, Idle
        <4> QED BY <4>1, <4>2
      <3>3. ASSUME NEW s \in Requests, NEW r \in Searches, InsertSearch(s, r)
            PROVE  kept
        BY <3>3 DEF InsertSearch, TypeOK
      <3>4. ASSUME NEW r \in Searches, Delete(r)
            PROVE  kept
        BY <3>4 DEF Delete, TypeOK
      <3>5. ASSUME NEW u \in Users, Forget(u)
            PROVE  kept
        BY <3>5 DEF Forget, TypeOK
      <3> QED BY <3>1, <3>2, <3>3, <3>4, <3>5 DEF User
    <2> QED BY <1>1, <1>3, <2>1, <2>2 DEF TypeOK
  <1>4. ASSUME NEW s \in Requests, NEW r \in Searches, InsertSearch(s, r)
        PROVE  TypeOK' /\ Ticks'
    <2>1. /\ requests[s].op = "create" /\ search[r].state = "none"
          /\ search' = [search EXCEPT ![r] = NewSearch(requests[s].user)]
          /\ requests' = [requests EXCEPT ![s] = Idle]
          /\ UNCHANGED <<used, ranAge, cut>>
      BY <1>4 DEF InsertSearch
    <2>2. requests[s].user \in Users
      BY <2>1 DEF TypeOK, Request, Idle
    <2>3. /\ NewSearch(requests[s].user) \in Row
          /\ NewSearch(requests[s].user).age = Interval
          /\ NewSearch(requests[s].user).state = "stored"
      BY <2>2, AgesAreNat DEF NewSearch, Row
    <2>4. /\ search' \in [Searches -> Row] /\ search'[r].age = Interval
          /\ search'[r].state = "stored"
          /\ \A o \in Searches : o # r => search'[o] = search[o]
      BY <2>1, <2>3 DEF TypeOK
    <2>5. ranAge[r] = Interval /\ Interval <= Interval
      BY <2>1, SchedulerAssumption DEF Ticks, UnbornNeverRan
    <2>6. NoLaterLaunch' /\ LaunchedOncePerInterval'
      BY <1>1, <1>2, <2>1 DEF Ticks, NoLaterLaunch, LaunchedOncePerInterval
    <2>7. UnbornNeverRan' /\ RunsAreMarked'
      BY <1>1, <1>2, <2>1, <2>4, <2>5 DEF Ticks, UnbornNeverRan, RunsAreMarked, Stored
    <2> QED BY <1>1, <1>2, <2>1, <2>4, <2>6, <2>7 DEF Ticks, TypeOK
  <1>5. ASSUME NEW r \in Searches, Delete(r)
        PROVE  TypeOK' /\ Ticks'
    <2>1. /\ search' = [search EXCEPT ![r].state = "deleted", ![r].age = Interval]
          /\ ranAge' = [ranAge EXCEPT ![r] = Interval]
          /\ cut' = cut \ {r}
          /\ UNCHANGED <<used, requests>>
      BY <1>5 DEF Delete
    <2>2. /\ search' \in [Searches -> Row] /\ search'[r].state = "deleted"
          /\ \A o \in Searches : o # r => search'[o] = search[o]
      BY <2>1, AgesAreNat DEF TypeOK, Row
    <2>3. /\ ranAge' \in [Searches -> Ages] /\ ranAge'[r] = Interval
          /\ \A o \in Searches : o # r => ranAge'[o] = ranAge[o]
      BY <2>1, AgesAreNat DEF TypeOK
    <2>4. NoLaterLaunch'
      <3> SUFFICES ASSUME ~ torn, NEW p \in Replicas, NEW o \in Listed(p)
                   PROVE  loop[p].age <= ranAge'[o]
        BY <1>1, <1>2 DEF NoLaterLaunch
      <3>1. o \in Searches /\ loop[p].age <= ranAge[o] /\ loop[p].age \in 0..Interval
        BY LoopFields DEF Ticks, NoLaterLaunch, Listed, Ages
      <3> QED BY <2>3, <3>1, SchedulerAssumption
    <2>5. LaunchedOncePerInterval'
      <3> SUFFICES ASSUME ~ torn, NEW p \in Replicas, NEW o \in Planned(p), o \notin cut'
                   PROVE  ranAge'[o] >= Interval
        BY <1>1, <1>2 DEF LaunchedOncePerInterval
      <3>1. o \in Searches
        BY LoopFields DEF Planned
      <3> QED BY <2>1, <2>3, <3>1, SchedulerAssumption DEF Ticks, LaunchedOncePerInterval
    <2>6. UnbornNeverRan' /\ RunsAreMarked'
      BY <1>1, <1>2, <2>1, <2>2, <2>3 DEF Ticks, UnbornNeverRan, RunsAreMarked, Stored
    <2>7. cut' \subseteq Searches
      BY <2>1 DEF TypeOK
    <2> QED BY <1>1, <1>2, <2>1, <2>2, <2>3, <2>4, <2>5, <2>6, <2>7 DEF Ticks, TypeOK
  <1>6. \/ UNCHANGED <<search, ranAge, cut>>
        \/ \E s \in Requests, r \in Searches : InsertSearch(s, r)
        \/ \E r \in Searches : Delete(r)
    BY DEF User, Launch, Create, InsertJob, GiveUp, Forget
  <1> QED BY <1>3, <1>4, <1>5, <1>6

-----------------------------------------------------------------------------
LEMMA InitTicks == Init => TypeOK /\ Ticks
  <1> SUFFICES ASSUME Init PROVE TypeOK /\ Ticks
    OBVIOUS
  <1>1. TypeOK
    <2>1. search \in [Searches -> Row]
      BY AgesAreNat DEF Init, Row
    <2>2. lock \in [holder: Sessions \cup {<<>>}, times: Nat]
      BY UnlockedFields DEF Init
    <2>3. loop \in [Replicas -> Loop] /\ ranAge \in [Searches -> Ages]
      BY RestingFields, AgesAreNat DEF Init
    <2>4. faults \in 0..MaxFaults /\ used \in [Users -> Nat]
          /\ requests \in [Requests -> Request \cup {Idle}]
      BY SchedulerAssumption DEF Init
    <2> QED BY <2>1, <2>2, <2>3, <2>4 DEF Init, TypeOK
  <1>2. \A p \in Replicas : loop[p] = Resting /\ Listed(p) = {} /\ Planned(p) = {}
    BY RestingFields DEF Init, Listed, Planned
  <1>3. LoopsShaped
    BY <1>2, RestingFields, SchedulerAssumption DEF LoopsShaped, At, Working
  <1>4. LeaderHoldsLock /\ LockCounts
    BY <1>2, RestingFields, UnlockedFields DEF Init, LeaderHoldsLock, LockCounts, At
  <1>5. NoLaterLaunch /\ LaunchedOncePerInterval
    BY <1>2 DEF NoLaterLaunch, LaunchedOncePerInterval
  <1>6. UnbornNeverRan /\ RunsAreMarked
    BY DEF Init, UnbornNeverRan, RunsAreMarked, Stored
  <1> QED BY <1>1, <1>3, <1>4, <1>5, <1>6 DEF Ticks

LEMMA NextTicks == TypeOK /\ Ticks /\ [Next]_vars => TypeOK' /\ Ticks'
  <1> SUFFICES ASSUME TypeOK, Ticks, [Next]_vars
               PROVE  TypeOK' /\ Ticks'
    OBVIOUS
  <1>1. CASE User \/ \E u \in Users : Forget(u)
    BY <1>1, UserTicks
  <1>2. ASSUME NEW p \in Replicas, Lead(p)
        PROVE  TypeOK' /\ Ticks'
    BY <1>2, AcquireTicks DEF Lead
  <1>3. ASSUME NEW p \in Replicas, Tick(p)
        PROVE  TypeOK' /\ Ticks'
    BY <1>3, ListDueTicks, TakeTicks, ListDoneTicks, CountUsedTicks, InsertRunTicks,
       MarkRanTicks, ReleaseTicks DEF Tick
  <1>4. CASE Pass
    BY <1>4, PassTicks
  <1>5. CASE Faulty
    BY <1>5, ErrorTicks, UnlockFailedTicks, CrashTicks, LoseSessionTicks DEF Faulty
  <1>6. CASE UNCHANGED vars
    BY <1>6 DEF vars, TypeOK, Ticks, LoopsShaped, LockCounts, LeaderHoldsLock, NoLaterLaunch,
                UnbornNeverRan, RunsAreMarked, LaunchedOncePerInterval, At, Listed, Planned,
                Launched, Stored
  <1> QED BY <1>1, <1>2, <1>3, <1>4, <1>5, <1>6 DEF Next

LEMMA TicksHold == Spec => [](TypeOK /\ Ticks)
  BY InitTicks, NextTicks, PTL DEF Spec

\* Every variable is of its kind.
THEOREM SchedulerTypes == Spec => []TypeOK
  BY TicksHold, PTL

\* What the scheduler launched is marked as ran, but for the faults the
\* property names.
THEOREM SchedulerMarks == Spec => []RunsAreMarked
  <1>1. Ticks => RunsAreMarked
    BY DEF Ticks
  <1> QED BY <1>1, TicksHold, PTL

\* However many replicas there are, the advisory lock keeps them from
\* launching a search twice in an interval.
THEOREM SchedulerLaunchesOnce == Spec => []LaunchedOncePerInterval
  <1>1. Ticks => LaunchedOncePerInterval
    BY DEF Ticks
  <1> QED BY <1>1, TicksHold, PTL

-----------------------------------------------------------------------------
(***************************************************************************)
(* The quota.                                                              *)
(***************************************************************************)
LEMMA MovesPlace ==
    ASSUME TypeOK, NEW p \in Replicas,
           NEW pc, NEW session, NEW todo, NEW now, NEW age,
           Moves(p, pc, session, todo, now, age)
    PROVE  /\ loop'[p].pc = pc /\ loop'[p].now = now
           /\ \A q \in Replicas : q # p => loop'[q] = loop[q]
  BY DEF Moves, TypeOK

LEMMA StepPlaces ==
    ASSUME TypeOK, NEW p \in Replicas, NEW pc \in Steps,
           loop' = [loop EXCEPT ![p].pc = pc]
    PROVE  /\ loop'[p].pc = pc /\ loop'[p].now = loop[p].now
           /\ \A q \in Replicas : q # p => loop'[q] = loop[q]
  <1>1. Moves(p, pc, loop[p].session, loop[p].todo, loop[p].now, loop[p].age)
    BY StepMoves
  <1> QED BY <1>1, MovesPlace

LEMMA OwnersStay ==
    ASSUME TypeOK, Ticks, [Next]_vars
    PROVE  \A r \in Searches : search'[r].owner = search[r].owner
  <1>1. ASSUME NEW p \in Replicas, MarkRan(p)
        PROVE  \A r \in Searches : search'[r].owner = search[r].owner
    BY <1>1 DEF MarkRan, Ran, TypeOK, Row
  <1>2. CASE Pass
    BY <1>2 DEF Pass, TypeOK, Row
  <1>3. ASSUME NEW s \in Requests, NEW r \in Searches, InsertSearch(s, r)
        PROVE  \A o \in Searches : search'[o].owner = search[o].owner
    BY <1>3 DEF InsertSearch, NewSearch, TypeOK, Row
  <1>4. ASSUME NEW r \in Searches, Delete(r)
        PROVE  \A o \in Searches : search'[o].owner = search[o].owner
    BY <1>4 DEF Delete, TypeOK, Row
  <1>5. CASE UNCHANGED search
    BY <1>5
  <1>6. \/ UNCHANGED search
        \/ \E p \in Replicas : MarkRan(p)
        \/ Pass
        \/ \E s \in Requests, r \in Searches : InsertSearch(s, r)
        \/ \E r \in Searches : Delete(r)
    BY DEF Next, vars, User, Lead, Tick, Faulty, Launch, Create, InsertJob, GiveUp, Acquire,
           ListDue, Take, ListDone, CountUsed, InsertRun, DispatchRun, FailRun, Release,
           Forget, Error, UnlockFailed, Crash, LoseSession
  <1> QED BY <1>1, <1>2, <1>3, <1>4, <1>5, <1>6

\* A loop comes to its insert from its count, with the same search.
LEMMA InsertFromCount ==
    ASSUME TypeOK, Ticks, NEW p \in Replicas,
           Lead(p) \/ Tick(p) \/ Error(p) \/ UnlockFailed(p) \/ Crash(p),
           ~ CountUsed(p)
    PROVE  /\ loop'[p].pc # "insert"
           /\ \A q \in Replicas : q # p => loop'[q] = loop[q]
  <1>1. ASSUME NEW n \in 1..PoolSize, Acquire(p, n)
        PROVE  Moves(p, "list", <<p, n>>, {}, "none", 0)
    BY <1>1, AcquireMoves DEF Ticks
  <1>2. ASSUME NEW r \in Searches, Take(p, r)
        PROVE  Moves(p, "count", loop[p].session, loop[p].todo \ {r}, r, loop[p].age)
    BY <1>2, TakeMoves DEF Ticks
  <1>3. CASE ListDue(p) \/ ListDone(p) \/ MarkRan(p)
    BY <1>3, ListDueMoves, ListDoneMoves, MarkRanMoves, MovesPlace DEF Ticks
  <1>4. CASE InsertRun(p) /\ Stored(loop[p].now)
    <2>1. loop' = [loop EXCEPT ![p].pc = "dispatch"]
      BY <1>4 DEF InsertRun
    <2> QED BY <2>1, StepPlaces DEF Steps
  <1>5. CASE DispatchRun(p) \/ FailRun(p)
    <2>1. \E pc \in {"mark", "fail"} : loop' = [loop EXCEPT ![p].pc = pc]
      BY <1>5 DEF DispatchRun, FailRun
    <2> QED BY <2>1, StepPlaces DEF Steps
  <1>6. CASE Drop(p, Dropped(p))
    BY <1>6, DropMoves, MovesPlace DEF Ticks
  <1>7. CASE loop' = [loop EXCEPT ![p] = Resting]
    BY <1>7, RestingFields DEF TypeOK
  <1>8. Lead(p) => \E n \in 1..PoolSize : Acquire(p, n)
    BY DEF Lead
  <1>9. Tick(p) => \/ \E r \in Searches : Take(p, r)
                   \/ ListDue(p) \/ ListDone(p) \/ MarkRan(p)
                   \/ InsertRun(p) /\ Stored(loop[p].now)
                   \/ DispatchRun(p) \/ FailRun(p)
                   \/ Drop(p, Dropped(p))
                   \/ loop' = [loop EXCEPT ![p] = Resting]
    BY DEF Tick, InsertRun, Release
  <1>10. /\ Error(p) => Drop(p, Dropped(p))
         /\ UnlockFailed(p) \/ Crash(p) => loop' = [loop EXCEPT ![p] = Resting]
    BY DEF Error, UnlockFailed, Crash, Drop
  <1> QED BY <1>1, <1>2, <1>3, <1>4, <1>5, <1>6, <1>7, <1>8, <1>9, <1>10, MovesPlace

LEMMA CountsAreNat ==
    /\ Cardinality(Requests) \in Nat /\ Cardinality(Replicas) \in Nat
    /\ \A S \in SUBSET Requests : /\ IsFiniteSet(S) /\ Cardinality(S) \in Nat
                                  /\ Cardinality(S) <= Cardinality(Requests)
    /\ \A S \in SUBSET Replicas : /\ IsFiniteSet(S) /\ Cardinality(S) \in Nat
                                  /\ Cardinality(S) <= Cardinality(Replicas)
    /\ \A S \in SUBSET Searches : IsFiniteSet(S) /\ Cardinality(S) \in Nat
  BY SchedulerAssumption, FS_Subset, FS_CardinalityType

LEMMA ClaimsAreSets ==
    ASSUME NEW u \in Users
    PROVE  /\ Launching(u) \in SUBSET Requests /\ Launching(u)' \in SUBSET Requests
           /\ Inserting(u) \in SUBSET Replicas /\ Inserting(u)' \in SUBSET Replicas
           /\ Creating(u) \in SUBSET Requests /\ Creating(u)' \in SUBSET Requests
           /\ OwnedBy(u) \in SUBSET Searches /\ OwnedBy(u)' \in SUBSET Searches
  BY DEF Launching, Inserting, Creating, OwnedBy

\* The claims of u on the quota.
Claims(u) == used[u] + Cardinality(Launching(u)) + Cardinality(Inserting(u))

Room == Quota + Cardinality(Requests) + Cardinality(Replicas)

\* They have no more to do with a step than to shrink, ...
LEMMA ClaimsShrink ==
    ASSUME TypeOK, TypeOK', NEW u \in Users, Claims(u) < Room,
           used'[u] <= used[u],
           Launching(u)' \subseteq Launching(u), Inserting(u)' \subseteq Inserting(u)
    PROVE  Claims(u)' < Room
  <1> DEFINE L == Cardinality(Launching(u))  L1 == Cardinality(Launching(u)')
             I == Cardinality(Inserting(u))  I1 == Cardinality(Inserting(u)')
  <1>1. L \in Nat /\ L1 \in Nat /\ I \in Nat /\ I1 \in Nat /\ Room \in Int
    BY CountsAreNat, ClaimsAreSets, SchedulerAssumption DEF Room
  <1>2. L1 <= L /\ I1 <= I
    BY CountsAreNat, ClaimsAreSets, FS_Subset
  <1>3. used[u] \in Nat /\ used'[u] \in Nat
    BY DEF TypeOK
  <1>4. used[u] + L + I < Room
    BY DEF Claims
  <1>5. Claims(u)' = used'[u] + L1 + I1
    BY DEF Claims
  <1> HIDE DEF L, L1, I, I1
  <1> QED BY <1>1, <1>2, <1>3, <1>4, <1>5

\* ... to be made while there is room, ...
LEMMA ClaimsFit ==
    ASSUME TypeOK', NEW u \in Users, used'[u] < Quota
    PROVE  Claims(u)' < Room
  <1> DEFINE L1 == Cardinality(Launching(u)')
             I1 == Cardinality(Inserting(u)')
  <1>1. /\ L1 \in Nat /\ L1 <= Cardinality(Requests)
        /\ I1 \in Nat /\ I1 <= Cardinality(Replicas)
    BY CountsAreNat, ClaimsAreSets
  <1>2. used'[u] \in Nat /\ Quota \in Nat
    BY SchedulerAssumption DEF TypeOK
  <1>3. Claims(u)' = used'[u] + L1 + I1
    BY DEF Claims
  <1> HIDE DEF L1, I1
  <1> QED BY <1>1, <1>2, <1>3, CountsAreNat DEF Room

\* ... or to become a job each.
LEMMA ClaimsTurn ==
    ASSUME TypeOK, TypeOK', NEW u \in Users, Claims(u) < Room,
           used'[u] = used[u] + 1,
           \/ /\ \E s \in Launching(u) : Launching(u)' = Launching(u) \ {s}
              /\ Inserting(u)' = Inserting(u)
           \/ /\ \E p \in Inserting(u) : Inserting(u)' = Inserting(u) \ {p}
              /\ Launching(u)' = Launching(u)
    PROVE  Claims(u)' < Room
  <1> DEFINE L == Cardinality(Launching(u))  L1 == Cardinality(Launching(u)')
             I == Cardinality(Inserting(u))  I1 == Cardinality(Inserting(u)')
  <1>1. L \in Nat /\ L1 \in Nat /\ I \in Nat /\ I1 \in Nat /\ Room \in Int
    BY CountsAreNat, ClaimsAreSets, SchedulerAssumption DEF Room
  <1>2. IsFiniteSet(Launching(u)) /\ IsFiniteSet(Inserting(u))
    BY CountsAreNat, ClaimsAreSets
  <1>3. L1 + I1 = L + I - 1
    <2>1. CASE \E s \in Launching(u) : Launching(u)' = Launching(u) \ {s}
      <3>1. L1 = L - 1
        BY <1>2, <2>1, FS_RemoveElement
      <3>2. CASE Inserting(u)' = Inserting(u)
        BY <1>1, <3>1, <3>2
      <3>3. CASE Launching(u)' = Launching(u)
        BY <2>1, <3>3
      <3> QED BY <3>2, <3>3
    <2>2. CASE \E p \in Inserting(u) : Inserting(u)' = Inserting(u) \ {p}
      <3>1. I1 = I - 1
        BY <1>2, <2>2, FS_RemoveElement
      <3>2. CASE Launching(u)' = Launching(u)
        BY <1>1, <3>1, <3>2
      <3>3. CASE Inserting(u)' = Inserting(u)
        BY <2>2, <3>3
      <3> QED BY <3>2, <3>3
    <2> QED BY <2>1, <2>2
  <1>4. used[u] \in Nat
    BY DEF TypeOK
  <1>5. used[u] + L + I < Room /\ Claims(u)' = used'[u] + L1 + I1
    BY DEF Claims
  <1> HIDE DEF L, L1, I, I1
  <1> QED BY <1>1, <1>3, <1>4, <1>5

LEMMA QuotaStep ==
    ASSUME TypeOK, TypeOK', Ticks, QuotaInv, [Next]_vars
    PROVE  QuotaInv'
  <1> SUFFICES ASSUME NEW u \in Users
               PROVE  Claims(u)' < Room
    BY DEF QuotaInv, Claims, Room
  <1>1. Claims(u) < Room
    BY DEF QuotaInv, Claims, Room
  <1>2. \A r \in Searches : search'[r].owner = search[r].owner
    BY OwnersStay
  <1>3. \A p \in Replicas : loop[p].pc = "insert" => loop[p].now \in Searches
    BY DEF Ticks, LoopsShaped, Working
  <1>4. ASSUME UNCHANGED loop
        PROVE  Inserting(u)' = Inserting(u)
    BY <1>2, <1>3, <1>4 DEF Inserting, At
  <1>5. ASSUME UNCHANGED requests
        PROVE  Launching(u)' = Launching(u)
    BY <1>5 DEF Launching
  <1>6. ASSUME NEW p \in Replicas, loop'[p].pc # "insert",
               \A q \in Replicas : q # p => loop'[q] = loop[q]
        PROVE  Inserting(u)' = Inserting(u) \ {p}
    BY <1>2, <1>3, <1>6 DEF Inserting, At
  <1>7. ASSUME NEW s \in Requests, NEW v \in Users, Launch(s, v) \/ Create(s, v)
        PROVE  Claims(u)' < Room
    <2>1. UNCHANGED <<used, loop>>
      BY <1>7 DEF Launch, Create
    <2>2. CASE Launch(s, v) /\ v = u
      BY <2>1, <2>2, ClaimsFit DEF Launch, UnderQuota, UsedToday
    <2>3. CASE Create(s, v) \/ v # u
      <3>1. Launching(u)' \subseteq Launching(u)
        BY <1>7, <2>3 DEF Launch, Create, Launching, TypeOK
      <3>2. used'[u] = used[u] /\ used[u] \in Nat
        BY <2>1 DEF TypeOK
      <3> QED BY <1>1, <1>4, <2>1, <3>1, <3>2, ClaimsShrink
    <2> QED BY <1>7, <2>2, <2>3
  <1>8. ASSUME NEW s \in Requests, InsertJob(s)
        PROVE  Claims(u)' < Room
    <2>1. /\ requests[s].op = "launch" /\ requests[s].user \in Users
          /\ used' = [used EXCEPT ![requests[s].user] = @ + 1]
          /\ requests' = [requests EXCEPT ![s] = Idle]
          /\ UNCHANGED loop
      BY <1>8 DEF InsertJob, TypeOK, Request, Idle
    <2>2. Launching(u)' = Launching(u) \ {s}
      BY <2>1 DEF Launching, TypeOK, Idle
    <2>3. CASE requests[s].user = u
      <3>1. s \in Launching(u) /\ used'[u] = used[u] + 1
        BY <2>1, <2>3 DEF Launching, TypeOK
      <3> QED BY <1>1, <1>4, <2>1, <2>2, <3>1, ClaimsTurn
    <2>4. CASE requests[s].user # u
      <3>1. used'[u] = used[u] /\ used[u] \in Nat
        BY <2>1, <2>4 DEF TypeOK
      <3> QED BY <1>1, <1>4, <2>1, <2>2, <3>1, ClaimsShrink
    <2> QED BY <2>3, <2>4
  <1>9. ASSUME NEW s \in Requests, GiveUp(s) \/ \E r \in Searches : InsertSearch(s, r)
        PROVE  Claims(u)' < Room
    <2>1. requests' = [requests EXCEPT ![s] = Idle] /\ UNCHANGED <<used, loop>>
      BY <1>9 DEF GiveUp, InsertSearch
    <2>2. Launching(u)' \subseteq Launching(u)
      BY <2>1 DEF Launching, TypeOK, Idle
    <2>3. used'[u] = used[u] /\ used[u] \in Nat
      BY <2>1 DEF TypeOK
    <2> QED BY <1>1, <1>4, <2>1, <2>2, <2>3, ClaimsShrink
  <1>10. ASSUME UNCHANGED <<requests, loop>>, used'[u] <= used[u]
         PROVE  Claims(u)' < Room
    BY <1>1, <1>4, <1>5, <1>10, ClaimsShrink
  <1>11. ASSUME NEW p \in Replicas, CountUsed(p)
         PROVE  Claims(u)' < Room
    <2>1. UNCHANGED <<used, requests, search>> /\ loop[p].pc = "count"
      BY <1>11 DEF CountUsed, At
    <2>2. loop[p].now \in Searches
      BY <2>1 DEF Ticks, LoopsShaped, Working
    <2>3. PICK pc \in {"insert", "mark"} :
             /\ loop' = [loop EXCEPT ![p].pc = pc]
             /\ pc = "insert" <=> UnderQuota(search[loop[p].now].owner)
      BY <1>11 DEF CountUsed
    <2>4. /\ loop'[p].pc = pc /\ loop'[p].now = loop[p].now
          /\ \A q \in Replicas : q # p => loop'[q] = loop[q]
      BY <2>3, StepPlaces DEF Steps
    <2>5. CASE pc = "insert" /\ search[loop[p].now].owner = u
      BY <2>1, <2>3, <2>5, ClaimsFit DEF UnderQuota, UsedToday
    <2>6. CASE ~ (pc = "insert" /\ search[loop[p].now].owner = u)
      <3>1. Inserting(u)' \subseteq Inserting(u)
        BY <2>1, <2>4, <2>6 DEF Inserting, At
      <3>2. used'[u] = used[u] /\ used[u] \in Nat
        BY <2>1 DEF TypeOK
      <3> QED BY <1>1, <1>5, <2>1, <3>1, <3>2, ClaimsShrink
    <2> QED BY <2>5, <2>6
  <1>12. ASSUME NEW p \in Replicas,
                Lead(p) \/ Tick(p) \/ Error(p) \/ UnlockFailed(p) \/ Crash(p), ~ CountUsed(p)
         PROVE  Claims(u)' < Room
    <2>1. Inserting(u)' = Inserting(u) \ {p} /\ UNCHANGED requests
      <3>1. UNCHANGED requests
        BY <1>12 DEF Lead, Acquire, Tick, ListDue, Take, ListDone, InsertRun, DispatchRun,
                     FailRun, MarkRan, Release, Error, UnlockFailed, Crash
      <3> QED BY <1>6, <1>12, <3>1, InsertFromCount
    <2>2. CASE InsertRun(p) /\ Stored(loop[p].now) /\ search[loop[p].now].owner = u
      <3>1. p \in Inserting(u) /\ used'[u] = used[u] + 1
        BY <2>2 DEF InsertRun, Inserting, TypeOK
      <3> QED BY <1>1, <1>5, <2>1, <3>1, ClaimsTurn
    <2>3. CASE ~ (InsertRun(p) /\ Stored(loop[p].now) /\ search[loop[p].now].owner = u)
      <3>1. used'[u] = used[u]
        <4>1. CASE InsertRun(p)
          BY <2>3, <4>1 DEF InsertRun, TypeOK
        <4>2. CASE ~ InsertRun(p)
          BY <1>12, <4>2 DEF Lead, Acquire, Tick, ListDue, Take, ListDone, DispatchRun,
                             FailRun, MarkRan, Release, Error, UnlockFailed, Crash
        <4> QED BY <4>1, <4>2
      <3>2. used[u] \in Nat
        BY DEF TypeOK
      <3> QED BY <1>1, <1>5, <2>1, <3>1, <3>2, ClaimsShrink
    <2> QED BY <2>2, <2>3
  <1>13. CASE Pass
    <2>1. ASSUME NEW p \in Replicas
          PROVE  loop'[p].pc = loop[p].pc /\ loop'[p].now = loop[p].now
      BY <1>13, LoopFields DEF Pass, At, Loop, TypeOK
    <2>2. Inserting(u)' = Inserting(u)
      BY <1>2, <1>3, <2>1 DEF Inserting, At
    <2>3. used'[u] = used[u] /\ used[u] \in Nat /\ UNCHANGED requests
      BY <1>13 DEF Pass, TypeOK
    <2> QED BY <1>1, <1>5, <2>2, <2>3, ClaimsShrink
  <1>14. \A v \in Users : Forget(v) => UNCHANGED <<requests, loop>> /\ used'[u] <= used[u]
    BY DEF Forget, TypeOK
  <1>15. used[u] <= used[u]
    BY DEF TypeOK
  <1>16. LoseSession \/ (\E r \in Searches : Delete(r)) \/ UNCHANGED vars
            => UNCHANGED <<used, requests, loop>>
    BY DEF LoseSession, Delete, vars
  <1>17. \/ \E s \in Requests, v \in Users : Launch(s, v) \/ Create(s, v)
         \/ \E s \in Requests : InsertJob(s)
         \/ \E s \in Requests : GiveUp(s) \/ \E r \in Searches : InsertSearch(s, r)
         \/ \E r \in Searches : Delete(r)
         \/ \E p \in Replicas : Lead(p) \/ Tick(p) \/ Error(p) \/ UnlockFailed(p) \/ Crash(p)
         \/ Pass \/ (\E v \in Users : Forget(v)) \/ LoseSession \/ UNCHANGED vars
    BY DEF Next, User, Faulty
  <1> QED BY <1>7, <1>8, <1>9, <1>10, <1>11, <1>12, <1>13, <1>14, <1>15, <1>16, <1>17

LEMMA InitQuota == Init => QuotaInv
  <1> SUFFICES ASSUME Init, NEW u \in Users
               PROVE  used[u] + Cardinality(Launching(u)) + Cardinality(Inserting(u))
                         < Quota + Cardinality(Requests) + Cardinality(Replicas)
    BY DEF QuotaInv
  <1>1. Launching(u) = {} /\ Inserting(u) = {} /\ used[u] = 0
    BY RestingFields DEF Init, Launching, Inserting, Idle, At
  <1>2. Cardinality(Launching(u)) = 0 /\ Cardinality(Inserting(u)) = 0
    BY <1>1, FS_EmptySet
  <1> QED BY <1>1, <1>2, CountsAreNat, SchedulerAssumption

LEMMA QuotaInvBounds == TypeOK /\ QuotaInv => QuotaBounded
  <1> SUFFICES ASSUME TypeOK, QuotaInv, NEW u \in Users
               PROVE  used[u] < Quota + Cardinality(Requests) + Cardinality(Replicas)
    BY DEF QuotaBounded
  <1> DEFINE L == Cardinality(Launching(u))  I == Cardinality(Inserting(u))
  <1>1. L \in Nat /\ I \in Nat
    BY CountsAreNat, ClaimsAreSets
  <1>2. used[u] + L + I < Quota + Cardinality(Requests) + Cardinality(Replicas)
    BY DEF QuotaInv
  <1> HIDE DEF L, I
  <1> QED BY <1>1, <1>2, CountsAreNat, SchedulerAssumption DEF TypeOK

\* The quota is exceeded by at most one job for each request and each replica
\* that counts before another's insert.
THEOREM SchedulerBoundsQuota == Spec => []QuotaBounded
  <1>1. Init => QuotaInv
    BY InitQuota
  <1>2. TypeOK /\ Ticks /\ QuotaInv /\ (TypeOK /\ Ticks)' /\ [Next]_vars => QuotaInv'
    BY QuotaStep
  <1>3. TypeOK /\ QuotaInv => QuotaBounded
    BY QuotaInvBounds
  <1> QED BY <1>1, <1>2, <1>3, TicksHold, PTL DEF Spec

-----------------------------------------------------------------------------
(***************************************************************************)
(* The limit of recurring scans.                                           *)
(***************************************************************************)
Schedules(u) == Cardinality(OwnedBy(u)) + Cardinality(Creating(u))

LEMMA SchedulesShrink ==
    ASSUME NEW u \in Users, Schedules(u) < MaxPerUser + Cardinality(Requests),
           OwnedBy(u)' \subseteq OwnedBy(u), Creating(u)' \subseteq Creating(u)
    PROVE  Schedules(u)' < MaxPerUser + Cardinality(Requests)
  <1> DEFINE O == Cardinality(OwnedBy(u))  O1 == Cardinality(OwnedBy(u)')
             C == Cardinality(Creating(u)) C1 == Cardinality(Creating(u)')
  <1>1. O \in Nat /\ O1 \in Nat /\ C \in Nat /\ C1 \in Nat
    BY CountsAreNat, ClaimsAreSets
  <1>2. O1 <= O /\ C1 <= C
    BY CountsAreNat, ClaimsAreSets, FS_Subset
  <1>3. O + C < MaxPerUser + Cardinality(Requests) /\ Schedules(u)' = O1 + C1
    BY DEF Schedules
  <1> HIDE DEF O, O1, C, C1
  <1> QED BY <1>1, <1>2, <1>3, CountsAreNat, SchedulerAssumption

LEMMA LimitStep ==
    ASSUME TypeOK, Ticks, LimitInv, [Next]_vars
    PROVE  LimitInv'
  <1> SUFFICES ASSUME NEW u \in Users
               PROVE  Schedules(u)' < MaxPerUser + Cardinality(Requests)
    BY DEF LimitInv, Schedules
  <1>1. Schedules(u) < MaxPerUser + Cardinality(Requests)
    BY DEF LimitInv, Schedules
  <1>2. \A r \in Searches : search'[r].owner = search[r].owner
    BY OwnersStay
  <1>3. ASSUME \A r \in Searches : Stored(r)' => Stored(r)
        PROVE  OwnedBy(u)' \subseteq OwnedBy(u)
    BY <1>2, <1>3 DEF OwnedBy
  <1>4. ASSUME NEW s \in Requests, requests' = [requests EXCEPT ![s] = Idle]
        PROVE  Creating(u)' = Creating(u) \ {s}
    BY <1>4 DEF Creating, TypeOK, Idle
  <1>5. ASSUME NEW s \in Requests, NEW v \in Users, Launch(s, v) \/ Create(s, v)
        PROVE  Schedules(u)' < MaxPerUser + Cardinality(Requests)
    <2>1. UNCHANGED search
      BY <1>5 DEF Launch, Create
    <2>2. OwnedBy(u)' = OwnedBy(u)
      BY <2>1 DEF OwnedBy, Stored
    <2>3. CASE Create(s, v) /\ v = u
      <3> DEFINE O == Cardinality(OwnedBy(u)) C1 == Cardinality(Creating(u)')
      <3>1. O < MaxPerUser
        BY <2>3 DEF Create, UnderLimit
      <3>2. O \in Nat /\ C1 \in Nat /\ C1 <= Cardinality(Requests)
        BY CountsAreNat, ClaimsAreSets
      <3>3. Schedules(u)' = O + C1
        BY <2>2 DEF Schedules
      <3> HIDE DEF O, C1
      <3> QED BY <3>1, <3>2, <3>3, CountsAreNat, SchedulerAssumption
    <2>4. CASE Launch(s, v) \/ v # u
      <3>1. Creating(u)' \subseteq Creating(u)
        BY <1>5, <2>4 DEF Launch, Create, Creating, TypeOK
      <3> QED BY <1>1, <2>2, <3>1, SchedulesShrink
    <2> QED BY <1>5, <2>3, <2>4
  <1>6. ASSUME NEW s \in Requests, NEW r \in Searches, InsertSearch(s, r)
        PROVE  Schedules(u)' < MaxPerUser + Cardinality(Requests)
    <2>1. /\ requests[s].op = "create" /\ ~ Stored(r)
          /\ search[r].owner = requests[s].user
          /\ search' = [search EXCEPT ![r] = NewSearch(requests[s].user)]
          /\ requests' = [requests EXCEPT ![s] = Idle]
      BY <1>6 DEF InsertSearch, Stored
    <2>2. Creating(u)' = Creating(u) \ {s}
      BY <1>4, <2>1
    <2>3. \A o \in Searches : Stored(o)' <=> Stored(o) \/ o = r
      BY <2>1 DEF Stored, NewSearch, TypeOK
    <2>4. CASE search[r].owner = u
      <3> DEFINE O == Cardinality(OwnedBy(u))  O1 == Cardinality(OwnedBy(u)')
                 C == Cardinality(Creating(u)) C1 == Cardinality(Creating(u)')
      <3>1. OwnedBy(u)' = OwnedBy(u) \cup {r} /\ r \notin OwnedBy(u)
        BY <1>2, <2>1, <2>3, <2>4 DEF OwnedBy
      <3>2. s \in Creating(u)
        BY <2>1, <2>4 DEF Creating
      <3>3. IsFiniteSet(OwnedBy(u)) /\ IsFiniteSet(Creating(u)) /\ O \in Nat /\ C \in Nat
        BY CountsAreNat, ClaimsAreSets
      <3>4. O1 = O + 1
        BY <3>1, <3>3, FS_AddElement
      <3>5. C1 = C - 1
        BY <2>2, <3>2, <3>3, FS_RemoveElement
      <3>6. Schedules(u)' = O1 + C1 /\ Schedules(u) = O + C
        BY DEF Schedules
      <3>7. O1 + C1 = O + C
        BY <3>3, <3>4, <3>5
      <3> QED BY <1>1, <3>6, <3>7
    <2>5. CASE search[r].owner # u
      <3>1. OwnedBy(u)' \subseteq OwnedBy(u)
        BY <1>2, <2>3, <2>5 DEF OwnedBy
      <3> QED BY <1>1, <2>2, <3>1, SchedulesShrink
    <2> QED BY <2>4, <2>5
  <1>7. ASSUME NEW s \in Requests, InsertJob(s) \/ GiveUp(s)
        PROVE  Schedules(u)' < MaxPerUser + Cardinality(Requests)
    <2>1. UNCHANGED search /\ requests' = [requests EXCEPT ![s] = Idle]
      BY <1>7 DEF InsertJob, GiveUp
    <2>2. OwnedBy(u)' = OwnedBy(u)
      BY <2>1 DEF OwnedBy, Stored
    <2> QED BY <1>1, <1>4, <2>1, <2>2, SchedulesShrink
  <1>8. ASSUME UNCHANGED requests, \A r \in Searches : Stored(r)' => Stored(r)
        PROVE  Schedules(u)' < MaxPerUser + Cardinality(Requests)
    <2>1. Creating(u)' = Creating(u)
      BY <1>8 DEF Creating
    <2> QED BY <1>1, <1>3, <1>8, <2>1, SchedulesShrink
  <1>9. ASSUME NEW p \in Replicas, MarkRan(p)
        PROVE  UNCHANGED requests /\ \A r \in Searches : Stored(r)' => Stored(r)
    BY <1>9 DEF MarkRan, Ran, Stored, TypeOK
  <1>10. Pass => UNCHANGED requests /\ \A r \in Searches : Stored(r)' => Stored(r)
    BY DEF Pass, Stored, TypeOK, Row
  <1>11. ASSUME NEW r \in Searches, Delete(r)
         PROVE  UNCHANGED requests /\ \A o \in Searches : Stored(o)' => Stored(o)
    BY <1>11 DEF Delete, Stored, TypeOK, Row
  <1>12. ASSUME UNCHANGED search
         PROVE  \A r \in Searches : Stored(r)' => Stored(r)
    BY <1>12 DEF Stored
  <1>13. \/ \E s \in Requests, v \in Users : Launch(s, v) \/ Create(s, v)
         \/ \E s \in Requests, r \in Searches : InsertSearch(s, r)
         \/ \E s \in Requests : InsertJob(s) \/ GiveUp(s)
         \/ \E p \in Replicas : MarkRan(p)
         \/ Pass
         \/ \E r \in Searches : Delete(r)
         \/ UNCHANGED <<search, requests>>
    BY DEF Next, vars, User, Lead, Tick, Faulty, Acquire, ListDue, Take, ListDone, CountUsed,
           InsertRun, DispatchRun, FailRun, Release, Forget, Error, UnlockFailed, Crash,
           LoseSession
  <1> QED BY <1>5, <1>6, <1>7, <1>8, <1>9, <1>10, <1>11, <1>12, <1>13

LEMMA InitLimit == Init => LimitInv
  <1> SUFFICES ASSUME Init, NEW u \in Users
               PROVE  Cardinality(OwnedBy(u)) + Cardinality(Creating(u))
                         < MaxPerUser + Cardinality(Requests)
    BY DEF LimitInv
  <1>1. OwnedBy(u) = {} /\ Creating(u) = {}
    BY DEF Init, OwnedBy, Stored, Creating, Idle
  <1>2. Cardinality(OwnedBy(u)) = 0 /\ Cardinality(Creating(u)) = 0
    BY <1>1, FS_EmptySet
  <1> QED BY <1>2, CountsAreNat, SchedulerAssumption

LEMMA LimitInvBounds == LimitInv => SearchesBounded
  <1> SUFFICES ASSUME LimitInv, NEW u \in Users
               PROVE  Cardinality(OwnedBy(u)) < MaxPerUser + Cardinality(Requests)
    BY DEF SearchesBounded
  <1> DEFINE O == Cardinality(OwnedBy(u)) C == Cardinality(Creating(u))
  <1>1. O \in Nat /\ C \in Nat
    BY CountsAreNat, ClaimsAreSets
  <1>2. O + C < MaxPerUser + Cardinality(Requests)
    BY DEF LimitInv
  <1>3. O < MaxPerUser + Cardinality(Requests)
    <2> HIDE DEF O, C
    <2> QED BY <1>1, <1>2, CountsAreNat, SchedulerAssumption
  <1> QED BY <1>3

\* The limit of recurring scans is exceeded by at most the requests that list
\* them before another's insert.
THEOREM SchedulerBoundsSearches == Spec => []SearchesBounded
  <1>1. Init => LimitInv
    BY InitLimit
  <1>2. TypeOK /\ Ticks /\ LimitInv /\ [Next]_vars => LimitInv'
    BY LimitStep
  <1>3. LimitInv => SearchesBounded
    BY LimitInvBounds
  <1> QED BY <1>1, <1>2, <1>3, TicksHold, PTL DEF Spec
=============================================================================

------------------------ MODULE RecurringRunsProofs ------------------------
(***************************************************************************)
(* What the owner of a recurring scan is told and what the security events *)
(* say of its keys, for every number of runs, findings, tries, keys and    *)
(* requests.                                                               *)
(***************************************************************************)
EXTENDS RecurringRuns, FiniteSetTheorems, TLAPS

-----------------------------------------------------------------------------
(***************************************************************************)
(* The invariants.                                                         *)
(***************************************************************************)
\* The accesses of a delivery after its findings were stored.
Delivering == {"update", "lookup", "digest", "undelivered"}

\* A run that has no job yet has stored nothing, and what a delivery has
\* stored is what it found.
RunsShaped ==
    \A r \in Runs : /\ run[r].pc \in {"none", "insert"} => stored[r] = {}
                    /\ run[r].pc \in Delivering => stored[r] = run[r].found

\* Run q answers for approval a: it has told it, or has it and was silenced,
\* or is not over and is going to tell it, for its memory does not hold it.
AnswersFor(q, a) ==
    \/ <<q, a>> \in digests
    \/ a \in stored[q] /\ (q \in silent \/ (run[q].pc # "over" /\ a \notin run[q].seen))

Settled(a) == deleted \/ a \in dropped \/ \E q \in Runs : AnswersFor(q, a)

\* Whatever a run has stored or remembers, some run answers for.
TellInv == /\ RunsShaped
           /\ \A r \in Runs : \A a \in stored[r] \cup run[r].seen : Settled(a)

\* The keys whose connection has its event, now, later or never for a failure.
Audited == trail \cup missed \cup Unrecorded(KeyRequests)

\* A key that is stored, or was read from there, is one of them.
AuditInv == /\ credential.key # "none" => credential.key \in Audited
            /\ \A r \in Runs : run[r].key # "none" => run[r].key \in Audited

-----------------------------------------------------------------------------
(***************************************************************************)
(* Types.                                                                  *)
(***************************************************************************)
LEMMA RunFields ==
    ASSUME TypeOK, NEW r \in Runs
    PROVE  /\ run[r] \in Run
           /\ run[r].seen \in Findings /\ run[r].found \in Findings
           /\ run[r].key \in ApiKeys \cup {"none"} /\ run[r].known \in SUBSET Runs
           /\ stored[r] \in Findings
  BY DEF TypeOK, Run

LEMMA EndedFields ==
    /\ NotYet \in Run /\ Ended \in Run
    /\ NotYet.pc = "none" /\ NotYet.seen = {} /\ NotYet.key = "none"
    /\ Ended.pc = "over" /\ Ended.seen = {} /\ Ended.key = "none"
  <1>1. 0 \in 0..MaxTries
    BY RunsAssumption
  <1>2. {} \in Findings /\ {} \in SUBSET Runs
    BY DEF Findings
  <1>3. NotYet \in Run
    BY <1>1, <1>2, Zenon DEF NotYet, Run
  <1>4. Ended \in Run
    BY <1>3, Zenon DEF Ended, Run
  <1>5. /\ NotYet.pc = "none" /\ NotYet.seen = {} /\ NotYet.key = "none"
        /\ Ended.pc = "over" /\ Ended.seen = {} /\ Ended.key = "none"
    BY DEF NotYet, Ended
  <1> QED BY <1>3, <1>4, <1>5

LEMMA MemoryIsDelivered ==
    ASSUME TypeOK
    PROVE  /\ Delivered \in Findings /\ Memory \in Findings
           /\ \A a \in Memory : \E q \in Runs : a \in stored[q]
           /\ Over \in SUBSET Runs
  BY DEF TypeOK, Findings, Delivered, Memory, Over

Places == {"none", "insert", "key", "send", "queued", "paused", "store",
           "update", "lookup", "digest", "undelivered", "over"}

\* The records a move makes are runs.
LEMMA RunAt ==
    ASSUME NEW l \in Run, NEW pc \in Places
    PROVE  [l EXCEPT !.pc = pc] \in Run
  BY Zenon DEF Run, Places

LEMMA RunWithKey ==
    ASSUME NEW l \in Run, NEW pc \in Places, NEW key \in ApiKeys \cup {"none"}
    PROVE  [l EXCEPT !.pc = pc, !.key = key] \in Run
  BY Zenon DEF Run, Places

LEMMA RunFound ==
    ASSUME NEW l \in Run, NEW pc \in Places, NEW found \in Findings
    PROVE  [l EXCEPT !.pc = pc, !.found = found] \in Run
  BY Zenon DEF Run, Places

LEMMA RunRemembering ==
    ASSUME NEW l \in Run, NEW pc \in Places, NEW seen \in Findings, NEW known \in SUBSET Runs
    PROVE  [l EXCEPT !.pc = pc, !.seen = seen, !.known = known] \in Run
  BY Zenon DEF Run, Places

LEMMA RunAsking ==
    ASSUME NEW l \in Run, NEW pc \in Places, NEW seen \in Findings, NEW asked \in BOOLEAN
    PROVE  [l EXCEPT !.pc = pc, !.asked = asked, !.seen = seen] \in Run
  BY Zenon DEF Run, Places

LEMMA RunTried ==
    ASSUME NEW l \in Run, NEW pc \in Places, NEW found \in Findings, NEW tries \in 0..MaxTries
    PROVE  [l EXCEPT !.pc = pc, !.tries = tries, !.found = found] \in Run
  BY Zenon DEF Run, Places

\* A run moves: to pc, with this memory, these findings and this key.
Moves(r, pc, seen, found, key) ==
    \E l \in Run : /\ run' = [run EXCEPT ![r] = l]
                   /\ l.pc = pc /\ l.seen = seen /\ l.found = found /\ l.key = key

LEMMA LaunchMoves ==
    ASSUME TypeOK, NEW r \in Runs, Launch(r)
    PROVE  Moves(r, "insert", Memory, run[r].found, run[r].key)
  <1> DEFINE l == [run[r] EXCEPT !.pc = "insert", !.seen = Memory, !.known = Over]
  <1>1. run' = [run EXCEPT ![r] = l]
    BY DEF Launch, TypeOK
  <1>2. l \in Run
    BY RunFields, MemoryIsDelivered, RunRemembering DEF Places
  <1>3. l.pc = "insert" /\ l.seen = Memory /\ l.found = run[r].found /\ l.key = run[r].key
    BY RunFields DEF Run
  <1> QED BY ONLY <1>1, <1>2, <1>3 DEF Moves

LEMMA AnswerMoves ==
    ASSUME TypeOK, NEW r \in Runs, Answer(r)
    PROVE  Moves(r, "key", Memory, run[r].found, run[r].key)
  <1> DEFINE l == [run[r] EXCEPT !.pc = "key", !.seen = Memory, !.known = Over]
  <1>1. run' = [run EXCEPT ![r] = l]
    BY DEF Answer, TypeOK
  <1>2. l \in Run
    BY RunFields, MemoryIsDelivered, RunRemembering DEF Places
  <1>3. l.pc = "key" /\ l.seen = Memory /\ l.found = run[r].found /\ l.key = run[r].key
    BY RunFields DEF Run
  <1> QED BY ONLY <1>1, <1>2, <1>3 DEF Moves

LEMMA KeysToDispatch ==
    ASSUME TypeOK
    PROVE  \A k \in DispatchKeys : k \in ApiKeys \cup {"none"} /\ k \in {"none", credential.key}
  BY DEF TypeOK, KeysTypeOK, Credentials, DispatchKeys, Opens

LEMMA ReadKeyMoves ==
    ASSUME TypeOK, NEW r \in Runs, ReadKey(r)
    PROVE  \E k \in {"none", credential.key} : Moves(r, "send", run[r].seen, run[r].found, k)
  <1>1. PICK k \in DispatchKeys : run' = [run EXCEPT ![r].pc = "send", ![r].key = k]
    BY DEF ReadKey
  <1> DEFINE l == [run[r] EXCEPT !.pc = "send", !.key = k]
  <1>2. run' = [run EXCEPT ![r] = l]
    BY <1>1 DEF TypeOK
  <1>3. k \in ApiKeys \cup {"none"} /\ k \in {"none", credential.key}
    BY KeysToDispatch
  <1>4. l \in Run
    BY <1>3, RunFields, RunWithKey DEF Places
  <1>5. l.pc = "send" /\ l.seen = run[r].seen /\ l.found = run[r].found /\ l.key = k
    BY RunFields DEF Run
  <1>6. Moves(r, "send", run[r].seen, run[r].found, k)
    BY ONLY <1>2, <1>4, <1>5 DEF Moves
  <1> QED BY <1>3, <1>6

LEMMA ScanMoves ==
    ASSUME TypeOK, NEW r \in Runs, Scan(r)
    PROVE  \E found \in Findings : Moves(r, "store", run[r].seen, found, run[r].key)
  <1>1. PICK found \in Findings : run' = [run EXCEPT ![r].pc = "store", ![r].found = found]
    BY DEF Scan
  <1> DEFINE l == [run[r] EXCEPT !.pc = "store", !.found = found]
  <1>2. run' = [run EXCEPT ![r] = l]
    BY <1>1 DEF TypeOK
  <1>3. l \in Run
    BY RunFields, RunFound DEF Places
  <1>4. l.pc = "store" /\ l.seen = run[r].seen /\ l.found = found /\ l.key = run[r].key
    BY RunFields DEF Run
  <1> QED BY ONLY <1>1, <1>2, <1>3, <1>4 DEF Moves

LEMMA AskMoves ==
    ASSUME TypeOK, NEW r \in Runs, Ask(r)
    PROVE  Moves(r, "paused", {}, run[r].found, run[r].key)
  <1> DEFINE l == [run[r] EXCEPT !.pc = "paused", !.asked = TRUE, !.seen = {}]
  <1>1. run' = [run EXCEPT ![r] = l]
    BY DEF Ask, TypeOK
  <1>2. l \in Run
    <2>1. TRUE \in BOOLEAN /\ {} \in Findings
      BY DEF Findings
    <2> QED BY <2>1, RunFields, RunAsking DEF Places
  <1>3. l.pc = "paused" /\ l.seen = {} /\ l.found = run[r].found /\ l.key = run[r].key
    BY RunFields DEF Run
  <1> QED BY ONLY <1>1, <1>2, <1>3 DEF Moves

LEMMA AgainMoves ==
    ASSUME TypeOK, NEW r \in Runs, Again(r)
    PROVE  Moves(r, "queued", run[r].seen, {}, run[r].key)
  <1> DEFINE l == [run[r] EXCEPT !.pc = "queued", !.tries = run[r].tries + 1, !.found = {}]
  <1>1. run' = [run EXCEPT ![r] = l]
    BY DEF Again, TypeOK
  <1>2. run[r].tries + 1 \in 0..MaxTries
    <2>1. run[r].tries \in 0..MaxTries /\ run[r].tries < MaxTries
      BY RunFields DEF Again, Run
    <2> QED BY <2>1, RunsAssumption
  <1>3. {} \in Findings
    BY DEF Findings
  <1>4. l \in Run
    BY <1>2, <1>3, RunFields, RunTried DEF Places
  <1>5. l.pc = "queued" /\ l.seen = run[r].seen /\ l.found = {} /\ l.key = run[r].key
    BY RunFields DEF Run
  <1> QED BY ONLY <1>1, <1>4, <1>5 DEF Moves

LEMMA SentMoves ==
    ASSUME TypeOK, NEW r \in Runs, run' = [run EXCEPT ![r].pc = "queued", ![r].key = "none"]
    PROVE  Moves(r, "queued", run[r].seen, run[r].found, "none")
  <1> DEFINE l == [run[r] EXCEPT !.pc = "queued", !.key = "none"]
  <1>1. run' = [run EXCEPT ![r] = l]
    BY DEF TypeOK
  <1>2. l \in Run
    <2>1. "none" \in ApiKeys \cup {"none"}
      OBVIOUS
    <2> QED BY <2>1, RunFields, RunWithKey DEF Places
  <1>3. l.pc = "queued" /\ l.seen = run[r].seen /\ l.found = run[r].found /\ l.key = "none"
    BY RunFields DEF Run
  <1> QED BY ONLY <1>1, <1>2, <1>3 DEF Moves

LEMMA EndMoves ==
    ASSUME TypeOK, NEW r \in Runs, run' = [run EXCEPT ![r] = Ended]
    PROVE  Moves(r, "over", {}, Ended.found, "none")
  BY EndedFields, Zenon DEF Moves

LEMMA StepMoves ==
    ASSUME TypeOK, NEW r \in Runs, NEW from, NEW to \in Delivering \cup {"key", "over"},
           Step(r, from, to)
    PROVE  /\ run[r].pc = from
           /\ to = "over" => Moves(r, "over", {}, Ended.found, "none")
           /\ to # "over" => Moves(r, to, run[r].seen, run[r].found, run[r].key)
  <1>1. run[r].pc = from
    BY DEF Step, At
  <1>2. ASSUME to = "over"
        PROVE  Moves(r, "over", {}, Ended.found, "none")
    BY <1>2, EndMoves DEF Step
  <1>3. ASSUME to # "over"
        PROVE  Moves(r, to, run[r].seen, run[r].found, run[r].key)
    <2> DEFINE l == [run[r] EXCEPT !.pc = to]
    <2>1. run' = [run EXCEPT ![r] = l]
      BY <1>3 DEF Step
    <2>2. to \in {"key", "update", "lookup", "digest", "undelivered"}
      BY <1>3 DEF Delivering
    <2>3. l \in Run
      BY <2>2, RunFields, RunAt DEF Places
    <2>4. l.pc = to /\ l.seen = run[r].seen /\ l.found = run[r].found /\ l.key = run[r].key
      BY RunFields DEF Run
    <2> QED BY ONLY <2>1, <2>3, <2>4 DEF Moves
  <1> QED BY <1>1, <1>2, <1>3

LEMMA MovePlaces ==
    ASSUME TypeOK, NEW r \in Runs, NEW pc, NEW seen, NEW found, NEW key,
           Moves(r, pc, seen, found, key)
    PROVE  /\ run' \in [Runs -> Run]
           /\ run'[r].pc = pc /\ run'[r].seen = seen /\ run'[r].found = found
           /\ run'[r].key = key
           /\ \A q \in Runs : q # r => run'[q] = run[q]
  BY DEF Moves, TypeOK

-----------------------------------------------------------------------------
(***************************************************************************)
(* What is told.                                                           *)
(***************************************************************************)
LEMMA MoveTells ==
    ASSUME TypeOK, TellInv, NEW r \in Runs,
           NEW pc, NEW seen, NEW found, NEW key, Moves(r, pc, seen, found, key),
           deleted => deleted', digests \subseteq digests', silent \subseteq silent',
           dropped \subseteq dropped',
           \A q \in Runs : q # r => stored'[q] = stored[q],
           pc \in {"none", "insert"} => stored'[r] = {},
           pc \in Delivering => stored'[r] = found,
           \A a \in seen : a \in run[r].seen \/ \E q \in Runs : a \in stored[q],
           \A a \in stored'[r] : \/ a \in stored[r]
                                 \/ a \in seen /\ a \in run[r].seen
                                 \/ a \notin seen /\ pc # "over",
           \A a : AnswersFor(r, a) => \/ deleted' \/ a \in dropped'
                                      \/ <<r, a>> \in digests'
                                      \/ /\ a \in stored'[r]
                                         /\ r \in silent' \/ (pc # "over" /\ a \notin seen)
    PROVE  TellInv'
  <1>1. /\ run' \in [Runs -> Run]
        /\ run'[r].pc = pc /\ run'[r].seen = seen /\ run'[r].found = found
        /\ \A q \in Runs : q # r => run'[q] = run[q]
    BY MovePlaces
  <1>2. RunsShaped'
    <2> SUFFICES ASSUME NEW q \in Runs
                 PROVE  /\ run'[q].pc \in {"none", "insert"} => stored'[q] = {}
                        /\ run'[q].pc \in Delivering => stored'[q] = run'[q].found
      BY DEF RunsShaped
    <2>1. CASE q = r
      BY <1>1, <2>1
    <2>2. CASE q # r
      BY <1>1, <2>2 DEF TellInv, RunsShaped
    <2> QED BY <2>1, <2>2
  <1>3. ASSUME NEW a, Settled(a)
        PROVE  Settled(a)'
    <2>1. CASE \E q \in Runs : AnswersFor(q, a)
      <3>1. PICK q \in Runs : AnswersFor(q, a)
        BY <2>1
      <3>2. CASE q = r
        BY <1>1, <3>1, <3>2 DEF Settled, AnswersFor
      <3>3. CASE q # r
        BY <1>1, <3>1, <3>3 DEF Settled, AnswersFor
      <3> QED BY <3>2, <3>3
    <2>2. CASE ~ \E q \in Runs : AnswersFor(q, a)
      BY <1>3, <2>2 DEF Settled
    <2> QED BY <2>1, <2>2
  <1>4. ASSUME NEW q \in Runs, NEW a \in stored[q] \cup run[q].seen
        PROVE  Settled(a)'
    BY <1>3, <1>4 DEF TellInv
  <1>5. ASSUME NEW a \in stored'[r] \cup seen
        PROVE  Settled(a)'
    <2>1. CASE a \in seen
      BY <1>4, <2>1
    <2>2. CASE a \in stored'[r] /\ a \notin seen /\ a \in stored[r]
      BY <1>4, <2>2
    <2>3. CASE a \in stored'[r] /\ a \notin seen /\ a \notin stored[r]
      BY <1>1, <2>3 DEF Settled, AnswersFor
    <2> QED BY <1>5, <2>1, <2>2, <2>3
  <1>6. \A q \in Runs : \A a \in stored'[q] \cup run'[q].seen : Settled(a)'
    BY <1>1, <1>4, <1>5
  <1> QED BY <1>2, <1>6 DEF TellInv

\* A move that leaves the findings alone, and a run that ends answers for
\* what it has to tell.
LEMMA MoveKeeps ==
    ASSUME TypeOK, TellInv, NEW r \in Runs,
           NEW pc, NEW seen, NEW found, NEW key, Moves(r, pc, seen, found, key),
           UNCHANGED <<deleted, stored, dropped>>,
           digests \subseteq digests', silent \subseteq silent',
           pc \in {"none", "insert"} => run[r].pc \in {"none", "insert"},
           pc \in Delivering => run[r].pc \in Delivering /\ found = run[r].found,
           \A a \in seen : a \in run[r].seen \/ \E q \in Runs : a \in stored[q],
           \/ pc # "over" /\ seen = run[r].seen
           \/ stored[r] = {}
           \/ r \in silent'
           \/ \A a \in stored[r] : deleted \/ a \in run[r].seen \/ <<r, a>> \in digests'
    PROVE  TellInv'
  <1>1. /\ pc \in {"none", "insert"} => stored'[r] = {}
        /\ pc \in Delivering => stored'[r] = found
    BY DEF TellInv, RunsShaped
  <1>2. ASSUME NEW a, AnswersFor(r, a)
        PROVE  \/ deleted' \/ a \in dropped' \/ <<r, a>> \in digests'
               \/ /\ a \in stored'[r]
                  /\ r \in silent' \/ (pc # "over" /\ a \notin seen)
    BY <1>2 DEF AnswersFor
  <1> HIDE DEF Delivering
  <1> QED BY <1>1, <1>2, MoveTells

\* The end of a run, silenced.
LEMMA EndTells ==
    ASSUME TypeOK, TellInv, NEW r \in Runs, run' = [run EXCEPT ![r] = Ended],
           UNCHANGED <<deleted, stored, dropped>>,
           digests \subseteq digests', silent \subseteq silent',
           stored[r] = {} \/ r \in silent'
    PROVE  TellInv'
  <1>1. Moves(r, "over", {}, Ended.found, "none")
    BY EndMoves
  <1>2. "over" \notin Delivering
    BY DEF Delivering
  <1> QED BY <1>1, <1>2, MoveKeeps

LEMMA LaunchTells ==
    ASSUME TypeOK, TellInv, NEW r \in Runs,
           Launch(r) \/ InsertRun(r) \/ Answer(r) \/ ReadKey(r) \/ SendRun(r)
    PROVE  TellInv'
  <1>1. UNCHANGED <<deleted, stored, digests, dropped>> /\ silent \subseteq silent'
    BY DEF Launch, InsertRun, Answer, ReadKey, SendRun
  <1>2. CASE Launch(r)
    <2>1. Moves(r, "insert", Memory, run[r].found, run[r].key) /\ run[r].pc = "none"
      BY <1>2, LaunchMoves DEF Launch, At
    <2>2. stored[r] = {} /\ "insert" \notin Delivering
      BY <2>1 DEF TellInv, RunsShaped, Delivering
    <2> QED BY <1>1, <2>1, <2>2, MemoryIsDelivered, MoveKeeps
  <1>3. CASE InsertRun(r)
    <2>1. run[r].pc = "insert" /\ stored[r] = {}
      BY <1>3 DEF InsertRun, Step, At, TellInv, RunsShaped
    <2>2. CASE deleted
      BY <1>1, <1>3, <2>1, <2>2, EndTells DEF InsertRun, Step
    <2>3. CASE ~ deleted
      <3>1. Step(r, "insert", "key")
        BY <1>3, <2>3 DEF InsertRun
      <3>2. Moves(r, "key", run[r].seen, run[r].found, run[r].key)
        BY <3>1, StepMoves
      <3>3. "key" \notin Delivering
        BY DEF Delivering
      <3> QED BY <1>1, <2>1, <3>2, <3>3, MoveKeeps
    <2> QED BY <2>2, <2>3
  <1>4. CASE Answer(r)
    <2>1. Moves(r, "key", Memory, run[r].found, run[r].key)
      BY <1>4, AnswerMoves
    <2>2. (stored[r] = {} \/ r \in silent') /\ "key" \notin Delivering
      BY <1>4 DEF Answer, Delivering
    <2> QED BY <1>1, <2>1, <2>2, MemoryIsDelivered, MoveKeeps
  <1>5. CASE ReadKey(r)
    <2>1. PICK k \in {"none", credential.key} : Moves(r, "send", run[r].seen, run[r].found, k)
      BY <1>5, ReadKeyMoves
    <2>2. "send" \notin Delivering
      BY DEF Delivering
    <2> QED BY <1>1, <2>1, <2>2, MoveKeeps
  <1>6. CASE SendRun(r)
    <2>1. CASE run' = [run EXCEPT ![r].pc = "queued", ![r].key = "none"]
      <3>1. Moves(r, "queued", run[r].seen, run[r].found, "none")
        BY <2>1, SentMoves
      <3>2. "queued" \notin Delivering
        BY DEF Delivering
      <3> QED BY <1>1, <3>1, <3>2, MoveKeeps
    <2>2. CASE Step(r, "send", "over") /\ silent' = silent \cup {r}
      BY <1>1, <2>2, EndTells DEF Step
    <2> QED BY <1>6, <2>1, <2>2 DEF SendRun
  <1> QED BY <1>2, <1>3, <1>4, <1>5, <1>6

LEMMA WorkTells ==
    ASSUME TypeOK, TellInv, NEW r \in Runs, Scan(r) \/ Ask(r) \/ Again(r) \/ GiveUp(r)
    PROVE  TellInv'
  <1>1. UNCHANGED <<deleted, stored, digests, dropped>> /\ silent \subseteq silent'
    BY DEF Scan, Ask, Again, GiveUp
  <1>2. CASE Scan(r)
    <2>1. PICK found \in Findings : Moves(r, "store", run[r].seen, found, run[r].key)
      BY <1>2, ScanMoves
    <2>2. "store" \notin Delivering
      BY DEF Delivering
    <2> QED BY <1>1, <2>1, <2>2, MoveKeeps
  <1>3. CASE Ask(r)
    <2>1. Moves(r, "paused", {}, run[r].found, run[r].key)
      BY <1>3, AskMoves
    <2>2. "paused" \notin Delivering /\ "paused" \notin {"none", "insert"} /\ "paused" # "over"
      BY DEF Delivering
    <2>3. ASSUME NEW a, AnswersFor(r, a)
          PROVE  <<r, a>> \in digests' \/ (a \in stored'[r] /\ "paused" # "over" /\ a \notin {})
      BY <1>1, <2>3 DEF AnswersFor
    <2> QED BY <1>1, <2>1, <2>2, <2>3, MoveTells
  <1>4. CASE Again(r)
    <2>1. Moves(r, "queued", run[r].seen, {}, run[r].key)
      BY <1>4, AgainMoves
    <2>2. "queued" \notin Delivering
      BY DEF Delivering
    <2> QED BY <1>1, <2>1, <2>2, MoveKeeps
  <1>5. CASE GiveUp(r)
    BY <1>1, <1>5, EndTells DEF GiveUp
  <1> QED BY <1>2, <1>3, <1>4, <1>5

LEMMA StoreTells ==
    ASSUME TypeOK, TellInv, NEW r \in Runs, Store(r)
    PROVE  TellInv'
  <1>1. /\ stored' = [stored EXCEPT ![r] = run[r].found]
        /\ dropped' = dropped \cup (stored[r] \ run[r].found)
        /\ UNCHANGED <<deleted, digests, silent>>
    BY DEF Store
  <1>2. /\ stored'[r] = run[r].found
        /\ \A q \in Runs : q # r => stored'[q] = stored[q]
    BY <1>1 DEF TypeOK
  <1>3. Moves(r, "update", run[r].seen, run[r].found, run[r].key)
    <2>1. Step(r, "store", "update") /\ "update" \in Delivering
      BY DEF Store, Delivering
    <2> QED BY <2>1, StepMoves
  <1>4. ASSUME NEW a, AnswersFor(r, a)
        PROVE  \/ a \in dropped' \/ <<r, a>> \in digests'
               \/ /\ a \in stored'[r]
                  /\ r \in silent' \/ ("update" # "over" /\ a \notin run[r].seen)
    BY <1>1, <1>2, <1>4 DEF AnswersFor
  <1> QED BY <1>1, <1>2, <1>3, <1>4, MoveTells

LEMMA DeliveryTells ==
    ASSUME TypeOK, TellInv, NEW r \in Runs,
           UpdateRow(r) \/ Lookup(r) \/ SendDigest(r) \/ DigestFails(r)
    PROVE  TellInv'
  <1>1. /\ UNCHANGED <<deleted, stored, dropped>>
        /\ digests \subseteq digests' /\ silent \subseteq silent'
    BY DEF UpdateRow, Lookup, SendDigest, DigestFails
  <1>2. ASSUME NEW from \in Delivering, NEW to \in Delivering, Step(r, from, to)
        PROVE  TellInv'
    <2>1. Moves(r, to, run[r].seen, run[r].found, run[r].key) /\ run[r].pc \in Delivering
      BY <1>2, StepMoves DEF Delivering
    <2>2. to \notin {"none", "insert", "over"}
      BY <1>2 DEF Delivering
    <2> QED BY <1>1, <2>1, <2>2, MoveKeeps
  <1>3. ASSUME NEW from \in Delivering, Step(r, from, "over"),
               \A a \in run[r].found \ run[r].seen :
                  deleted \/ r \in silent' \/ <<r, a>> \in digests'
        PROVE  TellInv'
    <2>1. Moves(r, "over", {}, Ended.found, "none") /\ run[r].pc \in Delivering
      BY <1>3, StepMoves
    <2>2. stored[r] = run[r].found
      BY <2>1 DEF TellInv, RunsShaped
    <2>3. \/ r \in silent'
          \/ \A a \in stored[r] : deleted \/ a \in run[r].seen \/ <<r, a>> \in digests'
      BY <1>3, <2>2
    <2>4. "over" \notin Delivering
      BY DEF Delivering
    <2> QED BY <1>1, <2>1, <2>3, <2>4, MoveKeeps
  <1>4. CASE UpdateRow(r)
    BY <1>2, <1>4 DEF UpdateRow, Delivering
  <1>5. CASE Lookup(r)
    <2>1. CASE New(r) # {} /\ ~ deleted
      BY <1>2, <1>5, <2>1 DEF Lookup, Delivering
    <2>2. CASE ~ (New(r) # {} /\ ~ deleted)
      <3>1. Step(r, "lookup", "over") /\ "lookup" \in Delivering
        BY <1>5, <2>2 DEF Lookup, Delivering
      <3>2. \A a \in run[r].found \ run[r].seen : deleted
        BY <2>2 DEF New
      <3> QED BY <1>3, <3>1, <3>2
    <2> QED BY <2>1, <2>2
  <1>6. CASE SendDigest(r)
    <2>1. \A a \in run[r].found \ run[r].seen : <<r, a>> \in digests'
      BY <1>6 DEF SendDigest, New
    <2>2. \E to \in {"over", "undelivered"} : Step(r, "digest", to)
      BY <1>6 DEF SendDigest
    <2> QED BY <1>2, <1>3, <2>1, <2>2 DEF Delivering
  <1>7. CASE DigestFails(r)
    <2>1. r \in silent' /\ (Step(r, "lookup", "over") \/ Step(r, "digest", "over"))
      BY <1>7 DEF DigestFails
    <2> QED BY <1>3, <2>1 DEF Delivering
  <1> QED BY <1>4, <1>5, <1>6, <1>7

\* A restart sends the deliveries in progress back, and ends the launches.
LEMMA InterruptedFields ==
    ASSUME TypeOK, NEW r \in Runs
    PROVE  /\ Interrupted(r) \in Run
           /\ run[r].pc \in {"insert", "key", "send"} => Interrupted(r) = Ended
           /\ run[r].pc \in {"update", "lookup", "digest"} =>
                 /\ Interrupted(r).pc = "undelivered"
                 /\ Interrupted(r).seen = run[r].seen /\ Interrupted(r).found = run[r].found
                 /\ Interrupted(r).key = run[r].key
           /\ run[r].pc \notin {"insert", "key", "send", "update", "lookup", "digest"} =>
                 Interrupted(r) = run[r]
  <1> DEFINE l == [run[r] EXCEPT !.pc = "undelivered"]
  <1>1. run[r] \in Run
    BY RunFields
  <1>2. l \in Run
    BY <1>1, RunAt DEF Places
  <1>3. l.pc = "undelivered" /\ l.seen = run[r].seen /\ l.found = run[r].found
        /\ l.key = run[r].key
    BY <1>1 DEF Run
  <1>4. Interrupted(r) = IF run[r].pc \in {"insert", "key", "send"} THEN Ended
                         ELSE IF run[r].pc \in {"update", "lookup", "digest"} THEN l
                         ELSE run[r]
    BY DEF Interrupted
  <1> HIDE DEF l
  <1> QED BY <1>1, <1>2, <1>3, <1>4, EndedFields

LEMMA RestartTells ==
    ASSUME TypeOK, TellInv, Restart
    PROVE  TellInv'
  <1>1. /\ run' = [r \in Runs |-> Interrupted(r)]
        /\ silent' = silent \cup {r \in Runs : run[r].pc \in {"insert", "key", "send"}}
        /\ UNCHANGED <<deleted, stored, digests, dropped>>
    BY DEF Restart
  <1>2. RunsShaped'
    <2> SUFFICES ASSUME NEW r \in Runs
                 PROVE  /\ run'[r].pc \in {"none", "insert"} => stored[r] = {}
                        /\ run'[r].pc \in Delivering => stored[r] = run'[r].found
      BY <1>1 DEF RunsShaped
    <2>1. /\ run[r].pc \in {"none", "insert"} => stored[r] = {}
          /\ run[r].pc \in Delivering => stored[r] = run[r].found
      BY DEF TellInv, RunsShaped
    <2> QED BY <1>1, <2>1, InterruptedFields, EndedFields DEF Delivering
  <1>3. ASSUME NEW a, NEW q \in Runs, AnswersFor(q, a)
        PROVE  AnswersFor(q, a)'
    <2>1. CASE run[q].pc \in {"insert", "key", "send"}
      BY <1>1, <1>3, <2>1 DEF AnswersFor
    <2>2. CASE run[q].pc \notin {"insert", "key", "send"}
      <3>1. run'[q].seen = run[q].seen /\ (run[q].pc # "over" => run'[q].pc # "over")
        BY <1>1, <2>2, InterruptedFields
      <3> QED BY <1>1, <1>3, <3>1 DEF AnswersFor
    <2> QED BY <2>1, <2>2
  <1>4. ASSUME NEW a, Settled(a)
        PROVE  Settled(a)'
    BY <1>1, <1>3, <1>4 DEF Settled
  <1>5. \A r \in Runs : run'[r].seen \subseteq run[r].seen
    <2> SUFFICES ASSUME NEW r \in Runs PROVE run'[r].seen \subseteq run[r].seen
      OBVIOUS
    <2> QED BY <1>1, InterruptedFields, EndedFields
  <1> QED BY <1>1, <1>2, <1>4, <1>5 DEF TellInv

LEMMA InitTells == Init => TypeOK /\ TellInv /\ AuditInv
  <1> SUFFICES ASSUME Init PROVE TypeOK /\ TellInv /\ AuditInv
    OBVIOUS
  <1>1. KeysTypeOK
    BY KeysAssumption DEF Init, KeysInit, KeysTypeOK, Credentials, KeyRequestRows, Boxes
  <1>2. TypeOK
    BY <1>1, EndedFields DEF Init, TypeOK, Findings
  <1>3. TellInv
    BY EndedFields DEF Init, TellInv, RunsShaped, Delivering
  <1>4. AuditInv
    BY EndedFields DEF Init, AuditInv, KeysInit, NoCredential
  <1> QED BY <1>2, <1>3, <1>4

-----------------------------------------------------------------------------
(***************************************************************************)
(* Types and keys.                                                         *)
(***************************************************************************)
LEMMA RequestFields ==
    ASSUME KeysTypeOK, NEW s \in KeyRequests
    PROVE  /\ keyRequest[s] \in KeyRequestRows
           /\ keyRequest[s].key \in ApiKeys \cup {"none"}
           /\ keyRequest[s].wallet \in Wallets \cup {"none"}
           /\ keyRequest[s].pc # "idle" => keyRequest[s] # NoRequest
  BY DEF KeysTypeOK, KeyRequestRows, NoRequest

\* What a request has in hand from one access to the next.
RequestsShaped ==
    \A s \in KeyRequests :
        /\ keyRequest[s].pc \in {"ask", "upsert", "connected"} => keyRequest[s].key \in ApiKeys
        /\ keyRequest[s].pc = "upsert" => keyRequest[s].wallet \in Wallets

KeysInv == /\ KeysTypeOK
           /\ RequestsShaped
           /\ credential.key # "none" => credential.key \in Audited

\* A step of the requests keeps the keys that have their event, now or later.
LEMMA KeysStep ==
    ASSUME KeysInv, KeysNext \/ Rotate
    PROVE  KeysInv' /\ Audited \subseteq Audited'
  <1> DEFINE Good == KeysInv' /\ Audited \subseteq Audited'
  <1>1. ASSUME NEW s \in KeyRequests, NEW l \in KeyRequestRows,
               keyRequest' = [keyRequest EXCEPT ![s] = l],
               keyRequest[s].pc # "connected" \/ l = keyRequest[s],
               l.pc \in {"ask", "upsert", "connected"} => l.key \in ApiKeys,
               l.pc = "upsert" => l.wallet \in Wallets,
               UNCHANGED <<box, trail, missed>>,
               \/ UNCHANGED credential
               \/ credential' = NoCredential
               \/ l.pc = "connected" /\ credential' \in Credentials /\ credential'.key = l.key
        PROVE  Good
    <2>1. keyRequest' \in [KeyRequests -> KeyRequestRows]
      BY <1>1 DEF KeysInv, KeysTypeOK
    <2>2. keyRequest'[s] = l /\ \A t \in KeyRequests : t # s => keyRequest'[t] = keyRequest[t]
      BY <1>1 DEF KeysInv, KeysTypeOK
    <2>3. Unrecorded(KeyRequests) \subseteq Unrecorded(KeyRequests)'
      BY <1>1, <2>2 DEF Unrecorded, Going
    <2>4. Audited \subseteq Audited'
      BY <1>1, <2>3 DEF Audited
    <2>5. l.pc = "connected" => l.key \in Unrecorded(KeyRequests)'
      BY <2>2 DEF Unrecorded, Going
    <2>6. RequestsShaped'
      BY <1>1, <2>2 DEF KeysInv, RequestsShaped
    <2>7. credential'.key # "none" => credential'.key \in Audited'
      BY <1>1, <2>4, <2>5 DEF KeysInv, Audited, NoCredential
    <2>8. KeysTypeOK'
      BY <1>1, <2>1 DEF KeysInv, KeysTypeOK, Credentials
    <2> QED BY <2>4, <2>6, <2>7, <2>8 DEF KeysInv
  <1>2. NoRequest \in KeyRequestRows /\ NoRequest.pc = "idle"
    BY DEF KeyRequestRows, NoRequest
  <1>3. ASSUME NEW s \in KeyRequests, NEW k \in ApiKeys, PutKey(s, k)
        PROVE  Good
    <2> DEFINE l == [pc |-> "ask", key |-> k, wallet |-> "none"]
    <2>1. l \in KeyRequestRows /\ l.pc = "ask" /\ l.key = k
      BY DEF KeyRequestRows
    <2>2. /\ keyRequest' = [keyRequest EXCEPT ![s] = l]
          /\ keyRequest[s].pc # "connected"
          /\ UNCHANGED <<credential, box, trail, missed>>
      BY <1>3, <1>2 DEF PutKey
    <2> HIDE DEF l
    <2> QED BY <1>1, <2>1, <2>2
  <1>4. ASSUME NEW s \in KeyRequests, AskWallet(s)
        PROVE  Good
    <2>1. /\ keyRequest[s].pc = "ask" /\ UNCHANGED <<credential, box, trail, missed>>
          /\ keyRequest[s].key \in ApiKeys
      BY <1>4 DEF AskWallet, Going, KeysInv, RequestsShaped
    <2>2. CASE Answers(s)
      BY <1>1, <1>2, <2>1, <2>2 DEF Answers
    <2>3. CASE /\ Recognised(keyRequest[s].key)
               /\ keyRequest' = [keyRequest EXCEPT ![s].pc = "upsert",
                                                   ![s].wallet = WalletOf[keyRequest[s].key]]
      <3> DEFINE w == WalletOf[keyRequest[s].key]
                 l == [keyRequest[s] EXCEPT !.pc = "upsert", !.wallet = w]
      <3>1. w \in Wallets
        BY <2>1, <2>3, KeysAssumption DEF Recognised
      <3>2. keyRequest[s] \in [pc: {"ask", "upsert", "connected", "disconnected"},
                               key: ApiKeys \cup {"none"}, wallet: Wallets \cup {"none"}]
        BY <2>1, <1>2 DEF KeysInv, KeysTypeOK, KeyRequestRows
      <3>3. l \in KeyRequestRows /\ l.pc = "upsert" /\ l.key = keyRequest[s].key
            /\ l.wallet = w
        BY <3>1, <3>2 DEF KeyRequestRows, NoRequest
      <3>4. keyRequest' = [keyRequest EXCEPT ![s] = l]
        BY <2>3 DEF KeysInv, KeysTypeOK
      <3> HIDE DEF l, w
      <3> QED BY <1>1, <2>1, <3>1, <3>3, <3>4
    <2> QED BY <1>4, <2>2, <2>3 DEF AskWallet
  <1>5. ASSUME NEW s \in KeyRequests, UpsertKey(s)
        PROVE  Good
    <2> DEFINE l == [keyRequest[s] EXCEPT !.pc = "connected"]
    <2>1. /\ keyRequest[s].pc = "upsert" /\ UNCHANGED <<box, trail, missed>>
          /\ keyRequest[s].key \in ApiKeys /\ keyRequest[s].wallet \in Wallets
          /\ keyRequest[s] \in KeyRequestRows /\ box \in Boxes
      BY <1>5 DEF UpsertKey, Going, KeysInv, RequestsShaped, KeysTypeOK
    <2>2. l \in KeyRequestRows /\ l.pc = "connected" /\ l.key = keyRequest[s].key
      BY <2>1 DEF KeyRequestRows, NoRequest
    <2>3. keyRequest' = [keyRequest EXCEPT ![s] = l]
      BY <1>5 DEF UpsertKey, Goes, KeysInv, KeysTypeOK
    <2>4. /\ credential' = [key |-> keyRequest[s].key, box |-> box,
                            wallet |-> keyRequest[s].wallet]
      BY <1>5 DEF UpsertKey, Sealed
    <2>5. credential' \in Credentials /\ credential'.key = keyRequest[s].key
      BY <2>1, <2>4 DEF Credentials
    <2> HIDE DEF l
    <2> QED BY <1>1, <2>1, <2>2, <2>3, <2>5
  <1>6. ASSUME NEW s \in KeyRequests, DeleteKey(s)
        PROVE  Good
    <2> DEFINE l == [NoRequest EXCEPT !.pc = "disconnected"]
    <2>1. /\ keyRequest[s] = NoRequest /\ UNCHANGED <<box, trail, missed>>
          /\ credential' = NoCredential
          /\ keyRequest' = [keyRequest EXCEPT ![s] = l]
      BY <1>6 DEF DeleteKey, Goes, KeysInv, KeysTypeOK
    <2>2. l \in KeyRequestRows /\ l.pc = "disconnected"
      BY DEF KeyRequestRows, NoRequest
    <2> HIDE DEF l
    <2> QED BY <1>1, <1>2, <2>1, <2>2
  <1>7. ASSUME NEW s \in KeyRequests, RecordDisconnected(s)
        PROVE  Good
    BY <1>1, <1>2, <1>7 DEF RecordDisconnected, Going, Answers
  <1>8. ASSUME NEW slots \in SUBSET KeyRequests,
               keyRequest' = [s \in KeyRequests |->
                                IF s \in slots THEN NoRequest ELSE keyRequest[s]],
               trail \subseteq trail' , trail' \subseteq ApiKeys, missed' \subseteq ApiKeys,
               Unrecorded(slots) \subseteq trail' \cup missed',
               missed \subseteq trail' \cup missed',
               UNCHANGED credential, box' \in Boxes
        PROVE  Good
    <2>1. Audited \subseteq Audited'
      <3>1. \A k \in Unrecorded(KeyRequests) :
               k \in Unrecorded(slots) \/ k \in Unrecorded(KeyRequests)'
        BY <1>8 DEF Unrecorded, Going
      <3> QED BY <1>8, <3>1 DEF Audited
    <2>2. KeysTypeOK'
      BY <1>2, <1>8 DEF KeysInv, KeysTypeOK
    <2>3. RequestsShaped'
      BY <1>2, <1>8 DEF KeysInv, RequestsShaped
    <2> QED BY <1>8, <2>1, <2>2, <2>3 DEF KeysInv
  <1>9. ASSUME NEW slots \in SUBSET KeyRequests
        PROVE  Unrecorded(slots) \subseteq ApiKeys
    BY DEF Unrecorded, Going, KeysInv, RequestsShaped
  <1>10. ASSUME NEW s \in KeyRequests, RecordConnected(s) \/ KeyRequestFails(s)
         PROVE  Good
    <2>1. /\ keyRequest' = [t \in KeyRequests |->
                              IF t \in {s} THEN NoRequest ELSE keyRequest[t]]
          /\ UNCHANGED <<credential, box>>
      BY <1>10 DEF RecordConnected, KeyRequestFails, Answers, KeysInv, KeysTypeOK
    <2>2. Unrecorded({s}) \subseteq {keyRequest[s].key}
      BY DEF Unrecorded
    <2>3. Unrecorded({s}) \subseteq ApiKeys /\ trail \subseteq ApiKeys
          /\ missed \subseteq ApiKeys /\ box \in Boxes
      BY <1>9 DEF KeysInv, KeysTypeOK
    <2>4. CASE RecordConnected(s)
      <3>1. keyRequest[s].key \in ApiKeys
        BY <2>4 DEF RecordConnected, Going, KeysInv, RequestsShaped
      <3>2. trail' = trail \cup {keyRequest[s].key} /\ missed' = missed \ {keyRequest[s].key}
        BY <2>4 DEF RecordConnected, Told
      <3> QED BY <1>8, <2>1, <2>2, <2>3, <3>1, <3>2
    <2>5. CASE KeyRequestFails(s)
      <3>1. trail' = trail /\ missed' = missed \cup (Unrecorded({s}) \ trail)
        BY <2>5 DEF KeyRequestFails
      <3> QED BY <1>8, <2>1, <2>3, <3>1
    <2> QED BY <1>10, <2>4, <2>5
  <1>11. CASE Rotate
    <2>1. /\ keyRequest' = [s \in KeyRequests |->
                              IF s \in KeyRequests THEN NoRequest ELSE keyRequest[s]]
          /\ missed' = missed \cup (Unrecorded(KeyRequests) \ trail)
          /\ UNCHANGED <<credential, trail>>
      BY <1>11 DEF Rotate
    <2>2. Unrecorded(KeyRequests) \subseteq ApiKeys /\ trail \subseteq ApiKeys
          /\ missed \subseteq ApiKeys
      BY <1>9 DEF KeysInv, KeysTypeOK
    <2>3. box' \in Boxes
      BY <1>11, KeysAssumption DEF Rotate, KeysInv, KeysTypeOK, Boxes
    <2> QED BY <1>8, <2>1, <2>2, <2>3
  <1>12. CASE KeysNext
    <2>1. PICK s \in KeyRequests :
             \/ \E k \in ApiKeys : PutKey(s, k)
             \/ AskWallet(s) \/ UpsertKey(s) \/ RecordConnected(s)
             \/ DeleteKey(s) \/ RecordDisconnected(s) \/ KeyRequestFails(s)
      BY <1>12 DEF KeysNext
    <2> QED BY <2>1, <1>3, <1>4, <1>5, <1>6, <1>7, <1>10
  <1> QED BY <1>11, <1>12

-----------------------------------------------------------------------------
\* The steps of one run.
RunStep(r) == \/ Launch(r) \/ InsertRun(r) \/ Answer(r) \/ ReadKey(r) \/ SendRun(r)
              \/ Scan(r) \/ Ask(r) \/ Store(r) \/ UpdateRow(r) \/ Lookup(r)
              \/ SendDigest(r) \/ DigestFails(r) \/ Again(r) \/ GiveUp(r)

\* They keep every record a run, and take a key from where it is stored.
LEMMA RunStepMoves ==
    ASSUME TypeOK, NEW r \in Runs, RunStep(r)
    PROVE  \E pc, seen, found, key :
              /\ Moves(r, pc, seen, found, key)
              /\ key \in {run[r].key, credential.key, "none"}
  <1>1. CASE Launch(r)
    BY <1>1, LaunchMoves
  <1>2. CASE Answer(r)
    BY <1>2, AnswerMoves
  <1>3. CASE ReadKey(r)
    BY <1>3, ReadKeyMoves
  <1>4. CASE Scan(r)
    BY <1>4, ScanMoves
  <1>5. CASE Ask(r)
    BY <1>5, AskMoves
  <1>6. CASE Again(r)
    BY <1>6, AgainMoves
  <1>7. CASE run' = [run EXCEPT ![r].pc = "queued", ![r].key = "none"]
    BY <1>7, SentMoves
  <1>8. CASE run' = [run EXCEPT ![r] = Ended]
    BY <1>8, EndMoves
  <1>9. ASSUME NEW from, NEW to \in Delivering \cup {"key", "over"}, Step(r, from, to)
        PROVE  \E pc, seen, found, key :
                  /\ Moves(r, pc, seen, found, key)
                  /\ key \in {run[r].key, credential.key, "none"}
    <2>1. CASE to = "over"
      BY <1>9, <2>1, StepMoves
    <2>2. CASE to # "over"
      BY <1>9, <2>2, StepMoves
    <2> QED BY <2>1, <2>2
  <1>10. CASE \/ InsertRun(r) \/ Store(r) \/ UpdateRow(r) \/ Lookup(r)
              \/ SendDigest(r) \/ DigestFails(r)
    <2>1. \E from, to : to \in Delivering \cup {"key", "over"} /\ Step(r, from, to)
      BY <1>10 DEF InsertRun, Store, UpdateRow, Lookup, SendDigest, DigestFails, Delivering
    <2> QED BY <1>9, <2>1
  <1>11. CASE SendRun(r)
    BY <1>7, <1>8, <1>11 DEF SendRun, Step
  <1>12. CASE GiveUp(r)
    BY <1>8, <1>12 DEF GiveUp
  <1> QED BY <1>1, <1>2, <1>3, <1>4, <1>5, <1>6, <1>10, <1>11, <1>12 DEF RunStep

LEMMA RunStepKeeps ==
    ASSUME TypeOK, KeysInv, AuditInv, NEW r \in Runs, RunStep(r)
    PROVE  TypeOK' /\ KeysInv' /\ AuditInv'
  <1>1. PICK pc, seen, found, key : /\ Moves(r, pc, seen, found, key)
                                    /\ key \in {run[r].key, credential.key, "none"}
    BY RunStepMoves
  <1>2. /\ run' \in [Runs -> Run] /\ run'[r].key = key
        /\ \A q \in Runs : q # r => run'[q] = run[q]
    BY <1>1, MovePlaces
  <1>3. UNCHANGED keyVars /\ UNCHANGED deleted
    BY DEF RunStep, Launch, InsertRun, Answer, ReadKey, SendRun, Scan, Ask, Store, UpdateRow,
           Lookup, SendDigest, DigestFails, Again, GiveUp
  <1>4. KeysInv' /\ Audited' = Audited
    BY <1>3 DEF keyVars, KeysInv, KeysTypeOK, RequestsShaped, Audited, Unrecorded, Going
  <1>5. AuditInv'
    BY <1>1, <1>2, <1>3, <1>4 DEF AuditInv, keyVars
  <1>6. run[r].found \in Findings /\ New(r) \in Findings /\ stored[r] \in Findings
    BY RunFields DEF New, Findings
  <1>7. CASE ~ Store(r) /\ ~ SendDigest(r)
    <2>1. UNCHANGED <<stored, digests, dropped>> /\ silent' \subseteq Runs
      BY <1>7 DEF RunStep, Launch, InsertRun, Answer, ReadKey, SendRun, Scan, Ask, UpdateRow,
                  Lookup, DigestFails, Again, GiveUp, TypeOK
    <2> QED BY <1>2, <1>3, <1>4, <1>5, <2>1 DEF TypeOK, KeysInv
  <1>8. CASE Store(r)
    <2>1. stored' \in [Runs -> Findings] /\ dropped' \subseteq Approvals
      BY <1>6, <1>8 DEF Store, TypeOK, Findings
    <2>2. UNCHANGED <<digests, silent>>
      BY <1>8 DEF Store
    <2> QED BY <1>2, <1>3, <1>4, <1>5, <2>1, <2>2 DEF TypeOK, KeysInv
  <1>9. CASE SendDigest(r)
    <2>1. digests' \subseteq Runs \X Approvals
      BY <1>6, <1>9 DEF SendDigest, TypeOK, Findings
    <2>2. UNCHANGED <<stored, silent, dropped>>
      BY <1>9 DEF SendDigest
    <2> QED BY <1>2, <1>3, <1>4, <1>5, <2>1, <2>2 DEF TypeOK, KeysInv
  <1> QED BY <1>7, <1>8, <1>9

-----------------------------------------------------------------------------
(***************************************************************************)
(* What is told again.                                                     *)
(***************************************************************************)
\* What a run has told it has delivered, if a second delivery did not drop it.
DigestsDelivered ==
    \A q \in Runs : \A a \in Approvals :
        <<q, a>> \in digests => a \in stored[q] \/ a \in dropped

\* Run r has been sent approval a, or could not be.
Remembers(r, a) ==
    \/ a \in run[r].seen
    \/ a \in dropped
    \/ Crowded(a)
    \/ run[r].pc = "paused"
    \/ deleted /\ run[r].pc # "digest"

\* A run knows only runs that are over, whose digests no longer grow, and has
\* been sent what they have told.
MemoryInv ==
    /\ DigestsDelivered
    /\ \A r \in Runs : \A q \in run[r].known :
          /\ run[q].pc = "over"
          /\ \A a \in Approvals : <<q, a>> \in digests => Remembers(r, a)

\* How a run that is not over moves: it is sent the memory, forgets it when it
\* pauses or ends, and otherwise takes it along.
Recalls(r, l) ==
    /\ run' = [run EXCEPT ![r] = l]
    /\ run[r].pc # "over"
    /\ \/ l.known = {}
       \/ l.known = Over /\ l.seen = Memory /\ l.pc # "digest" /\ UNCHANGED stored
       \/ /\ l.known = run[r].known
          /\ l.pc = "paused" \/ (run[r].pc # "paused" /\ l.seen = run[r].seen)
          /\ l.pc = "digest" => ~ deleted

\* Every step of a run is such a move.
LEMMA RunStepRecalls ==
    ASSUME TypeOK, NEW r \in Runs, RunStep(r)
    PROVE  \E l \in Run : Recalls(r, l)
  <1>1. run[r] \in Run /\ Ended \in Run /\ Ended.known = {}
    BY RunFields, EndedFields DEF Ended, NotYet
  <1>2. ASSUME NEW pc \in Places, pc \notin {"digest", "over"}, Launch(r) \/ Answer(r),
               run' = [run EXCEPT ![r].pc = pc, ![r].seen = Memory, ![r].known = Over]
        PROVE  \E l \in Run : Recalls(r, l)
    <2> DEFINE l == [run[r] EXCEPT !.pc = pc, !.seen = Memory, !.known = Over]
    <2>1. l \in Run
      BY RunFields, MemoryIsDelivered, RunRemembering
    <2>2. l.known = Over /\ l.seen = Memory /\ l.pc = pc
      BY <1>1 DEF Run
    <2>3. run' = [run EXCEPT ![r] = l]
      BY <1>2 DEF TypeOK
    <2>4. run[r].pc # "over" /\ UNCHANGED stored
      BY <1>2 DEF Launch, Answer, At
    <2> HIDE DEF l
    <2> QED BY <1>2, <2>1, <2>2, <2>3, <2>4 DEF Recalls
  <1>3. ASSUME NEW l \in Run, run' = [run EXCEPT ![r] = l], l.known = run[r].known,
               run[r].pc \notin {"over", "paused"}, l.pc # "digest",
               l.pc = "paused" \/ l.seen = run[r].seen
        PROVE  \E m \in Run : Recalls(r, m)
    BY <1>3, Zenon DEF Recalls
  <1>4. ASSUME run' = [run EXCEPT ![r] = Ended], run[r].pc # "over"
        PROVE  \E l \in Run : Recalls(r, l)
    BY <1>1, <1>4 DEF Recalls
  <1>5. ASSUME NEW from \in Places, NEW to \in Places, Step(r, from, to),
               from \notin {"over", "paused"}, to = "digest" => ~ deleted
        PROVE  \E l \in Run : Recalls(r, l)
    <2>1. CASE to = "over"
      BY <1>4, <1>5, <2>1 DEF Step, At
    <2>2. CASE to # "over"
      <3> DEFINE l == [run[r] EXCEPT !.pc = to]
      <3>1. l \in Run
        BY <1>1, RunAt
      <3>2. l.pc = to /\ l.known = run[r].known /\ l.seen = run[r].seen
        BY <1>1 DEF Run
      <3>3. run' = [run EXCEPT ![r] = l] /\ run[r].pc = from
        BY <1>5, <2>2 DEF Step, At
      <3> HIDE DEF l
      <3> QED BY <1>5, <3>1, <3>2, <3>3 DEF Recalls
    <2> QED BY <2>1, <2>2
  <1>6. CASE Launch(r)
    <2>1. run' = [run EXCEPT ![r].pc = "insert", ![r].seen = Memory, ![r].known = Over]
      BY <1>6 DEF Launch
    <2> QED BY <1>2, <1>6, <2>1 DEF Places
  <1>7. CASE Answer(r)
    <2>1. run' = [run EXCEPT ![r].pc = "key", ![r].seen = Memory, ![r].known = Over]
      BY <1>7 DEF Answer
    <2> QED BY <1>2, <1>7, <2>1 DEF Places
  <1>8. CASE ReadKey(r)
    <2>1. PICK k \in DispatchKeys : run' = [run EXCEPT ![r].pc = "send", ![r].key = k]
      BY <1>8 DEF ReadKey
    <2> DEFINE l == [run[r] EXCEPT !.pc = "send", !.key = k]
    <2>2. l \in Run
      BY RunFields, KeysToDispatch, RunWithKey DEF Places
    <2>3. l.pc = "send" /\ l.known = run[r].known /\ l.seen = run[r].seen
      BY <1>1 DEF Run
    <2>4. run' = [run EXCEPT ![r] = l] /\ run[r].pc = "key"
      BY <1>8, <2>1 DEF ReadKey, At, TypeOK
    <2> HIDE DEF l
    <2> QED BY <1>3, <2>2, <2>3, <2>4
  <1>9. CASE SendRun(r)
    <2>1. CASE At(r, "send") /\ run' = [run EXCEPT ![r].pc = "queued", ![r].key = "none"]
      <3> DEFINE l == [run[r] EXCEPT !.pc = "queued", !.key = "none"]
      <3>1. "none" \in ApiKeys \cup {"none"} /\ "queued" \in Places
        BY DEF Places
      <3>2. l \in Run
        BY <1>1, <3>1, RunWithKey
      <3>3. l.pc = "queued" /\ l.known = run[r].known /\ l.seen = run[r].seen
        BY <1>1 DEF Run
      <3>4. run' = [run EXCEPT ![r] = l] /\ run[r].pc = "send"
        BY <2>1 DEF At, TypeOK
      <3> HIDE DEF l
      <3> QED BY <1>3, <3>2, <3>3, <3>4
    <2>2. CASE Step(r, "send", "over")
      BY <1>5, <2>2 DEF Places
    <2> QED BY <1>9, <2>1, <2>2 DEF SendRun
  <1>10. CASE Scan(r)
    <2>1. PICK found \in Findings : run' = [run EXCEPT ![r].pc = "store", ![r].found = found]
      BY <1>10 DEF Scan
    <2> DEFINE l == [run[r] EXCEPT !.pc = "store", !.found = found]
    <2>2. l \in Run
      BY <1>1, RunFound DEF Places
    <2>3. l.pc = "store" /\ l.known = run[r].known /\ l.seen = run[r].seen
      BY <1>1 DEF Run
    <2>4. run' = [run EXCEPT ![r] = l] /\ run[r].pc = "queued"
      BY <1>10, <2>1 DEF Scan, At, TypeOK
    <2> HIDE DEF l
    <2> QED BY <1>3, <2>2, <2>3, <2>4
  <1>11. CASE Ask(r)
    <2> DEFINE l == [run[r] EXCEPT !.pc = "paused", !.asked = TRUE, !.seen = {}]
    <2>1. TRUE \in BOOLEAN /\ {} \in Findings /\ "paused" \in Places
      BY DEF Findings, Places
    <2>2. l \in Run
      BY <1>1, <2>1, RunAsking
    <2>3. l.pc = "paused" /\ l.known = run[r].known
      BY <1>1 DEF Run
    <2>4. run' = [run EXCEPT ![r] = l] /\ run[r].pc = "queued"
      BY <1>11 DEF Ask, At, TypeOK
    <2> HIDE DEF l
    <2> QED BY <1>3, <2>2, <2>3, <2>4
  <1>12. CASE Again(r)
    <2> DEFINE l == [run[r] EXCEPT !.pc = "queued", !.tries = run[r].tries + 1, !.found = {}]
    <2>1. run[r].tries + 1 \in 0..MaxTries
      <3>1. run[r].tries \in 0..MaxTries /\ run[r].tries < MaxTries
        BY <1>1, <1>12 DEF Again, Run
      <3> QED BY <3>1, RunsAssumption
    <2>2. {} \in Findings /\ "queued" \in Places
      BY DEF Findings, Places
    <2>3. l \in Run
      BY <1>1, <2>1, <2>2, RunTried
    <2>4. l.pc = "queued" /\ l.known = run[r].known /\ l.seen = run[r].seen
      BY <1>1 DEF Run
    <2>5. run' = [run EXCEPT ![r] = l] /\ run[r].pc \notin {"over", "paused"}
      BY <1>12 DEF Again, TypeOK
    <2> HIDE DEF l
    <2> QED BY <1>3, <2>3, <2>4, <2>5
  <1>13. CASE GiveUp(r)
    BY <1>4, <1>13 DEF GiveUp
  <1>14. CASE InsertRun(r) \/ Store(r) \/ UpdateRow(r) \/ Lookup(r) \/ SendDigest(r)
                \/ DigestFails(r)
    <2>1. \E from, to \in Places : /\ Step(r, from, to)
                                   /\ from \notin {"over", "paused"}
                                   /\ to = "digest" => ~ deleted
      BY <1>14 DEF InsertRun, Store, UpdateRow, Lookup, SendDigest, DigestFails, Places
    <2> QED BY <1>5, <2>1
  <1> QED BY <1>6, <1>7, <1>8, <1>9, <1>10, <1>11, <1>12, <1>13, <1>14 DEF RunStep

\* What was delivered still is, or a second delivery dropped it; so an approval
\* that is crowded stays so.
LEMMA CrowdedStays ==
    ASSUME TypeOK, TypeOK', dropped \subseteq dropped',
           \A q \in Runs : stored[q] \subseteq stored'[q] \cup dropped',
           NEW a \in Approvals, Crowded(a)
    PROVE  Crowded(a)'
  <1> DEFINE S == {b \in Delivered \cup dropped : Rank[b] < Rank[a]}
             T == {b \in Delivered' \cup dropped' : Rank[b] < Rank[a]}
  <1>1. S \subseteq T
    BY DEF Delivered
  <1>2. T \subseteq Approvals /\ S \subseteq Approvals
    BY DEF TypeOK, Findings, Delivered
  <1>3. IsFiniteSet(T) /\ IsFiniteSet(S)
    BY <1>2, RunsAssumption, FS_Subset
  <1>4. Cardinality(S) <= Cardinality(T)
    BY <1>1, <1>3, FS_Subset
  <1>5. Cardinality(S) \in Nat /\ Cardinality(T) \in Nat
    BY <1>3, FS_CardinalityType
  <1>6. Cardinality(S) >= SeenLimit
    BY DEF Crowded
  <1> HIDE DEF S, T
  <1>7. Cardinality(T) >= SeenLimit
    BY <1>4, <1>5, <1>6, RunsAssumption
  <1> QED BY <1>7 DEF Crowded, T

\* The memory a run is sent holds what was delivered, if the search still is
\* there and the limit allows.
LEMMA MemoryComplete ==
    ASSUME TypeOK, NEW a \in Delivered, a \notin Memory
    PROVE  deleted \/ Crowded(a)
  <1> SUFFICES ASSUME ~ deleted PROVE Crowded(a)
    OBVIOUS
  <1> DEFINE S == {b \in Delivered : Rank[b] < Rank[a]}
             T == {b \in Delivered \cup dropped : Rank[b] < Rank[a]}
  <1>1. ~ (Cardinality(S) < SeenLimit)
    BY DEF Memory
  <1>2. T \subseteq Approvals /\ S \subseteq T
    BY DEF TypeOK, Findings, Delivered
  <1>3. IsFiniteSet(T) /\ IsFiniteSet(S)
    BY <1>2, RunsAssumption, FS_Subset
  <1>4. Cardinality(S) <= Cardinality(T)
    BY <1>2, <1>3, FS_Subset
  <1>5. Cardinality(S) \in Nat /\ Cardinality(T) \in Nat
    BY <1>3, FS_CardinalityType
  <1> HIDE DEF S, T
  <1>6. Cardinality(T) >= SeenLimit
    BY <1>1, <1>4, <1>5, RunsAssumption
  <1> QED BY <1>6 DEF Crowded, T

\* A step of a run keeps what the runs have told and remember.
LEMMA RunStepRemembers ==
    ASSUME TypeOK, TypeOK', TellInv, MemoryInv, NEW r \in Runs, RunStep(r)
    PROVE  MemoryInv'
  <1>1. PICK l \in Run : Recalls(r, l)
    BY RunStepRecalls
  <1>2. /\ run'[r] = l /\ \A q \in Runs : q # r => run'[q] = run[q]
        /\ run[r].pc # "over"
    BY <1>1 DEF Recalls, TypeOK
  <1>3. UNCHANGED deleted
    BY DEF RunStep, Launch, InsertRun, Answer, ReadKey, SendRun, Scan, Ask, Store, UpdateRow,
           Lookup, SendDigest, DigestFails, Again, GiveUp
  <1>4. /\ dropped \subseteq dropped'
        /\ \A q \in Runs : stored[q] \subseteq stored'[q] \cup dropped'
        /\ \A q \in Runs : \A a : <<q, a>> \in digests' =>
              <<q, a>> \in digests \/ (q = r /\ a \in stored'[r])
    <2>1. CASE Store(r)
      BY <2>1 DEF Store, TypeOK
    <2>2. CASE SendDigest(r)
      <3>1. run[r].pc = "digest" /\ UNCHANGED <<stored, dropped>>
              /\ digests' = digests \cup ({r} \X New(r))
        BY <2>2 DEF SendDigest, Step, At
      <3>2. stored[r] = run[r].found
        BY <3>1 DEF TellInv, RunsShaped, Delivering
      <3> QED BY <3>1, <3>2 DEF New
    <2>3. CASE ~ Store(r) /\ ~ SendDigest(r)
      BY <2>3 DEF RunStep, Launch, InsertRun, Answer, ReadKey, SendRun, Scan, Ask, UpdateRow,
                  Lookup, DigestFails, Again, GiveUp
    <2> QED BY <2>1, <2>2, <2>3
  <1>5. DigestsDelivered'
    BY <1>4 DEF MemoryInv, DigestsDelivered
  <1>6. \A a \in Approvals : Crowded(a) => Crowded(a)'
    BY <1>4, CrowdedStays
  <1>7. ASSUME NEW p \in Runs, NEW q \in run'[p].known
        PROVE  /\ run'[q].pc = "over"
               /\ \A a \in Approvals : <<q, a>> \in digests' => Remembers(p, a)'
    <2>0. run'[p].known \subseteq Runs /\ q \in Runs
      <3>1. run'[p] \in Run
        BY DEF TypeOK
      <3> QED BY <3>1 DEF Run
    <2>1. CASE q \in run[p].known
      <3>1. run[q].pc = "over" /\ q # r /\ run'[q].pc = "over"
        BY <1>2, <2>0, <2>1 DEF MemoryInv
      <3>2. ASSUME NEW a \in Approvals, <<q, a>> \in digests'
            PROVE  Remembers(p, a)'
        <4>1. Remembers(p, a)
          BY <1>4, <2>0, <2>1, <3>1, <3>2 DEF MemoryInv
        <4>2. CASE p # r
          BY <1>2, <1>3, <1>4, <1>6, <4>1, <4>2 DEF Remembers
        <4>3. CASE p = r /\ l.known = Over /\ l.seen = Memory /\ l.pc # "digest"
                     /\ UNCHANGED stored
          <5>1. a \in stored[q] \/ a \in dropped
            BY <1>4, <2>0, <3>1, <3>2 DEF MemoryInv, DigestsDelivered
          <5>2. a \in dropped \/ a \in Memory \/ deleted \/ Crowded(a)
            BY <2>0, <5>1, MemoryComplete DEF Delivered
          <5> QED BY <1>2, <1>3, <1>4, <1>6, <4>3, <5>2 DEF Remembers
        <4>4. CASE /\ p = r
                   /\ l.pc = "paused" \/ (run[r].pc # "paused" /\ l.seen = run[r].seen)
                   /\ l.pc = "digest" => ~ deleted
          BY <1>2, <1>3, <1>4, <1>6, <4>1, <4>4 DEF Remembers
        <4> QED BY <1>1, <1>2, <4>2, <4>3, <4>4 DEF Recalls
      <3> QED BY <3>1, <3>2
    <2>2. CASE q \notin run[p].known
      <3>1. p = r /\ l.known = Over /\ l.seen = Memory /\ l.pc # "digest" /\ q \in Over
        BY <1>1, <1>2, <1>7, <2>2 DEF Recalls
      <3>2. run[q].pc = "over" /\ q # r
        BY <1>2, <3>1 DEF Over, At
      <3>3. ASSUME NEW a \in Approvals, <<q, a>> \in digests'
            PROVE  Remembers(p, a)'
        <4>1. a \in stored[q] \/ a \in dropped
          BY <1>4, <2>0, <3>2, <3>3 DEF MemoryInv, DigestsDelivered
        <4>2. a \in dropped \/ a \in Memory \/ deleted \/ Crowded(a)
          BY <2>0, <4>1, MemoryComplete DEF Delivered
        <4> QED BY <1>2, <1>3, <1>4, <1>6, <3>1, <4>2 DEF Remembers
      <3> QED BY <1>2, <2>0, <3>2, <3>3
    <2> QED BY <2>1, <2>2
  <1> QED BY <1>5, <1>7 DEF MemoryInv

\* A restart takes no memory along but what a delivery has.
LEMMA RestartRemembers ==
    ASSUME TypeOK, MemoryInv, Restart
    PROVE  MemoryInv'
  <1>1. /\ run' = [r \in Runs |-> Interrupted(r)]
        /\ UNCHANGED <<deleted, stored, digests, dropped>>
    BY DEF Restart
  <1>2. \A r \in Runs : \/ run'[r].known = {}
                        \/ /\ run'[r].known = run[r].known /\ run'[r].seen = run[r].seen
                           /\ run'[r].pc = run[r].pc
                              \/ (run[r].pc # "paused" /\ run'[r].pc = "undelivered")
    <2> SUFFICES ASSUME NEW r \in Runs
                 PROVE  LET i == Interrupted(r)
                        IN  \/ i.known = {}
                            \/ /\ i.known = run[r].known /\ i.seen = run[r].seen
                               /\ i.pc = run[r].pc
                                  \/ (run[r].pc # "paused" /\ i.pc = "undelivered")
      BY <1>1
    <2> DEFINE l == [run[r] EXCEPT !.pc = "undelivered"]
    <2>1. l.known = run[r].known /\ l.seen = run[r].seen /\ l.pc = "undelivered"
      BY RunFields DEF Run
    <2>2. Ended.known = {}
      BY DEF Ended, NotYet
    <2>3. Interrupted(r) = IF run[r].pc \in {"insert", "key", "send"} THEN Ended
                           ELSE IF run[r].pc \in {"update", "lookup", "digest"} THEN l
                           ELSE run[r]
      BY DEF Interrupted
    <2> HIDE DEF l
    <2> QED BY <2>1, <2>2, <2>3
  <1>3. \A q \in Runs : run[q].pc = "over" => run'[q].pc = "over"
    BY <1>1 DEF Interrupted
  <1>4. DigestsDelivered'
    BY <1>1 DEF MemoryInv, DigestsDelivered
  <1>5. \A a \in Approvals : Crowded(a)' = Crowded(a)
    BY <1>1 DEF Crowded, Delivered
  <1>6. ASSUME NEW r \in Runs, NEW q \in run'[r].known
        PROVE  /\ run'[q].pc = "over"
               /\ \A a \in Approvals : <<q, a>> \in digests' => Remembers(r, a)'
    <2>1. q \in run[r].known /\ run'[r].seen = run[r].seen
            /\ (run'[r].pc = run[r].pc \/ (run[r].pc # "paused" /\ run'[r].pc = "undelivered"))
      BY <1>2, <1>6
    <2>2. run[q].pc = "over" /\ \A a \in Approvals : <<q, a>> \in digests => Remembers(r, a)
      BY <2>1 DEF MemoryInv
    <2>3. q \in Runs
      BY <2>1, RunFields
    <2> QED BY <1>1, <1>3, <1>5, <2>1, <2>2, <2>3 DEF Remembers
  <1> QED BY <1>4, <1>6 DEF MemoryInv

-----------------------------------------------------------------------------
\* The inductive invariant.
RunsInv == TypeOK /\ KeysInv /\ AuditInv /\ TellInv /\ MemoryInv

LEMMA NextKeeps == RunsInv /\ [Next]_vars => RunsInv'
  <1> SUFFICES ASSUME TypeOK, KeysInv, AuditInv, TellInv, MemoryInv, [Next]_vars
               PROVE  TypeOK' /\ KeysInv' /\ AuditInv' /\ TellInv' /\ MemoryInv'
    BY DEF RunsInv
  <1>1. ASSUME NEW r \in Runs, RunStep(r)
        PROVE  TypeOK' /\ KeysInv' /\ AuditInv' /\ TellInv' /\ MemoryInv'
    <2>1. TypeOK' /\ KeysInv' /\ AuditInv'
      BY <1>1, RunStepKeeps
    <2>2. TellInv'
      BY <1>1, LaunchTells, WorkTells, StoreTells, DeliveryTells DEF RunStep
    <2>3. MemoryInv'
      BY <1>1, <2>1, RunStepRemembers
    <2> QED BY <2>1, <2>2, <2>3
  <1>2. CASE DeleteSearch
    <2>1. deleted' = TRUE /\ UNCHANGED <<keyVars, run, stored, digests, silent, dropped>>
      BY <1>2 DEF DeleteSearch
    <2>2. TellInv'
      BY <2>1 DEF TellInv, RunsShaped, Settled
    <2>3. KeysInv' /\ AuditInv'
      BY <2>1 DEF keyVars, KeysInv, KeysTypeOK, RequestsShaped, AuditInv, Audited, Unrecorded,
                  Going
    <2>4. MemoryInv'
      BY <2>1 DEF MemoryInv, DigestsDelivered, Remembers, Crowded, Delivered
    <2> QED BY <2>1, <2>2, <2>3, <2>4 DEF TypeOK, KeysInv
  <1>3. CASE Restart
    <2>1. KeysInv' /\ Audited \subseteq Audited' /\ UNCHANGED credential
      BY <1>3, KeysStep DEF Restart, Rotate
    <2>2. /\ run' = [r \in Runs |-> Interrupted(r)] /\ silent' \subseteq Runs
          /\ UNCHANGED <<deleted, stored, digests, dropped>>
      BY <1>3 DEF Restart, TypeOK
    <2>3. \A r \in Runs : Interrupted(r) \in Run /\ Interrupted(r).key \in {run[r].key, "none"}
      <3> SUFFICES ASSUME NEW r \in Runs
                   PROVE  Interrupted(r) \in Run /\ Interrupted(r).key \in {run[r].key, "none"}
        OBVIOUS
      <3> QED BY InterruptedFields, EndedFields
    <2>4. AuditInv'
      BY <2>1, <2>2, <2>3 DEF AuditInv
    <2>5. TypeOK'
      BY <2>1, <2>2, <2>3 DEF TypeOK, KeysInv
    <2> QED BY <1>3, <2>1, <2>4, <2>5, RestartTells, RestartRemembers
  <1>4. CASE KeyRequest
    <2>1. KeysInv' /\ Audited \subseteq Audited' /\ UNCHANGED runVars
      BY <1>4, KeysStep DEF KeyRequest
    <2>2. AuditInv'
      BY <2>1 DEF AuditInv, KeysInv, runVars
    <2>3. TellInv'
      BY <2>1 DEF runVars, TellInv, RunsShaped, Settled, AnswersFor
    <2>4. TypeOK'
      BY <2>1 DEF TypeOK, KeysInv, runVars
    <2>5. MemoryInv'
      BY <2>1 DEF runVars, MemoryInv, DigestsDelivered, Remembers, Crowded, Delivered
    <2> QED BY <2>1, <2>2, <2>3, <2>4, <2>5
  <1>5. CASE UNCHANGED vars
    <2>1. UNCHANGED keyVars /\ UNCHANGED runVars
      BY <1>5 DEF vars
    <2>2. KeysInv' /\ AuditInv'
      BY <2>1 DEF keyVars, runVars, KeysInv, KeysTypeOK, RequestsShaped, AuditInv, Audited,
                  Unrecorded, Going
    <2>3. TellInv'
      BY <2>1 DEF runVars, TellInv, RunsShaped, Settled, AnswersFor
    <2>4. TypeOK'
      BY <2>1, <2>2 DEF TypeOK, KeysInv, runVars
    <2>5. MemoryInv'
      BY <2>1 DEF runVars, MemoryInv, DigestsDelivered, Remembers, Crowded, Delivered
    <2> QED BY <2>2, <2>3, <2>4, <2>5
  <1>6. Next => (\E r \in Runs : RunStep(r)) \/ DeleteSearch \/ Restart \/ KeyRequest
    BY DEF Next, RunStep
  <1> QED BY <1>1, <1>2, <1>3, <1>4, <1>5, <1>6

LEMMA InitKeeps == Init => RunsInv
  <1>1. Init => RequestsShaped /\ credential.key = "none"
    BY DEF Init, KeysInit, RequestsShaped, NoRequest, NoCredential
  <1>2. Init => MemoryInv
    BY DEF Init, NotYet, MemoryInv, DigestsDelivered
  <1> QED BY <1>1, <1>2, InitTells DEF RunsInv, KeysInv, TypeOK

LEMMA RunsInvHolds == Spec => []RunsInv
  BY InitKeeps, NextKeeps, PTL DEF Spec

\* Every variable is of its kind, so no key is stored without the wallet
\* KeeperHub has confirmed.
THEOREM RunsTypes == Spec => []TypeOK
  <1>1. RunsInv => TypeOK
    BY DEF RunsInv
  <1> QED BY <1>1, RunsInvHolds, PTL

\* Whatever a run has found was told to the owner, or a named failure kept it.
THEOREM RunsTellFindings == Spec => []EveryFindingIsTold
  <1>1. RunsInv => EveryFindingIsTold
    <2> SUFFICES ASSUME RunsInv, NEW r \in Over, NEW a \in stored[r],
                        ~ deleted, a \notin dropped
                 PROVE  \E q \in Runs : \/ <<q, a>> \in digests
                                        \/ a \in stored[q] /\ (q \in silent \/ ~ At(q, "over"))
      BY DEF EveryFindingIsTold
    <2>1. r \in Runs
      BY DEF Over
    <2>2. Settled(a)
      BY <2>1 DEF RunsInv, TellInv
    <2>3. PICK q \in Runs : AnswersFor(q, a)
      BY <2>2 DEF Settled
    <2> QED BY <2>3 DEF AnswersFor, At
  <1> QED BY <1>1, RunsInvHolds, PTL

\* A run tells again what a run it knows to be over has told only if that was
\* dropped by a second delivery, or if as many approvals as a memory holds come
\* before it.
THEOREM RunsNotifyOnce == Spec => []NotifiedOnce
  <1>1. RunsInv => NotifiedOnce
    <2> SUFFICES ASSUME RunsInv, NEW r \in Runs, run[r].pc = "digest",
                        NEW q \in run[r].known, NEW a \in New(r), <<q, a>> \in digests
                 PROVE  a \in dropped \/ Crowded(a)
      BY DEF NotifiedOnce, At
    <2>1. a \in Approvals
      BY RunFields DEF RunsInv, New, Findings
    <2>2. Remembers(r, a)
      BY <2>1 DEF RunsInv, MemoryInv
    <2> QED BY <2>2 DEF Remembers, New
  <1> QED BY <1>1, RunsInvHolds, PTL

\* A key that goes to the worker has its security event, or a named failure
\* kept it from the trail.
THEOREM RunsAuditKeys == Spec => []KeysAreAudited
  <1>1. RunsInv => KeysAreAudited
    BY DEF RunsInv, AuditInv, Audited, KeysAreAudited
  <1> QED BY <1>1, RunsInvHolds, PTL
=============================================================================

--------------------------- MODULE RecurringRuns ----------------------------
(***************************************************************************)
(* The runs of one recurring scan, from the memory a launch or an answer   *)
(* sends along (recent_approval_keys_for_recurring) and the key of the     *)
(* owner's KeeperHub, through the worker, to the findings and the digest   *)
(* of what is new (application/ingest_results.rs).  Who leads the ticks is *)
(* Scheduler's business, the status of a job JobLifecycle's; here a run is *)
(* at the access that comes next.                                          *)
(***************************************************************************)
EXTENDS KeeperHubKeys

CONSTANTS MaxRuns,     \* bound: how often the search runs
          Approvals,   \* what a scan may find: the (chain, token, spender)s
          Rank,        \* [Approvals -> Nat], the order of the memory's query
          SeenLimit,   \* SEEN_APPROVAL_KEYS_LIMIT
          MaxTries     \* bound: how often a task is run again

ASSUME RunsAssumption ==
    /\ MaxRuns \in Nat
    /\ MaxTries \in Nat
    /\ SeenLimit \in Nat \ {0}
    /\ IsFiniteSet(Approvals)
    /\ Rank \in [Approvals -> Nat]
    /\ \A a, b \in Approvals : Rank[a] = Rank[b] => a = b

VARIABLES deleted,  \* whether the owner has deleted the search
          run,      \* [Runs -> the run], in the order of their jobs
          stored,   \* [Runs -> approval_findings of its job]
          digests,  \* the digests that arrived, as <<run, approval>>
          silent,   \* the runs that ended, or remember themselves, untold
          dropped   \* the findings a second delivery of a run replaced

runVars == <<deleted, run, stored, digests, silent, dropped>>
vars == <<keyVars, runVars>>

Runs == 1..MaxRuns

\* What a job has in approval_findings, by their keys.
Findings == SUBSET Approvals

\* seen and key go with the task; found is what the scan of the worker found;
\* known are the runs that were over when the memory was read.
Run == [pc: {"none", "insert", "key", "send", "queued", "paused", "store",
             "update", "lookup", "digest", "undelivered", "over"},
        seen: Findings, key: ApiKeys \cup {"none"}, found: Findings,
        asked: BOOLEAN, tries: 0..MaxTries, known: SUBSET Runs]

NotYet == [pc |-> "none", seen |-> {}, key |-> "none", found |-> {},
           asked |-> FALSE, tries |-> 0, known |-> {}]

Init == /\ KeysInit
        /\ deleted = FALSE
        /\ run = [r \in Runs |-> NotYet]
        /\ stored = [r \in Runs |-> {}]
        /\ digests = {}
        /\ silent = {}
        /\ dropped = {}

At(r, pc) == run[r].pc = pc
\* Nothing more is asked of a run that is over.
Ended == [NotYet EXCEPT !.pc = "over"]

Step(r, from, to) ==
    /\ At(r, from)
    /\ run' = [run EXCEPT ![r] = IF to = "over" THEN Ended ELSE [run[r] EXCEPT !.pc = to]]

(***************************************************************************)
(* What a launch or an answer sends along.                                 *)
(***************************************************************************)
Delivered == UNION {stored[r] : r \in Runs}

\* recent_approval_keys_for_recurring: the rows are in the order of their
\* keys, and the limit cuts that order.  A deleted search has no rows.
Memory == IF deleted THEN {}
          ELSE {a \in Delivered :
                  Cardinality({b \in Delivered : Rank[b] < Rank[a]}) < SeenLimit}

Over == {r \in Runs : At(r, "over")}

\* RunDueSearches::execute reads the memory; a tick launches one run at a time.
Launch(r) ==
    /\ At(r, "none")
    /\ \A q \in Runs : q < r => run[q].pc \notin {"none", "insert", "key", "send"}
    /\ ~ deleted
    /\ run' = [run EXCEPT ![r].pc = "insert", ![r].seen = Memory, ![r].known = Over]
    /\ UNCHANGED <<keyVars, deleted, stored, digests, silent, dropped>>

\* The job of the run; the search it names may be gone.
InsertRun(r) ==
    /\ Step(r, "insert", IF deleted THEN "over" ELSE "key")
    /\ UNCHANGED <<keyVars, deleted, stored, digests, silent, dropped>>

\* Mutant of Answer: the memory is lost across the pause.
AnswerForgetful(r) ==
    /\ At(r, "paused")
    /\ run' = [run EXCEPT ![r].pc = "key", ![r].known = Over]
    /\ silent' = IF stored[r] = {} THEN silent ELSE silent \cup {r}
    /\ UNCHANGED <<keyVars, deleted, stored, digests, dropped>>

\* AnswerClarification::execute: the memory is read again, and holds what an
\* earlier try of the same run has stored.
Answer(r) ==
    /\ At(r, "paused")
    /\ run' = [run EXCEPT ![r].pc = "key", ![r].seen = Memory, ![r].known = Over]
    /\ silent' = IF stored[r] = {} THEN silent ELSE silent \cup {r}
    /\ UNCHANGED <<keyVars, deleted, stored, digests, dropped>>

ReadKey(r) ==
    /\ At(r, "key")
    /\ \E k \in DispatchKeys : run' = [run EXCEPT ![r].pc = "send", ![r].key = k]
    /\ UNCHANGED <<keyVars, deleted, stored, digests, silent, dropped>>

\* The dispatch, taken or refused by the agent; a task that is run again is
\* sent the same, and which key it has is of no more interest here.
SendRun(r) ==
    /\ \/ /\ At(r, "send")
          /\ run' = [run EXCEPT ![r].pc = "queued", ![r].key = "none"]
          /\ UNCHANGED silent
       \/ Step(r, "send", "over") /\ silent' = silent \cup {r}
    /\ UNCHANGED <<keyVars, deleted, stored, digests, dropped>>

(***************************************************************************)
(* The worker and its delivery.                                            *)
(***************************************************************************)
\* The task scans; what it finds is up to the chains it reaches.
Scan(r) ==
    /\ At(r, "queued")
    /\ \E found \in Findings :
          run' = [run EXCEPT ![r].pc = "store", ![r].found = found]
    /\ UNCHANGED <<keyVars, deleted, stored, digests, silent, dropped>>

\* The agent asks the owner first; the answer is another task.
Ask(r) ==
    /\ At(r, "queued") /\ ~ run[r].asked
    /\ run' = [run EXCEPT ![r].pc = "paused", ![r].asked = TRUE, ![r].seen = {}]
    /\ UNCHANGED <<keyVars, deleted, stored, digests, silent, dropped>>

\* flag_new.
New(r) == run[r].found \ run[r].seen

\* IngestResults::complete stores the findings, in one transaction ...
Store(r) ==
    /\ Step(r, "store", "update")
    /\ stored' = [stored EXCEPT ![r] = run[r].found]
    /\ dropped' = dropped \cup (stored[r] \ run[r].found)
    /\ UNCHANGED <<keyVars, deleted, digests, silent>>

\* ... writes the row ...
UpdateRow(r) ==
    /\ Step(r, "update", "lookup")
    /\ UNCHANGED <<keyVars, deleted, stored, digests, silent, dropped>>

\* Mutant of Lookup: a run that is delivered again sends no digest.
LookupOnce(r) ==
    /\ Step(r, "lookup",
            IF New(r) # {} /\ ~ deleted /\ run[r].tries = 0
            THEN "digest" ELSE "over")
    /\ UNCHANGED <<keyVars, deleted, stored, digests, silent, dropped>>

\* ... and looks for the webhook if there is something new to tell.
Lookup(r) ==
    /\ Step(r, "lookup", IF New(r) # {} /\ ~ deleted THEN "digest" ELSE "over")
    /\ UNCHANGED <<keyVars, deleted, stored, digests, silent, dropped>>

\* The digest arrives, and the reply to the worker or not.
SendDigest(r) ==
    /\ \E to \in {"over", "undelivered"} : Step(r, "digest", to)
    /\ digests' = digests \cup ({r} \X New(r))
    /\ UNCHANGED <<keyVars, deleted, stored, silent, dropped>>

\* The lookup or the webhook fails, and nobody tries again.
DigestFails(r) ==
    /\ Step(r, "lookup", "over") \/ Step(r, "digest", "over")
    /\ silent' = silent \cup {r}
    /\ UNCHANGED <<keyVars, deleted, stored, digests, dropped>>

\* The delivery fails, or only its reply is lost, and the task runs again.
Again(r) ==
    /\ run[r].pc \in {"store", "update", "lookup", "digest", "undelivered"}
    /\ run[r].tries < MaxTries
    /\ run' = [run EXCEPT ![r].pc = "queued", ![r].tries = run[r].tries + 1,
                          ![r].found = {}]
    /\ UNCHANGED <<keyVars, deleted, stored, digests, silent, dropped>>

\* The task is lost or has no tries left.
GiveUp(r) ==
    /\ run[r].pc \in {"queued", "store", "update", "undelivered"}
    /\ run' = [run EXCEPT ![r] = Ended]
    /\ silent' = silent \cup {r}
    /\ UNCHANGED <<keyVars, deleted, stored, digests, dropped>>

(***************************************************************************)
(* The owner and the deployment.                                           *)
(***************************************************************************)
DeleteSearch ==
    /\ ~ deleted
    /\ deleted' = TRUE
    /\ UNCHANGED <<keyVars, run, stored, digests, silent, dropped>>

\* Launches and deliveries in progress end with the backend.
Interrupted(r) ==
    CASE run[r].pc \in {"insert", "key", "send"} -> Ended
      [] run[r].pc \in {"update", "lookup", "digest"} -> [run[r] EXCEPT !.pc = "undelivered"]
      [] OTHER -> run[r]

Restart ==
    /\ Rotate
    /\ run' = [r \in Runs |-> Interrupted(r)]
    /\ silent' = silent \cup {r \in Runs : run[r].pc \in {"insert", "key", "send"}}
    /\ UNCHANGED <<deleted, stored, digests, dropped>>

KeyRequest == KeysNext /\ UNCHANGED runVars

Next == \/ \E r \in Runs :
              \/ Launch(r) \/ InsertRun(r) \/ Answer(r) \/ ReadKey(r) \/ SendRun(r)
              \/ Scan(r) \/ Ask(r) \/ Store(r) \/ UpdateRow(r) \/ Lookup(r)
              \/ SendDigest(r) \/ DigestFails(r) \/ Again(r) \/ GiveUp(r)
        \/ DeleteSearch \/ Restart \/ KeyRequest

Spec == Init /\ [][Next]_vars

\* Every variable is of its kind; above all, no key is stored without the
\* wallet KeeperHub has confirmed.
TypeOK ==
    /\ KeysTypeOK
    /\ deleted \in BOOLEAN
    /\ run \in [Runs -> Run]
    /\ stored \in [Runs -> Findings]
    /\ digests \subseteq Runs \X Approvals
    /\ silent \subseteq Runs
    /\ dropped \subseteq Approvals

\* As many approvals as a memory may hold have been delivered that come before
\* this one in the order of the query, so that the limit may have cut it.
Crowded(a) ==
    Cardinality({b \in Delivered \cup dropped : Rank[b] < Rank[a]}) >= SeenLimit

\* "The same live approval never re-alerts on every tick": a run tells what
\* another has told only if that one was not over when its memory was read, was
\* delivered a second time without the approval, or if the limit may have cut
\* this very approval from the memory, however much it has cut otherwise.
NotifiedOnce ==
    \A r \in Runs : At(r, "digest") =>
        \A q \in run[r].known : \A a \in New(r) :
            <<q, a>> \in digests => a \in dropped \/ Crowded(a)

\* What a run has found was told to the owner, by it or by the run it is known
\* from, however runs overlap and are delivered again: what a memory holds was
\* digested, unless the run it is from is under way, was silenced by a failure
\* or was delivered again without it.
EveryFindingIsTold ==
    \A r \in Over : \A a \in stored[r] :
        \/ deleted
        \/ a \in dropped
        \/ \E q \in Runs : \/ <<q, a>> \in digests
                           \/ a \in stored[q] /\ (q \in silent \/ ~ At(q, "over"))

\* "This is the moment an account gains the ability to send transactions. It
\* belongs in the audit trail": a key that goes to the worker has its security
\* event, or the request that connects it is about to write it or failed to.
KeysAreAudited ==
    \A r \in Runs :
        run[r].key # "none" => run[r].key \in trail \cup missed \cup Unrecorded(KeyRequests)

\* What the latest run delivered.
MemoryOfLatest ==
    LET latest == {r \in Runs : stored[r] # {} /\ \A q \in Runs : stored[q] # {} => q <= r}
    IN  UNION {stored[r] : r \in latest}

\* "Most recent first, capped by limit": the memory has all the latest delivery
\* holds, or nothing else.
MemoryIsRecent ==
    deleted \/ MemoryOfLatest \subseteq Memory \/ Memory \subseteq MemoryOfLatest
=============================================================================

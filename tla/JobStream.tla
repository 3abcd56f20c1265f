----------------------------- MODULE JobStream ------------------------------
(***************************************************************************)
(* What the console is shown of a job while it lives: the detail that GET  *)
(* /api/searches/{id} answers and that the event stream reads again every  *)
(* second (application/queries.rs, adapters/http/sse.rs).  The detail is   *)
(* put together from three reads, of the row, the findings and the         *)
(* journal, with nothing locked in between.                                *)
(*                                                                         *)
(* The stream only sends a detail that differs from the last it sent.  A   *)
(* detail that does not would change nothing, so the last is not kept.     *)
(***************************************************************************)
EXTENDS JobLifecycle

VARIABLE stream   \* [Jobs -> an open stream and the detail it is reading]

streamVars == <<vars, stream>>

\* ScanJob::is_finished
Finished(status) == status \in {"completed", "failed"}

\* status, if it is a terminal one, and answered are of the row read, delivered
\* is of the findings read.
Stream == [pc: {"closed", "find", "results", "steps"},
           status: {"none", "completed", "failed"}, answered: BOOLEAN, delivered: BOOLEAN]

Closed == [pc |-> "closed", status |-> "none", answered |-> FALSE, delivered |-> FALSE]

StreamInit == Init /\ stream = [j \in Jobs |-> Closed]

Polls(j, s) == /\ stream' = [stream EXCEPT ![j] = s]
               /\ UNCHANGED vars

\* search_events looks the job up before it opens a stream, which does so again.
Open(j) == /\ stream[j].pc = "closed"
           /\ row[j] # NoRow
           /\ Polls(j, [Closed EXCEPT !.pc = "find"])

\* JobRepository::find, of what the detail shows of the row.
FindRow(j, from, to) ==
    /\ stream[j].pc = from
    /\ Polls(j, [stream[j] EXCEPT
                   !.pc = to, !.answered = row[j].answer # 0,
                   !.status = IF Finished(row[j].status) THEN row[j].status ELSE "none"])

\* JobRepository::results_for; the order they are sorted in is left out.
ResultsFor(j, from, to) ==
    /\ stream[j].pc = from
    /\ Polls(j, [stream[j] EXCEPT !.pc = to, !.delivered = results[j] # {}])

\* Mutant of Reads: the findings first.
ReadsBackwards(j) == ResultsFor(j, "find", "results") \/ FindRow(j, "results", "steps")

\* SearchQueries::get, up to the journal.
Reads(j) == FindRow(j, "find", "results") \/ ResultsFor(j, "results", "steps")

\* JobRepository::steps_for: the run whose steps the journal holds.
StepsFor(j) == journal[j]

\* job_detail_json, as soon as the journal is read.
Detail(j) == [completed |-> stream[j].status = "completed",
              answered  |-> stream[j].answered,
              delivered |-> stream[j].delivered,
              steps     |-> StepsFor(j)]

\* The detail is sent as an event: that of a terminal status is the last.
Emit(j) == /\ stream[j].pc = "steps"
           /\ Polls(j, IF Finished(stream[j].status) THEN Closed
                       ELSE [Closed EXCEPT !.pc = "find"])

\* The same as the answer to a GET, which reads once.
GetSearch(j) == /\ stream[j].pc = "steps"
                /\ Polls(j, Closed)

\* A read fails, or the client goes away and opens another stream later.
HangUp(j) == /\ stream[j].pc # "closed"
             /\ Polls(j, Closed)

StreamNext ==
    \/ Next /\ UNCHANGED stream
    \/ \E j \in Jobs : Open(j) \/ Reads(j) \/ Emit(j) \/ GetSearch(j) \/ HangUp(j)

StreamSpec == StreamInit /\ [][StreamNext]_streamVars

\* The three reads of a detail about to be sent agree, whatever was written
\* between them: one that says completed shows findings, although it is the
\* last one and no other follows; and one that shows the user's answer shows no
\* step of the run that asked.  It rests on the order of the reads, which is
\* the reverse of the order of the writes (ingest_results.rs, queries.rs).
DetailIsCoherent ==
    \A j \in Jobs :
        stream[j].pc = "steps" =>
            /\ Detail(j).completed => Detail(j).delivered
            /\ Detail(j).answered => Detail(j).steps # 1
=============================================================================

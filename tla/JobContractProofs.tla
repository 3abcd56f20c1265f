------------------------- MODULE JobContractProofs -------------------------
(***************************************************************************)
(* What the rows say, proved on top of the type invariant: the columns of  *)
(* a row agree, a completed job has its findings, and every step but a     *)
(* stale write is a step of the contract; what a life without faults adds  *)
(* to that, and what a stream shows of it.                                 *)
(***************************************************************************)
EXTENDS JobLifecycleProofs, JobStream

-----------------------------------------------------------------------------
(***************************************************************************)
(* Rows and their copies are consistent.                                   *)
(***************************************************************************)
RowInv == RowsConsistent /\ CopiesConsistent

\* The methods of ScanJob keep the columns of a row in agreement.
LEMMA MethodsConsistent ==
    ASSUME NEW job \in Rows({0} \cup Tasks), Consistent(job)
    PROVE  /\ Consistent(Started(job))
           /\ Consistent(Completed(job))
           /\ Consistent(Failed(job))
           /\ Consistent(AwaitingInput(job))
           /\ \A k \in Tasks : job.status = "awaiting_input" => Consistent(Answered(job, k))
  BY DEF Rows, Statuses, Consistent, Started, Completed, Failed, AwaitingInput, Answered,
         Unfinished

LEMMA NewRowsConsistent == Consistent(NoRow) /\ Consistent(NewJob)
  BY DEF Consistent, NoRow, NewJob

LEMMA InitRowInv == Init => RowInv
  BY NewRowsConsistent DEF Init, RowInv, RowsConsistent, CopiesConsistent

\* A write of a consistent row leaves the table consistent.
LEMMA WriteConsistent ==
    ASSUME TypeInv, RowInv, NEW j \in Jobs, NEW copy, Write(j, copy), Consistent(copy)
    PROVE  RowsConsistent'
  <1>1. \A i \in Jobs : row'[i] = IF i = j THEN copy ELSE row[i]
    BY DEF Write, TypeInv, TypeOK
  <1> QED BY <1>1 DEF RowInv, RowsConsistent

\* The requests that are not new, and the reaper's list, stay consistent.
LEMMA CopiesStep ==
    ASSUME TypeInv, RowInv, batch' = batch,
           \A c \in calls' : c \in calls \/ CopyConsistent(c)
    PROVE  CopiesConsistent'
  BY DEF RowInv, CopiesConsistent, CopyConsistent

\* A fresh callback holds no copy.
LEMMA CallbackConsistent ==
    ASSUME NEW j, NEW k, NEW run, NEW op \in Callbacks
    PROVE  CopyConsistent(Callback(j, k, run, op))
  BY NewRowsConsistent DEF CopyConsistent, Callback, Callbacks

\* RowInv is inductive, given TypeInv.
LEMMA NextRowInv == TypeInv /\ RowInv /\ [Next]_vars => RowInv'
  <1> SUFFICES ASSUME TypeInv, RowInv, [Next]_vars
               PROVE  RowInv'
    OBVIOUS
  <1> USE DEF RowInv
  <1>1. ASSUME NEW j \in Jobs, Launch(j)
        PROVE  RowInv'
    <2>1. RowsConsistent'
      BY <1>1, WriteConsistent, NewRowsConsistent DEF Launch
    <2>2. \A c \in calls' : c \in calls \/ CopyConsistent(c)
      BY <1>1, NewRowsConsistent DEF Launch, CopyConsistent
    <2> QED BY <1>1, <2>1, <2>2, CopiesStep DEF Launch
  <1>2. ASSUME NEW j \in Jobs, Age(j)
        PROVE  RowInv'
    BY <1>2 DEF Age, RowsConsistent, CopiesConsistent, CopyConsistent
  <1>3. ASSUME NEW j \in Jobs, Reap(j)
        PROVE  RowInv'
    <2>1. batch[j] \in Rows({0} \cup Tasks) /\ Consistent(batch[j])
      BY <1>3 DEF Reap, TypeInv, TypeOK, CopiesConsistent
    <2>2. RowsConsistent'
      BY <1>3, <2>1, WriteConsistent, MethodsConsistent DEF Reap
    <2>3. \A i \in Jobs : batch'[i] = batch[i] \/ batch'[i] = NoRow
      BY <1>3 DEF Reap, TypeInv, TypeOK
    <2>4. calls' = calls
      BY <1>3 DEF Reap
    <2> QED BY <2>2, <2>3, <2>4, NewRowsConsistent DEF CopiesConsistent, CopyConsistent
  <1>4. ASSUME NEW j \in Jobs, NEW k \in Tasks, Answer(j, k)
        PROVE  RowInv'
    <2>1. \A c \in calls' : c \in calls \/ CopyConsistent(c)
      BY <1>4 DEF Answer, CopyConsistent, RowsConsistent
    <2> QED BY <1>4, <2>1, CopiesStep DEF Answer, RowsConsistent
  <1>5. ASSUME NEW j \in Jobs, NEW k \in Tasks,
               Worker(j, k) \/ Crash(j, k) \/ LoseMessage(j, k)
        PROVE  RowInv'
    <2>1. \A c \in calls' : c \in calls \/ CopyConsistent(c)
      BY <1>5, CallbackConsistent
         DEF Worker, Crash, LoseMessage, Execute, ReportStep, Ask, Deliver, ScanFailed,
             Proceed, Callbacks
    <2>2. row' = row /\ batch' = batch
      BY <1>5 DEF Worker, Crash, LoseMessage, Execute, ReportStep, Ask, Deliver,
                  ScanFailed, Proceed
    <2> QED BY <2>1, <2>2, CopiesStep DEF RowsConsistent
  <1>6. ASSUME NEW c \in calls, Backend(c)
        PROVE  RowInv'
    <2> DEFINE Good == \A d \in calls' : d \in calls \/ CopyConsistent(d)
    <2>0. /\ CopyConsistent(c) /\ c.job \in Jobs /\ c.by \in Tasks
          /\ Read(c) => c.copy \in Rows({0} \cup Tasks)
          /\ CallShape(c) /\ c \in Call
      BY CallKnown, CallTypes DEF CopiesConsistent
    <2>1. CASE ClearSteps(c)
      <3>1. Good /\ row' = row /\ batch' = batch
        BY <2>0, <2>1 DEF ClearSteps, Continue, CopyConsistent, Call
      <3> QED BY <3>1, CopiesStep DEF RowsConsistent
    <2>2. CASE UpdateAnswered(c)
      <3>1. c.copy.status = "awaiting_input" /\ Consistent(c.copy)
        BY <2>0, <2>2 DEF UpdateAnswered, CopyConsistent
      <3>2. Consistent(Answered(c.copy, c.by))
        BY <2>0, <2>2, <3>1, MethodsConsistent DEF UpdateAnswered, Read
      <3>3. Good
        BY <2>0, <2>2, <3>2 DEF UpdateAnswered, Continue, CopyConsistent, Call
      <3>4. RowsConsistent' /\ batch' = batch
        BY <2>0, <2>2, <3>2, WriteConsistent DEF UpdateAnswered
      <3> QED BY <3>3, <3>4, CopiesStep
    <2>3. CASE Dispatch(c) \/ DispatchReplyLost(c) \/ DispatchFailed(c)
      <3>1. Good /\ row' = row /\ batch' = batch
        BY <2>0, <2>3 DEF Dispatch, DispatchReplyLost, DispatchFailed, CopyConsistent, Call
      <3> QED BY <3>1, CopiesStep DEF RowsConsistent
    <2>4. CASE UpdateRefused(c)
      <3>1. Consistent(Failed(c.copy))
        BY <2>0, <2>4, MethodsConsistent DEF UpdateRefused, Read, CopyConsistent
      <3>2. Good /\ RowsConsistent' /\ batch' = batch
        BY <2>0, <2>4, <3>1, WriteConsistent DEF UpdateRefused
      <3> QED BY <3>2, CopiesStep
    <2>5. CASE Find(c)
      <3>1. Good /\ row' = row /\ batch' = batch
        BY <2>0, <2>5 DEF Find, Continue, CopyConsistent, RowsConsistent, Call, CallShape,
                          Requests
      <3> QED BY <3>1, CopiesStep DEF RowsConsistent
    <2>6. CASE Purge(c) \/ Commit(c)
      <3>1. c.op # "answer" /\ row' = row /\ batch' = batch
        BY <2>0, <2>6 DEF Purge, Commit, CallShape
      <3>2. Consistent(c.copy)
        BY <2>0 DEF CopyConsistent
      <3>3. Good
        <4>1. CASE Purge(c)
          BY <2>0, <4>1, <3>1, <3>2 DEF Purge, Continue, CopyConsistent, Call
        <4>2. CASE Commit(c)
          BY <2>0, <4>2, <3>1, <3>2 DEF Commit, Continue, CopyConsistent, Call
        <4> QED BY <2>6, <4>1, <4>2
      <3> QED BY <3>1, <3>3, CopiesStep DEF RowsConsistent
    <2>7. CASE AppendStep(c)
      <3>1. Good /\ row' = row /\ batch' = batch
        BY <2>7 DEF AppendStep, Reply
      <3> QED BY <3>1, CopiesStep DEF RowsConsistent
    <2>8. CASE Update(c)
      <3>1. Consistent(Applied(c))
        BY <2>0, <2>8, MethodsConsistent DEF Update, Read, CopyConsistent, Applied
      <3>2. Good /\ RowsConsistent' /\ batch' = batch
        BY <2>0, <2>8, <3>1, WriteConsistent DEF Update, Reply
      <3> QED BY <3>2, CopiesStep
    <2> QED BY <1>6, <2>1, <2>2, <2>3, <2>4, <2>5, <2>6, <2>7, <2>8 DEF Backend
  <1>7. ASSUME NEW c \in calls, Abort(c) \/ Timeout(c)
        PROVE  RowInv'
    <2>1. \A d \in calls' : d \in calls \/ CopyConsistent(d)
      BY <1>7, CallbackConsistent DEF Abort, Timeout, Raise, Callbacks
    <2>2. row' = row /\ batch' = batch
      BY <1>7 DEF Abort, Timeout
    <2> QED BY <2>1, <2>2, CopiesStep DEF RowsConsistent
  <1>8. CASE ListStale \/ ReaperAbort
    <2>1. \A j \in Jobs : batch'[j] = row[j] \/ batch'[j] = NoRow
      BY <1>8 DEF ListStale, ReaperAbort
    <2>2. row' = row /\ calls' = calls
      BY <1>8 DEF ListStale, ReaperAbort
    <2> QED BY <2>1, <2>2, NewRowsConsistent
            DEF RowsConsistent, CopiesConsistent, CopyConsistent
  <1>9. CASE UNCHANGED vars
    BY <1>9 DEF vars, RowsConsistent, CopiesConsistent, CopyConsistent
  <1> QED BY <1>1, <1>2, <1>3, <1>4, <1>5, <1>6, <1>7, <1>8, <1>9 DEF Next

\* However the writers of a row interleave, its columns agree.
THEOREM RowsStayConsistent == Spec => []RowsConsistent
  <1>1. RowInv => RowsConsistent
    BY DEF RowInv
  <1> QED BY <1>1, InitRowInv, NextRowInv, TypeInvAlways, PTL DEF Spec

-----------------------------------------------------------------------------
(***************************************************************************)
(* A completed job has its findings.                                       *)
(***************************************************************************)
FindingsInv == CompletedHasFindings /\ CopiesHaveFindings

LEMMA InitFindingsInv == Init => FindingsInv
  BY DEF Init, FindingsInv, CompletedHasFindings, CopiesHaveFindings, NoRow

\* Findings are replaced, never taken away.
LEMMA FindingsStay ==
    ASSUME TypeInv, [Next]_vars, NEW j \in Jobs, results[j] # {}
    PROVE  results'[j] # {}
  <1>1. CASE results' = results
    BY <1>1
  <1>2. ASSUME NEW c \in calls, Commit(c)
        PROVE  results'[j] # {}
    BY <1>2 DEF Commit, TypeInv, TypeOK
  <1>3. results' = results \/ \E c \in calls : Commit(c)
    <2>1. ASSUME NEW i \in Jobs, Launch(i) \/ Age(i) \/ Reap(i)
          PROVE  results' = results
      BY <2>1 DEF Launch, Age, Reap
    <2>2. ASSUME NEW i \in Jobs, NEW k \in Tasks,
                 Answer(i, k) \/ Crash(i, k) \/ LoseMessage(i, k)
          PROVE  results' = results
      BY <2>2 DEF Answer, Crash, LoseMessage
    <2>3. ASSUME NEW i \in Jobs, NEW k \in Tasks, Worker(i, k)
          PROVE  results' = results
      BY <2>3 DEF Worker, Execute, ReportStep, Ask, Deliver, ScanFailed, Proceed
    <2>4. ASSUME NEW c \in calls, Backend(c), ~Commit(c)
          PROVE  results' = results
      BY <2>4 DEF Backend, ClearSteps, UpdateAnswered, Dispatch, DispatchReplyLost,
                  DispatchFailed, UpdateRefused, Find, Purge, AppendStep, Update
    <2>5. ASSUME NEW c \in calls, Abort(c) \/ Timeout(c)
          PROVE  results' = results
      BY <2>5 DEF Abort, Timeout
    <2>6. ListStale \/ ReaperAbort \/ UNCHANGED vars => results' = results
      BY DEF ListStale, ReaperAbort, vars
    <2> QED BY <2>1, <2>2, <2>3, <2>4, <2>5, <2>6 DEF Next
  <1> QED BY <1>1, <1>2, <1>3

\* Only complete makes a copy say completed.
LEMMA MethodsStatus ==
    ASSUME NEW job \in Rows({0} \cup Tasks)
    PROVE  /\ Started(job).status = "completed" => job.status = "completed"
           /\ Failed(job).status = "completed" => job.status = "completed"
           /\ AwaitingInput(job).status = "completed" => job.status = "completed"
           /\ \A k \in Tasks : Answered(job, k).status # "completed"
  BY DEF Rows, Started, Failed, AwaitingInput, Answered, Unfinished

\* A write keeps the table's promise if its copy does.
LEMMA WriteHasFindings ==
    ASSUME TypeInv, FindingsInv, [Next]_vars, NEW j \in Jobs, NEW copy, Write(j, copy),
           copy.status = "completed" => results[j] # {}
    PROVE  CompletedHasFindings'
  <1>1. \A i \in Jobs : row'[i] = IF i = j THEN copy ELSE row[i]
    BY DEF Write, TypeInv, TypeOK
  <1>2. \A i \in Jobs : row'[i].status = "completed" => results[i] # {}
    BY <1>1 DEF FindingsInv, CompletedHasFindings
  <1> QED BY <1>2, FindingsStay DEF CompletedHasFindings

\* An untouched table keeps it.
LEMMA SameHasFindings ==
    ASSUME TypeInv, FindingsInv, [Next]_vars, row' = row
    PROVE  CompletedHasFindings'
  BY FindingsStay DEF FindingsInv, CompletedHasFindings

\* The requests that are not new, and the reaper's list, keep it.
LEMMA CopiesHaveFindingsStep ==
    ASSUME TypeInv, FindingsInv, [Next]_vars, batch' = batch,
           \A c \in calls' : c \in calls \/ CopyHasFindings(c)
    PROVE  CopiesHaveFindings'
  <1>1. \A c \in calls' : c.job \in Jobs /\ CopyHasFindings(c)
    <2>1. calls' \subseteq Call
      BY NextTypeInv DEF TypeInv, TypeOK
    <2> QED BY <2>1 DEF Call, FindingsInv, CopiesHaveFindings
  <1>2. \A c \in calls' :
          c.copy.status = "completed" \/ (c.op = "results" /\ c.pc = "update")
              => results'[c.job] # {}
    BY <1>1, FindingsStay DEF CopyHasFindings
  <1>3. \A j \in Jobs : batch'[j].status = "completed" => results'[j] # {}
    BY FindingsStay DEF FindingsInv, CopiesHaveFindings
  <1> QED BY <1>2, <1>3 DEF CopiesHaveFindings, CopyHasFindings

\* A fresh callback holds no copy.
LEMMA CallbackHasFindings ==
    ASSUME NEW j, NEW k, NEW run, NEW op
    PROVE  CopyHasFindings(Callback(j, k, run, op))
  BY DEF CopyHasFindings, Callback, NoRow

\* FindingsInv is inductive, given TypeInv.
LEMMA NextFindingsInv == TypeInv /\ FindingsInv /\ [Next]_vars => FindingsInv'
  <1> SUFFICES ASSUME TypeInv, FindingsInv, [Next]_vars
               PROVE  FindingsInv'
    OBVIOUS
  <1>1. ASSUME NEW j \in Jobs, Launch(j)
        PROVE  FindingsInv'
    <2>1. CompletedHasFindings'
      BY <1>1, WriteHasFindings DEF Launch, NewJob, NoRow
    <2>2. \A c \in calls' : c \in calls \/ CopyHasFindings(c)
      BY <1>1 DEF Launch, CopyHasFindings, NewJob, NoRow
    <2> QED BY <1>1, <2>1, <2>2, CopiesHaveFindingsStep DEF Launch, FindingsInv
  <1>2. ASSUME NEW j \in Jobs, Age(j)
        PROVE  FindingsInv'
    BY <1>2, SameHasFindings, CopiesHaveFindingsStep DEF Age, FindingsInv
  <1>3. ASSUME NEW j \in Jobs, Reap(j)
        PROVE  FindingsInv'
    <2>1. batch[j] \in Rows({0} \cup Tasks)
      BY <1>3 DEF Reap, TypeInv, TypeOK
    <2>2. 1 \in Tasks
      BY ConstantsAssumption DEF Tasks
    <2>3. Failed(batch[j]).status = "completed" => results[j] # {}
      BY <2>1, <2>2, MethodsStatus DEF FindingsInv, CopiesHaveFindings
    <2>4. CompletedHasFindings'
      BY <1>3, <2>3, WriteHasFindings DEF Reap
    <2>5. \A i \in Jobs : batch'[i] = batch[i] \/ batch'[i] = NoRow
      BY <1>3 DEF Reap, TypeInv, TypeOK
    <2>6. calls' = calls /\ results' = results
      BY <1>3 DEF Reap
    <2> QED BY <2>4, <2>5, <2>6
            DEF FindingsInv, CopiesHaveFindings, CopyHasFindings, NoRow
  <1>4. ASSUME NEW j \in Jobs, NEW k \in Tasks, Answer(j, k)
        PROVE  FindingsInv'
    <2>1. \A c \in calls' : c \in calls \/ CopyHasFindings(c)
      BY <1>4 DEF Answer, CopyHasFindings
    <2> QED BY <1>4, <2>1, SameHasFindings, CopiesHaveFindingsStep DEF Answer, FindingsInv
  <1>5. ASSUME NEW j \in Jobs, NEW k \in Tasks,
               Worker(j, k) \/ Crash(j, k) \/ LoseMessage(j, k)
        PROVE  FindingsInv'
    <2>1. \A c \in calls' : c \in calls \/ CopyHasFindings(c)
      BY <1>5, CallbackHasFindings
         DEF Worker, Crash, LoseMessage, Execute, ReportStep, Ask, Deliver, ScanFailed,
             Proceed
    <2>2. row' = row /\ batch' = batch
      BY <1>5 DEF Worker, Crash, LoseMessage, Execute, ReportStep, Ask, Deliver,
                  ScanFailed, Proceed
    <2> QED BY <2>1, <2>2, SameHasFindings, CopiesHaveFindingsStep DEF FindingsInv
  <1>6. ASSUME NEW c \in calls, Backend(c)
        PROVE  FindingsInv'
    <2> DEFINE Good == \A d \in calls' : d \in calls \/ CopyHasFindings(d)
    <2>0. /\ c.job \in Jobs /\ c.by \in Tasks /\ CallShape(c) /\ c \in Call
          /\ Read(c) => c.copy \in Rows({0} \cup Tasks)
          /\ c.copy.status = "completed" => results[c.job] # {}
          /\ c.op = "results" /\ c.pc = "update" => results[c.job] # {}
      BY CallKnown, CallTypes DEF FindingsInv, CopiesHaveFindings, CopyHasFindings
    <2>1. CASE ClearSteps(c)
      <3>1. c.op # "results" /\ row' = row /\ batch' = batch
        BY <2>0, <2>1 DEF ClearSteps, CallShape, Requests, Callbacks
      <3>2. Good
        BY <2>0, <2>1, <3>1 DEF ClearSteps, Continue, CopyHasFindings, Call
      <3> QED BY <3>1, <3>2, SameHasFindings, CopiesHaveFindingsStep DEF FindingsInv
    <2>2. CASE UpdateAnswered(c)
      <3>1. Answered(c.copy, c.by).status # "completed"
        BY <2>0, <2>2, MethodsStatus DEF UpdateAnswered, Read
      <3>2. Good
        BY <2>0, <2>2, <3>1 DEF UpdateAnswered, Continue, CopyHasFindings, Call
      <3>3. CompletedHasFindings' /\ batch' = batch
        BY <2>0, <2>2, <3>1, WriteHasFindings DEF UpdateAnswered
      <3> QED BY <3>2, <3>3, CopiesHaveFindingsStep DEF FindingsInv
    <2>3. CASE Dispatch(c) \/ DispatchReplyLost(c) \/ DispatchFailed(c)
      <3>1. Good /\ row' = row /\ batch' = batch
        BY <2>0, <2>3
           DEF Dispatch, DispatchReplyLost, DispatchFailed, CopyHasFindings, Call
      <3> QED BY <3>1, SameHasFindings, CopiesHaveFindingsStep DEF FindingsInv
    <2>4. CASE UpdateRefused(c)
      <3>1. Failed(c.copy).status = "completed" => results[c.job] # {}
        BY <2>0, <2>4, MethodsStatus DEF UpdateRefused, Read
      <3>2. Good /\ CompletedHasFindings' /\ batch' = batch
        BY <2>0, <2>4, <3>1, WriteHasFindings DEF UpdateRefused
      <3> QED BY <3>2, CopiesHaveFindingsStep DEF FindingsInv
    <2>5. CASE Find(c)
      <3>1. Good /\ row' = row /\ batch' = batch
        BY <2>0, <2>5 DEF Find, Continue, CopyHasFindings, Call, FindingsInv,
                          CompletedHasFindings
      <3> QED BY <3>1, SameHasFindings, CopiesHaveFindingsStep DEF FindingsInv
    <2>6. CASE Purge(c)
      <3>1. Good /\ row' = row /\ batch' = batch
        BY <2>0, <2>6 DEF Purge, Continue, CopyHasFindings, Call
      <3> QED BY <3>1, SameHasFindings, CopiesHaveFindingsStep DEF FindingsInv
    <2>7. CASE Commit(c)
      <3>1. results'[c.job] # {} /\ row' = row /\ batch' = batch
        BY <2>0, <2>7 DEF Commit, TypeInv, TypeOK
      <3> DEFINE d == [c EXCEPT !.pc = "update", !.purged = {}]
      <3>2. calls' = (calls \ {c}) \cup {d} /\ d.job = c.job
        BY <2>0, <2>7 DEF Commit, Continue, Call
      <3>3. CompletedHasFindings'
        BY <3>1, SameHasFindings
      <3>4. \A e \in calls : e.job \in Jobs /\ CopyHasFindings(e)
        BY CallTypes DEF FindingsInv, CopiesHaveFindings
      <3>5. \A e \in calls' :
              e.copy.status = "completed" \/ (e.op = "results" /\ e.pc = "update")
                  => results'[e.job] # {}
        <4> HIDE DEF d
        <4> QED BY <3>1, <3>2, <3>4, FindingsStay DEF CopyHasFindings
      <3>6. \A j \in Jobs : batch'[j].status = "completed" => results'[j] # {}
        BY <3>1, FindingsStay DEF FindingsInv, CopiesHaveFindings
      <3> QED BY <3>3, <3>5, <3>6 DEF FindingsInv, CopiesHaveFindings, CopyHasFindings
    <2>8. CASE AppendStep(c)
      <3>1. Good /\ row' = row /\ batch' = batch
        BY <2>8 DEF AppendStep, Reply
      <3> QED BY <3>1, SameHasFindings, CopiesHaveFindingsStep DEF FindingsInv
    <2>9. CASE Update(c)
      <3>1. Applied(c).status = "completed" => results[c.job] # {}
        BY <2>0, <2>9, MethodsStatus DEF Update, Read, Applied
      <3>2. Good /\ CompletedHasFindings' /\ batch' = batch
        BY <2>0, <2>9, <3>1, WriteHasFindings DEF Update, Reply
      <3> QED BY <3>2, CopiesHaveFindingsStep DEF FindingsInv
    <2> QED BY <1>6, <2>1, <2>2, <2>3, <2>4, <2>5, <2>6, <2>7, <2>8, <2>9 DEF Backend
  <1>7. ASSUME NEW c \in calls, Abort(c) \/ Timeout(c)
        PROVE  FindingsInv'
    <2>1. \A d \in calls' : d \in calls \/ CopyHasFindings(d)
      BY <1>7, CallbackHasFindings DEF Abort, Timeout, Raise
    <2>2. row' = row /\ batch' = batch
      BY <1>7 DEF Abort, Timeout
    <2> QED BY <2>1, <2>2, SameHasFindings, CopiesHaveFindingsStep DEF FindingsInv
  <1>8. CASE ListStale \/ ReaperAbort
    <2>1. \A j \in Jobs : batch'[j] = row[j] \/ batch'[j] = NoRow
      BY <1>8 DEF ListStale, ReaperAbort
    <2>2. row' = row /\ calls' = calls /\ results' = results
      BY <1>8 DEF ListStale, ReaperAbort
    <2> QED BY <2>1, <2>2
            DEF FindingsInv, CompletedHasFindings, CopiesHaveFindings, CopyHasFindings, NoRow
  <1>9. CASE UNCHANGED vars
    BY <1>9 DEF vars, FindingsInv, CompletedHasFindings, CopiesHaveFindings, CopyHasFindings
  <1> QED BY <1>1, <1>2, <1>3, <1>4, <1>5, <1>6, <1>7, <1>8, <1>9 DEF Next

\* A completed job has its findings in the table, whatever stale copies of its
\* row are written.
THEOREM CompletedJobsHaveFindings == Spec => []CompletedHasFindings
  <1>1. FindingsInv => CompletedHasFindings
    BY DEF FindingsInv
  <1> QED BY <1>1, InitFindingsInv, NextFindingsInv, TypeInvAlways, PTL DEF Spec

-----------------------------------------------------------------------------
(***************************************************************************)
(* Without a fault: who carries a job, its one question, its fresh journal. *)
(***************************************************************************)
Calm == Synchronous /\ VersionsSettled /\ AnswersCleared /\ UnfinishedIsCarried

\* Whoever asked stays paused.
LEMMA AskedStays ==
    ASSUME TypeInv, [Next]_vars, NEW j \in Jobs, Asked(j)
    PROVE  Asked(j)'
  <1>0. /\ task \in [Jobs -> [Tasks -> Message]] /\ 1 \in Tasks
        /\ task[j][1].pc = "paused"
    BY ConstantsAssumption DEF TypeInv, TypeOK, Tasks, Asked
  <1>1. ASSUME NEW i \in Jobs, NEW k \in Tasks, NEW t,
               task' = [task EXCEPT ![i][k] = t], t = task[i][k] \/ task[i][k].pc # "paused"
        PROVE  Asked(j)'
    <2>1. task'[j][1] = task[j][1]
      BY <1>0, <1>1
    <2> QED BY <1>0, <2>1 DEF Asked
  <1>2. ASSUME task' = task
        PROVE  Asked(j)'
    BY <1>0, <1>2 DEF Asked
  <1>3. ASSUME NEW i \in Jobs, Launch(i) \/ Age(i) \/ Reap(i)
        PROVE  Asked(j)'
    BY <1>2, <1>3 DEF Launch, Age, Reap
  <1>4. ASSUME NEW i \in Jobs, NEW k \in Tasks, NEW pc, Proceed(i, k, pc),
               task[i][k].pc \in {"started", "working"}
        PROVE  Asked(j)'
    <2>1. task' = [task EXCEPT ![i][k] = [task[i][k] EXCEPT !.pc = pc]]
      BY <1>0, <1>4 DEF Proceed
    <2> QED BY <1>1, <1>4, <2>1
  <1>5. ASSUME NEW i \in Jobs, NEW k \in Tasks,
               Answer(i, k) \/ Worker(i, k) \/ Crash(i, k) \/ LoseMessage(i, k)
        PROVE  Asked(j)'
    <2>1. CASE Answer(i, k)
      BY <1>2, <2>1 DEF Answer
    <2>2. ASSUME NEW pc, Execute(i, k, pc)
          PROVE  Asked(j)'
      <3>1. task' = [task EXCEPT ![i][k] = [task[i][k] EXCEPT !.pc = pc, !.run = task[i][k].run + 1]]
        BY <1>0, <2>2 DEF Execute
      <3> QED BY <1>1, <2>2, <3>1 DEF Execute
    <2>3. CASE ReportStep(i, k) \/ Ask(i, k) \/ Deliver(i, k) \/ ScanFailed(i, k)
      BY <1>4, <2>3 DEF ReportStep, Ask, Deliver, ScanFailed
    <2>4. CASE Crash(i, k)
      <3>1. task' = [task EXCEPT ![i][k] = [task[i][k] EXCEPT !.pc = "queued"]]
        BY <1>0, <2>4 DEF Crash
      <3>2. task[i][k].pc # "paused"
        BY <2>4 DEF Crash, Callbacks
      <3> QED BY <1>1, <3>1, <3>2
    <2>5. CASE LoseMessage(i, k)
      <3>1. task' = [task EXCEPT ![i][k] = [task[i][k] EXCEPT !.pc = "done"]]
        BY <1>0, <2>5 DEF LoseMessage
      <3> QED BY <1>1, <2>5, <3>1 DEF LoseMessage
    <2> QED BY <1>5, <2>1, <2>2, <2>3, <2>4, <2>5 DEF Worker
  <1>6. ASSUME NEW c \in calls, NEW rest, Reply(c) \/ Raise(c, rest)
        PROVE  Asked(j)'
    <2>1. PICK t : task' = [task EXCEPT ![c.job][c.by] =
                                  IF Waiting(c) THEN t ELSE task[c.job][c.by]]
      BY <1>0, <1>6, CallTypes DEF Reply, Raise
    <2>2. Waiting(c) => task[c.job][c.by].pc # "paused"
      BY CallTypes DEF Callbacks
    <2> QED BY <1>1, <2>1, <2>2, CallTypes
  <1>7. ASSUME NEW c \in calls, Backend(c) \/ Abort(c) \/ Timeout(c)
        PROVE  Asked(j)'
    <2>1. CASE Abort(c) \/ Timeout(c) \/ AppendStep(c) \/ Update(c)
      BY <1>6, <2>1 DEF Abort, Timeout, AppendStep, Update
    <2>2. CASE ClearSteps(c) \/ UpdateAnswered(c) \/ UpdateRefused(c) \/ Find(c) \/ Purge(c)
                 \/ Commit(c)
      BY <1>2, <2>2 DEF ClearSteps, UpdateAnswered, UpdateRefused, Find, Purge, Commit, Continue
    <2>3. ASSUME NEW pc, task' = [task EXCEPT ![c.job][c.by].pc = pc], c.pc = "dispatch"
          PROVE  Asked(j)'
      <3>1. ToDispatch(c)
        BY <2>3, CallKnown DEF CallShape, ToDispatch
      <3>2. task[c.job][c.by] = Unsent
        BY <3>1 DEF TypeInv, DispatchedOnce
      <3>3. task' = [task EXCEPT ![c.job][c.by] = [task[c.job][c.by] EXCEPT !.pc = pc]]
        BY <1>0, <2>3, CallTypes
      <3>4. task[c.job][c.by].pc # "paused" /\ c.job \in Jobs /\ c.by \in Tasks
        BY <3>2, CallTypes DEF Unsent
      <3> QED BY <1>1, <3>3, <3>4
    <2>4. CASE Dispatch(c) \/ DispatchReplyLost(c) \/ DispatchFailed(c)
      BY <2>3, <2>4 DEF Dispatch, DispatchReplyLost, DispatchFailed
    <2> QED BY <1>7, <2>1, <2>2, <2>4 DEF Backend
  <1>8. CASE ListStale \/ ReaperAbort \/ UNCHANGED vars
    BY <1>2, <1>8 DEF ListStale, ReaperAbort, vars
  <1> QED BY <1>3, <1>5, <1>7, <1>8 DEF Next

\* Replacing the requests S by D keeps the executions and their callbacks together.
LEMMA SynchronousStep ==
    ASSUME Synchronous, NEW S, NEW D, calls' = (calls \ S) \cup D,
           \A c \in calls \ S : c.op \in Callbacks => task'[c.job][c.by] = task[c.job][c.by],
           \A d \in D : d.op \in Callbacks =>
               /\ task'[d.job][d.by].pc = d.op /\ task'[d.job][d.by].run = d.run
               /\ \A e \in calls \ S : e.op \in Callbacks => ~(e.job = d.job /\ e.by = d.by)
               /\ \A e \in D : e = d
    PROVE  Synchronous'
  <1>1. \A c \in calls' : c \in calls \ S \/ c \in D
    OBVIOUS
  <1>2. ASSUME NEW c \in calls', c.op \in Callbacks
        PROVE  task'[c.job][c.by].pc = c.op /\ task'[c.job][c.by].run = c.run
    BY <1>1, <1>2 DEF Synchronous, Waiting
  <1>3. ASSUME NEW c \in calls', NEW d \in calls', c.op \in Callbacks, d.op \in Callbacks,
               c.job = d.job, c.by = d.by
        PROVE  c = d
    BY <1>1, <1>3 DEF Synchronous
  <1> QED BY <1>2, <1>3 DEF Synchronous, Waiting

\* A callback that goes on, or a request.
LEMMA SynchronousGoesOn ==
    ASSUME TypeInv, Synchronous, NEW c \in calls, NEW d, calls' = (calls \ {c}) \cup {d},
           task' = task,
           d.op = c.op, d.job = c.job, d.by = c.by, d.run = c.run
    PROVE  Synchronous'
  <1>1. d.op \in Callbacks =>
               /\ task'[d.job][d.by].pc = d.op /\ task'[d.job][d.by].run = d.run
               /\ \A e \in calls \ {c} : e.op \in Callbacks => ~(e.job = d.job /\ e.by = d.by)
    BY DEF Synchronous, Waiting
  <1>2. \A e \in calls \ {c} : e.op \in Callbacks => task'[e.job][e.by] = task[e.job][e.by]
    OBVIOUS
  <1> DEFINE S == {c}
             D == {d}
  <1>3. /\ calls' = (calls \ S) \cup D
        /\ \A e \in calls \ S : e.op \in Callbacks => task'[e.job][e.by] = task[e.job][e.by]
        /\ \A a \in D : a.op \in Callbacks =>
               /\ task'[a.job][a.by].pc = a.op /\ task'[a.job][a.by].run = a.run
               /\ \A e \in calls \ S : e.op \in Callbacks => ~(e.job = a.job /\ e.by = a.by)
               /\ \A e \in D : e = a
    BY <1>1, <1>2
  <1> HIDE DEF S, D
  <1> QED BY <1>3, SynchronousStep

\* A callback that ends.
LEMMA SynchronousReply ==
    ASSUME TypeInv, Synchronous, NEW c \in calls, c.op \in Callbacks, Reply(c)
    PROVE  /\ Synchronous' /\ Waiting(c)
           /\ task' = [task EXCEPT ![c.job][c.by] = AfterReply(task[c.job][c.by], c.op)]
           /\ calls' = calls \ {c}
  <1>1. Waiting(c) /\ c.job \in Jobs /\ c.by \in Tasks
    BY CallTypes DEF Synchronous
  <1>2. /\ task' = [task EXCEPT ![c.job][c.by] = AfterReply(task[c.job][c.by], c.op)]
        /\ calls' = calls \ {c}
    BY <1>1 DEF Reply
  <1>3. \A e \in calls \ {c} : e.op \in Callbacks => task'[e.job][e.by] = task[e.job][e.by]
    <2> SUFFICES ASSUME NEW e \in calls \ {c}, e.op \in Callbacks
                 PROVE  task'[e.job][e.by] = task[e.job][e.by]
      OBVIOUS
    <2>1. ~(e.job = c.job /\ e.by = c.by)
      BY DEF Synchronous
    <2> QED BY <1>1, <1>2, <2>1, CallTypes DEF TypeInv, TypeOK
  <1> DEFINE S == {c}
             D == {}
  <1>4. /\ calls' = (calls \ S) \cup D
        /\ \A e \in calls \ S : e.op \in Callbacks => task'[e.job][e.by] = task[e.job][e.by]
        /\ \A a \in D : FALSE
    BY <1>2, <1>3
  <1>5. Synchronous'
    <2> HIDE DEF S, D
    <2> QED BY <1>4, SynchronousStep
  <1> QED BY <1>1, <1>2, <1>5

\* A dispatch starts no callback.
LEMMA SynchronousSend ==
    ASSUME TypeInv, Synchronous, NEW c \in calls, c.pc = "dispatch", NEW pc,
           task' = [task EXCEPT ![c.job][c.by].pc = pc], NEW D,
           calls' = (calls \ {c}) \cup D, \A d \in D : d.op \notin Callbacks
    PROVE  Synchronous'
  <1>1. ToDispatch(c)
    BY CallKnown DEF CallShape, ToDispatch
  <1>2. task[c.job][c.by] = Unsent
    BY <1>1 DEF TypeInv, DispatchedOnce
  <1>3. \A e \in calls \ {c} : e.op \in Callbacks => task'[e.job][e.by] = task[e.job][e.by]
    <2> SUFFICES ASSUME NEW e \in calls \ {c}, e.op \in Callbacks
                 PROVE  task'[e.job][e.by] = task[e.job][e.by]
      OBVIOUS
    <2>1. ~(e.job = c.job /\ e.by = c.by)
      BY <1>2 DEF Synchronous, Waiting, Unsent, Callbacks
    <2> QED BY <2>1, CallTypes DEF TypeInv, TypeOK
  <1> QED BY <1>3, SynchronousStep

\* A worker's new callback is the only one its execution has.
LEMMA SynchronousCall ==
    ASSUME TypeInv, Synchronous, NEW j \in Jobs, NEW k \in Tasks, NEW t, NEW op \in Callbacks,
           task[j][k].pc \notin Callbacks, t.pc = op, NEW run, t.run = run,
           task' = [task EXCEPT ![j][k] = t],
           calls' = calls \cup {Callback(j, k, run, op)}
    PROVE  Synchronous'
  <1> DEFINE d == Callback(j, k, run, op)
  <1>1. d.job = j /\ d.by = k /\ d.op = op /\ d.run = run
    BY DEF Callback
  <1>2. \A e \in calls : e.op \in Callbacks => ~(e.job = j /\ e.by = k)
    BY DEF Synchronous, Waiting
  <1>3. \A e \in calls : e.op \in Callbacks => task'[e.job][e.by] = task[e.job][e.by]
    BY <1>2, CallTypes DEF TypeInv, TypeOK
  <1>4. task'[j][k] = t
    BY DEF TypeInv, TypeOK
  <1> DEFINE S == {}
             D == {d}
  <1>5. /\ calls' = (calls \ S) \cup D
        /\ \A e \in calls \ S : e.op \in Callbacks => task'[e.job][e.by] = task[e.job][e.by]
        /\ \A a \in D : a.op \in Callbacks =>
               /\ task'[a.job][a.by].pc = a.op /\ task'[a.job][a.by].run = a.run
               /\ \A e \in calls \ S : e.op \in Callbacks => ~(e.job = a.job /\ e.by = a.by)
               /\ \A e \in D : e = a
    BY <1>1, <1>2, <1>3, <1>4
  <1> HIDE DEF S, D
  <1> QED BY <1>5, SynchronousStep

\* The versions of a job stay settled while nobody is asked again and the
\* journal of its first run does not come back.
LEMMA SettledStep ==
    ASSUME TypeInv, VersionsSettled, [Next]_vars,
           \A j \in Jobs : Asked(j) /\ journal[j] # 1 => journal'[j] # 1,
           \A j \in Jobs : Settled(j, row'[j]) \/ Settled(j, row[j])',
           \A j \in Jobs : Settled(j, batch'[j]) \/ Settled(j, batch[j])',
           \A c \in calls' : c.job \in Jobs
             /\ (Settled(c.job, c.copy) \/ Settled(c.job, c.copy)')
    PROVE  VersionsSettled'
  <1>1. ASSUME NEW j \in Jobs, NEW job, job.question => Asked(j),
               job.answer # 0 => job.question /\ job.status # "awaiting_input" /\ journal[j] # 1
        PROVE  /\ job.question => Asked(j)'
               /\ job.answer # 0 => /\ job.question
                                    /\ job.status # "awaiting_input"
                                    /\ journal'[j] # 1
    BY <1>1, AskedStays
  <1>2. \A j \in Jobs : Settled(j, row[j])' /\ Settled(j, batch[j])'
    BY <1>1 DEF Settled
  <1>3. \A c \in calls' : Settled(c.job, c.copy)'
    BY <1>1 DEF Settled
  <1> QED BY <1>2, <1>3 DEF VersionsSettled

\* A job that was asked about has its answers after it.
LEMMA ClearedStep ==
    ASSUME TypeInv, AnswersCleared, [Next]_vars,
           \A j \in Jobs : Asked(j) /\ journal[j] # 1 => journal'[j] # 1,
           \A c \in calls' : c \in calls \/ c.op # "answer"
             \/ (Asked(c.job) /\ (c.pc = "clear" \/ journal'[c.job] # 1))
    PROVE  AnswersCleared'
  <1> SUFFICES ASSUME NEW c \in calls', c.op = "answer"
               PROVE  Asked(c.job)' /\ (c.pc # "clear" => journal'[c.job] # 1)
    BY DEF AnswersCleared
  <1>1. c.job \in Jobs
    BY NextTypeInv DEF TypeInv, TypeOK, Call
  <1>2. Asked(c.job)
    BY DEF AnswersCleared
  <1>3. c \in calls /\ c.pc # "clear" => journal[c.job] # 1
    BY DEF AnswersCleared
  <1> QED BY <1>1, <1>2, <1>3, AskedStays

\* The methods of ScanJob but those of the question and its answer.
LEMMA MethodsSettle ==
    ASSUME NEW job \in Rows({0} \cup Tasks), NEW j, Settled(j, job)
    PROVE  /\ Settled(j, Started(job))
           /\ Settled(j, Completed(job))
           /\ Settled(j, Failed(job))
  BY DEF Rows, Settled, Started, Completed, Failed

\* A write of a settled version leaves the table settled.
LEMMA WriteSettled ==
    ASSUME TypeInv, VersionsSettled, NEW j \in Jobs, NEW copy, Write(j, copy),
           Settled(j, copy)
    PROVE  \A i \in Jobs : Settled(i, row'[i])
  <1>1. \A i \in Jobs : row'[i] = IF i = j THEN copy ELSE row[i]
    BY DEF Write, TypeInv, TypeOK
  <1> QED BY <1>1 DEF VersionsSettled

\* While a row is written, who carries the others still does.
LEMMA CarriedStep ==
    ASSUME TypeInv, UnfinishedIsCarried, faults = 0,
           \A j \in Jobs : \/ /\ row'[j] = row[j]
                              /\ Dispatching(j) => Dispatching(j)' \/ Carried(j)'
                              /\ Carried(j) => Carried(j)'
                           \/ row'[j].status \notin Unfinished
                           \/ Dispatching(j)' \/ Carried(j)'
    PROVE  UnfinishedIsCarried'
  BY DEF UnfinishedIsCarried

\* A question is asked by the first attempt: a redelivered task never reaches the node that asks.
LEMMA NextQuestions == TypeInv /\ QuestionsAreFirst /\ [Next]_vars => QuestionsAreFirst'
  <1> SUFFICES ASSUME TypeInv, QuestionsAreFirst, [Next]_vars,
                      NEW d \in calls', d \notin calls, d.op = "question"
               PROVE  d.by = 1
    BY DEF QuestionsAreFirst
  <1>1. ASSUME NEW j \in Jobs, Launch(j) \/ Age(j) \/ Reap(j)
        PROVE  d.by = 1
    BY <1>1 DEF Launch, Age, Reap
  <1>2. ASSUME NEW j \in Jobs, NEW k \in Tasks,
               Answer(j, k) \/ Worker(j, k) \/ Crash(j, k) \/ LoseMessage(j, k)
        PROVE  d.by = 1
    BY <1>2 DEF Answer, Crash, LoseMessage, Worker, Execute, ReportStep, Ask, Deliver,
                ScanFailed, Proceed, Callback
  <1>3. ASSUME NEW c \in calls, Backend(c)
        PROVE  d.by = 1
    <2>1. c \in Call
      BY CallKnown
    <2>2. d.op = c.op /\ d.by = c.by
      <3>1. CASE Find(c)
        BY <2>1, <3>1 DEF Find, Continue, Call
      <3>2. CASE UpdateAnswered(c)
        BY <2>1, <3>2 DEF UpdateAnswered, Continue, Call
      <3>3. CASE ClearSteps(c)
        BY <2>1, <3>3 DEF ClearSteps, Continue, Call
      <3>6. CASE Purge(c)
        <4>1. d = [c EXCEPT !.pc = "commit", !.purged = results[c.job]]
          BY <3>6 DEF Purge, Continue
        <4> QED BY <2>1, <4>1 DEF Call
      <3>7. CASE Commit(c)
        <4>1. d = [c EXCEPT !.pc = "update", !.purged = {}]
          BY <3>7 DEF Commit, Continue
        <4> QED BY <2>1, <4>1 DEF Call
      <3>4. CASE Dispatch(c) \/ DispatchReplyLost(c) \/ DispatchFailed(c) \/ UpdateRefused(c)
        BY <2>1, <3>4 DEF Dispatch, DispatchReplyLost, DispatchFailed, UpdateRefused, Call
      <3>5. CASE AppendStep(c) \/ Update(c)
        BY <3>5 DEF AppendStep, Update, Reply
      <3> QED BY <1>3, <3>1, <3>2, <3>3, <3>4, <3>5, <3>6, <3>7 DEF Backend
    <2> QED BY <2>2 DEF QuestionsAreFirst
  <1>4. ASSUME NEW c \in calls, Abort(c) \/ Timeout(c)
        PROVE  d.by = 1
    BY <1>4 DEF Abort, Timeout, Raise, Callback
  <1>5. CASE ListStale \/ ReaperAbort \/ UNCHANGED vars
    BY <1>5 DEF ListStale, ReaperAbort, vars
  <1> QED BY <1>1, <1>2, <1>3, <1>4, <1>5 DEF Next

\* A step without a fault, from a state that had none.
CalmStep == /\ TypeInv /\ RowInv /\ QuestionsAreFirst /\ Calm
            /\ faults = 0 /\ faults' = 0 /\ [Next]_vars

\* The messages a step leaves alone are carried as before.
LEMMA SameCarried ==
    ASSUME task' = task, NEW j \in Jobs, Carried(j)
    PROVE  Carried(j)'
  BY DEF Carried

\* The requests that stay go on with their dispatch.
LEMMA SameDispatching ==
    ASSUME NEW c, calls \ {c} \subseteq calls', c.pc \notin {"dispatch", "refused"},
           NEW j \in Jobs, Dispatching(j)
    PROVE  Dispatching(j)'
  BY DEF Dispatching

\* A launch: the row is new or retried, the dispatch is on its way and nothing is pending.
LEMMA LaunchCalm ==
    ASSUME CalmStep, NEW j \in Jobs, Launch(j)
    PROVE  Calm'
  <1> USE DEF CalmStep, Calm
  <1> DEFINE new == [job |-> j, op |-> "launch", by |-> 1, run |-> 0,
                     pc |-> "dispatch", copy |-> NewJob, purged |-> {}]
             S == {}
             D == {new}
  <1>1. calls' = (calls \ S) \cup D /\ Write(j, NewJob)
          /\ UNCHANGED <<results, journal, task, batch, old, faults>>
    BY DEF Launch
  <1>2. Synchronous'
    <2>1. new.op \notin Callbacks
      BY DEF Callbacks
    <2>2. \A d \in D : d.op \notin Callbacks
      BY <2>1
    <2> HIDE DEF S, D
    <2> QED BY <1>1, <2>2, SynchronousStep
  <1>3. Settled(j, NewJob)
    BY DEF Settled, NewJob, NoRow
  <1>4. \A i \in Jobs : Settled(i, row'[i])
    BY <1>1, <1>3, WriteSettled
  <1>5. \A c \in calls' : c.job \in Jobs /\ Settled(c.job, c.copy)
    BY <1>1, <1>3, CallTypes DEF VersionsSettled
  <1>6. VersionsSettled'
    BY <1>1, <1>4, <1>5, SettledStep DEF VersionsSettled
  <1>7. AnswersCleared'
    BY <1>1, ClearedStep
  <1>8. UnfinishedIsCarried'
    <2>1. Dispatching(j)'
      <3>1. new \in calls' /\ new.job = j /\ new.pc = "dispatch"
        BY <1>1
      <3> HIDE DEF new
      <3> QED BY <3>1 DEF Dispatching
    <2>2. \A i \in Jobs : i # j => row'[i] = row[i] /\ (Dispatching(i) => Dispatching(i)')
            /\ (Carried(i) => Carried(i)')
      BY <1>1 DEF Dispatching, Carried, Write, TypeInv, TypeOK
    <2> QED BY <2>1, <2>2, CarriedStep
  <1> QED BY <1>2, <1>6, <1>7, <1>8

\* The clock and the reaper.
LEMMA ReaperCalm ==
    ASSUME CalmStep, ListStale \/ \E j \in Jobs : Age(j) \/ Reap(j)
    PROVE  Calm'
  <1> USE DEF CalmStep, Calm
  <1>1. UNCHANGED <<results, journal, task, calls>>
    BY DEF ListStale, Age, Reap
  <1>2. Synchronous'
    BY <1>1 DEF Synchronous, Waiting
  <1>3. /\ \A j \in Jobs : Settled(j, row'[j])
        /\ \A j \in Jobs : row'[j] = row[j] \/ row'[j].status \notin Unfinished
        /\ \A j \in Jobs : Settled(j, batch'[j])
    <2>1. ASSUME NEW j \in Jobs, Reap(j)
          PROVE  /\ \A i \in Jobs : Settled(i, row'[i])
                 /\ \A i \in Jobs : row'[i] = row[i] \/ row'[i].status \notin Unfinished
                 /\ \A i \in Jobs : Settled(i, batch'[i])
      <3>1. batch[j] \in Rows({0} \cup Tasks) /\ Write(j, Failed(batch[j]))
              /\ batch' = [batch EXCEPT ![j] = NoRow]
        BY <2>1 DEF Reap, TypeInv, TypeOK
      <3>2. Settled(j, Failed(batch[j])) /\ Failed(batch[j]).status \notin Unfinished
        BY <3>1, MethodsSettle DEF VersionsSettled, Failed, Rows, Unfinished
      <3>3. \A i \in Jobs : Settled(i, row'[i])
        BY <3>1, <3>2, WriteSettled
      <3>4. \A i \in Jobs : row'[i] = row[i] \/ row'[i].status \notin Unfinished
        BY <3>1, <3>2 DEF Write, TypeInv, TypeOK
      <3>5. \A i \in Jobs : Settled(i, NoRow)
        BY DEF Settled, NoRow
      <3>6. \A i \in Jobs : batch'[i] = batch[i] \/ batch'[i] = NoRow
        BY <3>1 DEF TypeInv, TypeOK
      <3> QED BY <3>3, <3>4, <3>5, <3>6 DEF VersionsSettled
    <2>2. CASE \E j \in Jobs : Age(j)
      BY <2>2 DEF Age, VersionsSettled
    <2>3. CASE ListStale
      <3>1. row' = row /\ \A i \in Jobs : batch'[i] = row[i] \/ batch'[i] = NoRow
        BY <2>3 DEF ListStale
      <3>2. \A i \in Jobs : Settled(i, NoRow)
        BY DEF Settled, NoRow
      <3> QED BY <3>1, <3>2 DEF VersionsSettled
    <2> QED BY <2>1, <2>2, <2>3
  <1>4. \A c \in calls' : c.job \in Jobs /\ Settled(c.job, c.copy)
    BY <1>1, CallTypes DEF VersionsSettled
  <1>5. VersionsSettled'
    BY <1>1, <1>3, <1>4, SettledStep
  <1>6. AnswersCleared'
    BY <1>1, ClearedStep
  <1>7. UnfinishedIsCarried'
    BY <1>1, <1>3, CarriedStep DEF Dispatching, Carried
  <1> QED BY <1>2, <1>5, <1>6, <1>7

\* An answer: the paused job is resumed and its dispatch is on its way.
LEMMA AnswerCalm ==
    ASSUME CalmStep, NEW j \in Jobs, NEW k \in Tasks, Answer(j, k)
    PROVE  Calm'
  <1> USE DEF CalmStep, Calm
  <1> DEFINE new == [job |-> j, op |-> "answer", by |-> k, run |-> 0,
                     pc |-> "clear", copy |-> row[j], purged |-> {}]
             S == {}
             D == {new}
  <1>1. calls' = (calls \ S) \cup D
          /\ UNCHANGED <<row, results, journal, task, batch, old, faults>>
    BY DEF Answer
  <1>2. Synchronous'
    <2>1. new.op \notin Callbacks
      BY DEF Callbacks
    <2>2. \A d \in D : d.op \notin Callbacks
      BY <2>1
    <2> HIDE DEF S, D
    <2> QED BY <1>1, <2>2, SynchronousStep
  <1>3. Asked(j)
    BY DEF Answer, RowInv, RowsConsistent, Consistent, VersionsSettled, Settled
  <1>4. \A c \in calls' : c.job \in Jobs /\ Settled(c.job, c.copy)
    BY <1>1, CallTypes DEF VersionsSettled
  <1>5. VersionsSettled'
    BY <1>1, <1>4, SettledStep DEF VersionsSettled
  <1>6. AnswersCleared'
    BY <1>1, <1>3, ClearedStep
  <1>7. UnfinishedIsCarried'
    BY <1>1, CarriedStep DEF Dispatching, Carried
  <1> QED BY <1>2, <1>5, <1>6, <1>7

\* A worker calls the backend.
LEMMA CallCalm ==
    ASSUME CalmStep, NEW j \in Jobs, NEW k \in Tasks, NEW t, NEW op \in Callbacks,
           task[j][k].pc \in {"queued", "started", "working"}, t.pc = op,
           NEW run, t.run = run,
           task' = [task EXCEPT ![j][k] = t],
           calls' = calls \cup {Callback(j, k, run, op)},
           UNCHANGED <<row, results, journal, batch, old, faults>>
    PROVE  Calm'
  <1> USE DEF CalmStep, Calm
  <1>1. Synchronous'
    <2>1. task[j][k].pc \notin Callbacks
      BY DEF Callbacks
    <2> QED BY <2>1, SynchronousCall
  <1>2. \A c \in calls' : c.job \in Jobs /\ Settled(c.job, c.copy)
    BY CallTypes DEF VersionsSettled, Callback, Settled, NoRow
  <1>3. VersionsSettled'
    BY <1>2, SettledStep DEF VersionsSettled
  <1>4. AnswersCleared'
    <2>1. \A c \in calls' : c \in calls \/ c.op # "answer"
      BY DEF Callback, Callbacks
    <2> QED BY <2>1, ClearedStep
  <1>5. UnfinishedIsCarried'
    <2>1. /\ task'[j][k] = t
          /\ \A i \in Jobs, l \in Tasks : i # j \/ l # k => task'[i][l] = task[i][l]
      BY DEF TypeInv, TypeOK
    <2>2. Carried(j)'
      BY <2>1 DEF Carried, Callbacks
    <2>3. \A i \in Jobs : (Dispatching(i) => Dispatching(i)') /\ (i # j /\ Carried(i) => Carried(i)')
      BY <2>1 DEF Dispatching, Carried
    <2> QED BY <2>2, <2>3, CarriedStep
  <1> QED BY <1>1, <1>3, <1>4, <1>5

\* A worker's step: it waits for its callback before it takes another.
LEMMA WorkerCalm ==
    ASSUME CalmStep, NEW j \in Jobs, NEW k \in Tasks, Worker(j, k)
    PROVE  Calm'
  <1>0. task \in [Jobs -> [Tasks -> Message]] /\ task[j][k] \in Message
    BY DEF CalmStep, TypeInv, TypeOK
  <1>1. ASSUME NEW pc \in Callbacks, Proceed(j, k, pc), task[j][k].pc \in {"started", "working"}
        PROVE  Calm'
    <2> DEFINE t == [task[j][k] EXCEPT !.pc = pc]
    <2>1. t.pc = pc /\ t.run = task[j][k].run /\ task' = [task EXCEPT ![j][k] = t]
      BY <1>0, <1>1 DEF Proceed, Message
    <2>2. calls' = calls \cup {Callback(j, k, task[j][k].run, pc)}
            /\ UNCHANGED <<row, results, journal, batch, old, faults>>
      BY <1>1 DEF Proceed
    <2> HIDE DEF t
    <2> QED BY <1>1, <2>1, <2>2, CallCalm
  <1>2. ASSUME NEW pc, Execute(j, k, pc)
        PROVE  Calm'
    <2> DEFINE t == [task[j][k] EXCEPT !.pc = pc, !.run = task[j][k].run + 1]
    <2>1. t.pc = pc /\ t.run = task[j][k].run + 1 /\ task' = [task EXCEPT ![j][k] = t]
            /\ pc \in Callbacks
      BY <1>0, <1>2 DEF Execute, Message, Callbacks
    <2>2. calls' = calls \cup {Callback(j, k, task[j][k].run + 1, pc)}
            /\ UNCHANGED <<row, results, journal, batch, old, faults>>
      BY <1>2 DEF Execute
    <2>3. task[j][k].pc = "queued"
      BY <1>2 DEF Execute
    <2> HIDE DEF t
    <2> QED BY <2>1, <2>2, <2>3, CallCalm
  <1> QED BY <1>1, <1>2 DEF Worker, ReportStep, Ask, Deliver, ScanFailed, Callbacks

\* clear_steps: the journal of the job is emptied before the dispatch.
LEMMA ClearStepsCalm ==
    ASSUME CalmStep, NEW c \in calls, ClearSteps(c)
    PROVE  Calm'
  <1> USE DEF CalmStep, Calm
  <1> DEFINE d == [c EXCEPT !.pc = "update"]
  <1>1. /\ calls' = (calls \ {c}) \cup {d} /\ task' = task
        /\ journal' = [journal EXCEPT ![c.job] = 0]
        /\ UNCHANGED <<row, results, batch, old, faults>> /\ c.pc = "clear"
    BY DEF ClearSteps, Continue
  <1>2. /\ d.op = c.op /\ d.job = c.job /\ d.by = c.by /\ d.run = c.run /\ d.copy = c.copy
        /\ d.pc = "update"
        /\ c.job \in Jobs
    BY CallTypes DEF Call
  <1> HIDE DEF d
  <1>3. Synchronous'
    BY <1>1, <1>2, SynchronousGoesOn
  <1>4. \A j \in Jobs : journal'[j] = journal[j] \/ journal'[j] = 0
    BY <1>1 DEF TypeInv, TypeOK
  <1>5. \A e \in calls' : e.job \in Jobs /\ Settled(e.job, e.copy)
    BY <1>1, <1>2, CallTypes DEF VersionsSettled
  <1>6. VersionsSettled'
    BY <1>1, <1>4, <1>5, SettledStep DEF VersionsSettled
  <1>7. AnswersCleared'
    <2>1. c.op = "answer" => Asked(c.job)
      BY DEF AnswersCleared
    <2>2. journal'[c.job] = 0
      BY <1>1, <1>2 DEF TypeInv, TypeOK
    <2> QED BY <1>1, <1>2, <1>4, <2>1, <2>2, ClearedStep
  <1>8. UnfinishedIsCarried'
    BY <1>1, CarriedStep, SameCarried, SameDispatching
  <1> QED BY <1>3, <1>6, <1>7, <1>8

\* A callback goes on with the row it found, or with what it held.
LEMMA ContinueCalm ==
    ASSUME CalmStep, NEW c \in calls, NEW d, calls' = (calls \ {c}) \cup {d}, task' = task,
           d.op = c.op, d.job = c.job, d.by = c.by, d.run = c.run,
           d.copy = c.copy \/ d.copy = row[c.job], c.op # "answer",
           c.pc \notin {"dispatch", "refused"},
           UNCHANGED <<row, journal, batch>>
    PROVE  Calm'
  <1> USE DEF CalmStep, Calm
  <1>1. c.job \in Jobs
    BY CallTypes
  <1>2. Synchronous'
    BY SynchronousGoesOn
  <1>3. \A e \in calls' : e.job \in Jobs /\ Settled(e.job, e.copy)
    BY <1>1, CallTypes DEF VersionsSettled
  <1>4. VersionsSettled'
    BY <1>3, SettledStep DEF VersionsSettled
  <1>5. AnswersCleared'
    BY ClearedStep
  <1>6. UnfinishedIsCarried'
    BY CarriedStep, SameCarried, SameDispatching
  <1> QED BY <1>2, <1>4, <1>5, <1>6

\* The handler of results: the job leaves the unfinished statuses with the commit.
LEMMA IngestCalm ==
    ASSUME CalmStep, NEW c \in calls, Find(c) \/ Purge(c) \/ Commit(c)
    PROVE  Calm'
  <1>1. c \in Call /\ CallShape(c)
    BY CallKnown DEF CalmStep
  <1>2. c.op # "answer" /\ c.pc \notin {"dispatch", "refused"}
    BY <1>1 DEF Find, Purge, Commit, CallShape, Requests
  <1>3. UNCHANGED <<row, journal, batch>>
    BY DEF Find, Purge, Commit
  <1>4. CASE Find(c)
    <2> DEFINE d == IF c.op = "step"
                    THEN [c EXCEPT !.pc = "append"]
                    ELSE [c EXCEPT !.copy = row[c.job],
                            !.pc = IF c.op = "results" THEN "purge" ELSE "update"]
    <2>1. calls' = (calls \ {c}) \cup {d} /\ task' = task
      BY <1>4 DEF Find, Continue
    <2>2. /\ d.op = c.op /\ d.job = c.job /\ d.by = c.by /\ d.run = c.run
          /\ d.copy = c.copy \/ d.copy = row[c.job]
      BY <1>1 DEF Call
    <2> HIDE DEF d
    <2> QED BY <1>2, <1>3, <2>1, <2>2, ContinueCalm
  <1>5. CASE Purge(c)
    <2> DEFINE d == [c EXCEPT !.pc = "commit", !.purged = results[c.job]]
    <2>1. calls' = (calls \ {c}) \cup {d} /\ task' = task
      BY <1>5 DEF Purge, Continue
    <2>2. /\ d.op = c.op /\ d.job = c.job /\ d.by = c.by /\ d.run = c.run /\ d.copy = c.copy
      BY <1>1 DEF Call
    <2> HIDE DEF d
    <2> QED BY <1>2, <1>3, <2>1, <2>2, ContinueCalm
  <1>6. CASE Commit(c)
    <2> DEFINE d == [c EXCEPT !.pc = "update", !.purged = {}]
    <2>1. calls' = (calls \ {c}) \cup {d} /\ task' = task
      BY <1>6 DEF Commit, Continue
    <2>2. /\ d.op = c.op /\ d.job = c.job /\ d.by = c.by /\ d.run = c.run /\ d.copy = c.copy
      BY <1>1 DEF Call
    <2> HIDE DEF d
    <2> QED BY <1>2, <1>3, <2>1, <2>2, ContinueCalm
  <1> QED BY <1>4, <1>5, <1>6

\* A callback's write that is answered: the row is one status further on.
LEMMA UpdateAnsweredCalm ==
    ASSUME CalmStep, NEW c \in calls, UpdateAnswered(c)
    PROVE  Calm'
  <1> USE DEF CalmStep, Calm
  <1> DEFINE job == Answered(c.copy, c.by)
             d == [c EXCEPT !.pc = "dispatch", !.copy = job]
  <1>0. /\ c.job \in Jobs /\ c.copy \in Rows({0} \cup Tasks) /\ c.copy.status = "awaiting_input"
        /\ c.by \in Tasks /\ c \in Call /\ c.op = "answer" /\ c.pc = "update"
        /\ Consistent(c.copy)
    BY CallTypes, CallKnown DEF UpdateAnswered, Read, RowInv, CopiesConsistent, CopyConsistent
  <1>1. /\ calls' = (calls \ {c}) \cup {d} /\ task' = task /\ Write(c.job, job)
        /\ UNCHANGED <<results, journal, batch, old, faults>>
    BY DEF UpdateAnswered, Continue
  <1>2. /\ d.op = c.op /\ d.job = c.job /\ d.by = c.by /\ d.run = c.run /\ d.copy = job
        /\ d.pc = "dispatch"
    BY <1>0 DEF Call
  <1>3. Asked(c.job) /\ journal[c.job] # 1
    BY <1>0 DEF AnswersCleared
  <1>4. Settled(c.job, job)
    BY <1>0, <1>3 DEF Settled, Answered, Rows, Consistent
  <1> HIDE DEF d, job
  <1>5. Synchronous'
    BY <1>1, <1>2, SynchronousGoesOn
  <1>6. \A i \in Jobs : Settled(i, row'[i])
    BY <1>0, <1>1, <1>4, WriteSettled
  <1>7. \A e \in calls' : e.job \in Jobs /\ Settled(e.job, e.copy)
    BY <1>0, <1>1, <1>2, <1>4, CallTypes DEF VersionsSettled
  <1>8. VersionsSettled'
    BY <1>1, <1>6, <1>7, SettledStep DEF VersionsSettled
  <1>9. AnswersCleared'
    BY <1>1, <1>2, <1>3, ClearedStep
  <1>10. UnfinishedIsCarried'
    <2>1. Dispatching(c.job)'
      BY <1>1, <1>2 DEF Dispatching
    <2>2. \A i \in Jobs : i # c.job => row'[i] = row[i]
      BY <1>1 DEF Write, TypeInv, TypeOK
    <2> QED BY <1>0, <1>1, <2>1, <2>2, CarriedStep, SameCarried, SameDispatching
  <1> QED BY <1>5, <1>8, <1>9, <1>10

\* The dispatch is taken, or refused.
LEMMA DispatchCalm ==
    ASSUME CalmStep, NEW c \in calls, Dispatch(c) \/ DispatchFailed(c)
    PROVE  Calm'
  <1> USE DEF CalmStep, Calm
  <1> DEFINE d == [c EXCEPT !.pc = "refused"]
             D == IF Dispatch(c) THEN {} ELSE {d}
             pc == IF Dispatch(c) THEN "queued" ELSE "done"
  <1>0. /\ c.job \in Jobs /\ c.by \in Tasks /\ c \in Call /\ c.pc = "dispatch" /\ CallShape(c)
        /\ task \in [Jobs -> [Tasks -> Message]]
    BY CallTypes, CallKnown DEF Dispatch, DispatchFailed, TypeInv, TypeOK
  <1>1. /\ task' = [task EXCEPT ![c.job][c.by].pc = pc]
        /\ calls' = (calls \ {c}) \cup D
        /\ UNCHANGED <<row, results, journal, batch, old, faults>>
    BY DEF Dispatch, DispatchFailed
  <1>2. /\ d.op = c.op /\ d.job = c.job /\ d.by = c.by /\ d.run = c.run /\ d.copy = c.copy
        /\ d.pc = "refused" /\ c.op \notin Callbacks /\ ToDispatch(c)
    BY <1>0 DEF Call, CallShape, Requests, Callbacks, ToDispatch
  <1>3. Synchronous'
    <2>1. \A e \in D : e.op \notin Callbacks
      BY <1>2
    <2> HIDE DEF D, pc
    <2> QED BY <1>0, <1>1, <2>1, SynchronousSend
  <1>4. \A e \in calls' : e.job \in Jobs /\ Settled(e.job, e.copy)
    <2>1. \A e \in D : e.job \in Jobs /\ Settled(e.job, e.copy)
      BY <1>0, <1>2 DEF VersionsSettled
    <2> HIDE DEF D
    <2> QED BY <1>1, <2>1, CallTypes DEF VersionsSettled
  <1>5. VersionsSettled'
    BY <1>1, <1>4, SettledStep DEF VersionsSettled
  <1>6. AnswersCleared'
    <2>1. \A e \in D : e.op # "answer" \/ (Asked(e.job) /\ journal[e.job] # 1)
      BY <1>0, <1>2 DEF AnswersCleared
    <2> HIDE DEF D
    <2> QED BY <1>1, <2>1, ClearedStep
  <1>7. UnfinishedIsCarried'
    <2>1. task[c.job][c.by] = Unsent
      BY <1>2 DEF TypeInv, DispatchedOnce
    <2>2. \A i \in Jobs, l \in Tasks : task'[i][l] = task[i][l] \/ (i = c.job /\ l = c.by)
      BY <1>0, <1>1
    <2>3. \A i \in Jobs : Carried(i) => Carried(i)'
      BY <1>0, <2>1, <2>2 DEF Carried, Unsent
    <2>4. Dispatching(c.job)' \/ Carried(c.job)'
      <3>1. CASE Dispatch(c)
        <4>1. task'[c.job][c.by].pc = "queued"
          BY <1>0, <1>1, <3>1 DEF Message
        <4> QED BY <1>0, <4>1 DEF Carried
      <3>2. CASE ~Dispatch(c)
        <4>1. d \in calls'
          BY <1>1, <3>2
        <4> HIDE DEF d
        <4> QED BY <1>2, <4>1 DEF Dispatching
      <3> QED BY <3>1, <3>2
    <2>5. \A i \in Jobs : i # c.job => (Dispatching(i) => Dispatching(i)')
      <3> HIDE DEF D
      <3> QED BY <1>1 DEF Dispatching
    <2> QED BY <1>1, <2>3, <2>4, <2>5, CarriedStep
  <1> QED BY <1>3, <1>5, <1>6, <1>7

\* A callback's write that is refused: without a fault it cannot be.
LEMMA UpdateRefusedCalm ==
    ASSUME CalmStep, NEW c \in calls, UpdateRefused(c)
    PROVE  Calm'
  <1> USE DEF CalmStep, Calm
  <1> DEFINE job == Failed(c.copy)
             S == {c}
             D == {}
  <1>1. /\ calls' = calls \ {c} /\ task' = task /\ Write(c.job, job)
        /\ UNCHANGED <<results, journal, batch, old, faults>>
    BY DEF UpdateRefused
  <1>2. c.job \in Jobs /\ c.copy \in Rows({0} \cup Tasks)
    BY CallTypes, CallKnown DEF UpdateRefused, Read
  <1>3. Settled(c.job, job) /\ job.status \notin Unfinished
    BY <1>2, MethodsSettle DEF VersionsSettled, Failed, Rows, Unfinished
  <1> HIDE DEF job
  <1>4. Synchronous'
    <2>1. calls' = (calls \ S) \cup D /\ \A d \in D : FALSE
      BY <1>1
    <2> HIDE DEF S, D
    <2> QED BY <1>1, <2>1, SynchronousStep
  <1>5. \A i \in Jobs : Settled(i, row'[i])
    BY <1>1, <1>2, <1>3, WriteSettled
  <1>6. \A e \in calls' : e.job \in Jobs /\ Settled(e.job, e.copy)
    BY <1>1, CallTypes DEF VersionsSettled
  <1>7. VersionsSettled'
    BY <1>1, <1>5, <1>6, SettledStep DEF VersionsSettled
  <1>8. AnswersCleared'
    BY <1>1, ClearedStep
  <1>9. UnfinishedIsCarried'
    <2>1. \A i \in Jobs : row'[i] = IF i = c.job THEN job ELSE row[i]
      BY <1>1 DEF Write, TypeInv, TypeOK
    <2>2. \A i \in Jobs : i # c.job => (Dispatching(i) => Dispatching(i)')
      BY <1>1 DEF Dispatching
    <2> QED BY <1>1, <1>3, <2>1, <2>2, CarriedStep, SameCarried
  <1> QED BY <1>4, <1>7, <1>8, <1>9

\* A step is appended to the journal of the row its worker read.
LEMMA AppendStepCalm ==
    ASSUME CalmStep, NEW c \in calls, AppendStep(c)
    PROVE  Calm'
  <1> USE DEF CalmStep, Calm
  <1>0. c.job \in Jobs /\ c.by \in Tasks /\ c \in Call /\ c.op = "step" /\ c.op \in Callbacks
    BY CallTypes, CallKnown DEF AppendStep, CallShape, Callbacks
  <1>1. /\ calls' = calls \ {c} /\ Waiting(c) /\ Synchronous'
        /\ task' = [task EXCEPT ![c.job][c.by] = AfterReply(task[c.job][c.by], c.op)]
    BY <1>0, SynchronousReply DEF AppendStep
  <1>2. /\ journal' = [journal EXCEPT ![c.job] =
                                     IF journal[c.job] = 0 THEN c.by ELSE journal[c.job]]
        /\ UNCHANGED <<row, results, batch, old, faults>>
    BY DEF AppendStep, TypeInv, TypeOK
  <1>3. \A j \in Jobs : Asked(j) /\ journal[j] # 1 => journal'[j] # 1
    BY <1>0, <1>1, <1>2 DEF Waiting, Asked, TypeInv, TypeOK
  <1>4. \A e \in calls' : e.job \in Jobs /\ Settled(e.job, e.copy)
    BY <1>1, CallTypes DEF VersionsSettled
  <1>5. VersionsSettled'
    BY <1>2, <1>3, <1>4, SettledStep DEF VersionsSettled
  <1>6. AnswersCleared'
    BY <1>1, <1>3, ClearedStep
  <1>7. UnfinishedIsCarried'
    <2>1. task[c.job][c.by] \in Message
            /\ task'[c.job][c.by] = AfterReply(task[c.job][c.by], c.op)
      BY <1>0, <1>1 DEF TypeInv, TypeOK
    <2>2. task'[c.job][c.by].pc = "working"
      BY <1>0, <2>1 DEF AfterReply, Message
    <2>3. \A i \in Jobs, l \in Tasks : task'[i][l] = task[i][l] \/ (i = c.job /\ l = c.by)
      BY <1>0, <1>1 DEF TypeInv, TypeOK
    <2>4. \A i \in Jobs : Carried(i) => Carried(i)'
      BY <1>0, <2>2, <2>3 DEF Carried
    <2>5. Carried(c.job)'
      BY <1>0, <2>2 DEF Carried
    <2>6. \A i \in Jobs : i # c.job => (Dispatching(i) => Dispatching(i)')
      BY <1>1 DEF Dispatching
    <2> QED BY <1>2, <2>4, <2>5, <2>6, CarriedStep
  <1> QED BY <1>1, <1>5, <1>6, <1>7

\* What a callback writes is settled once its worker goes on: the question is
\* that of a run that pauses with it, on a version nobody has asked about.
LEMMA AppliedSettles ==
    ASSUME CalmStep, NEW c \in calls, Update(c)
    PROVE  Settled(c.job, Applied(c)) \/ Settled(c.job, Applied(c))'
  <1> USE DEF CalmStep, Calm
  <1>0. /\ c.job \in Jobs /\ c.by \in Tasks /\ c.copy \in Rows({0} \cup Tasks)
        /\ c.op \in {"start", "question", "results", "failure"} /\ c.op \in Callbacks
        /\ Settled(c.job, c.copy)
    BY CallTypes, CallKnown DEF Update, Read, VersionsSettled, Callbacks
  <1>1. CASE c.op # "question"
    BY <1>0, <1>1, MethodsSettle DEF Applied
  <1>2. CASE c.op = "question"
    <2>1. /\ Waiting(c)
          /\ task' = [task EXCEPT ![c.job][c.by] = AfterReply(task[c.job][c.by], c.op)]
      BY <1>0, SynchronousReply DEF Update
    <2>2. c.by = 1
      BY <1>2 DEF QuestionsAreFirst
    <2>3. ~c.copy.question /\ c.copy.answer = 0
      BY <1>0, <1>2, <2>1, <2>2 DEF Waiting, Asked, Settled, Rows
    <2>4. Applied(c).answer = 0
      BY <1>0, <1>2, <2>3 DEF Applied, AwaitingInput, Rows
    <2>5. Asked(c.job)'
      <3>1. task[c.job][1] \in Message
              /\ task'[c.job][1] = AfterReply(task[c.job][1], "question")
        BY <1>0, <1>2, <2>1, <2>2 DEF TypeInv, TypeOK
      <3> QED BY <3>1 DEF AfterReply, Message, Asked
    <2>6. Applied(c)' = Applied(c)
      BY DEF Applied
    <2> QED BY <2>4, <2>5 DEF Settled
  <1> QED BY <1>1, <1>2

\* The write of any callback, whatever its verdict.
LEMMA UpdateCalm ==
    ASSUME CalmStep, NEW c \in calls, Update(c)
    PROVE  Calm'
  <1> USE DEF CalmStep, Calm
  <1>0. /\ c.job \in Jobs /\ c.by \in Tasks /\ c \in Call /\ c.copy \in Rows({0} \cup Tasks)
        /\ c.op \in {"start", "question", "results", "failure"} /\ c.op \in Callbacks
    BY CallTypes, CallKnown DEF Update, Read, Callbacks
  <1>1. /\ calls' = calls \ {c} /\ Waiting(c) /\ Synchronous'
        /\ task' = [task EXCEPT ![c.job][c.by] = AfterReply(task[c.job][c.by], c.op)]
    BY <1>0, SynchronousReply DEF Update
  <1>2. Write(c.job, Applied(c)) /\ UNCHANGED <<results, journal, batch, old, faults>>
    BY DEF Update
  <1>3. \A i \in Jobs : row'[i] = IF i = c.job THEN Applied(c) ELSE row[i]
    BY <1>2 DEF Write, TypeInv, TypeOK
  <1>4. \A i \in Jobs : Settled(i, row'[i]) \/ Settled(i, row[i])'
    <2>1. ASSUME NEW i \in Jobs, i # c.job
          PROVE  Settled(i, row'[i])
      BY <1>3, <2>1 DEF VersionsSettled
    <2>2. Settled(c.job, row'[c.job]) \/ Settled(c.job, row[c.job])'
      <3>1. row'[c.job] = Applied(c)
        BY <1>0, <1>3
      <3> QED BY <3>1, AppliedSettles DEF Settled, Applied
    <2> QED BY <2>1, <2>2
  <1>5. \A e \in calls' : e.job \in Jobs /\ Settled(e.job, e.copy)
    BY <1>1, CallTypes DEF VersionsSettled
  <1>6. VersionsSettled'
    BY <1>2, <1>4, <1>5, SettledStep DEF VersionsSettled
  <1>7. AnswersCleared'
    BY <1>1, <1>2, ClearedStep
  <1>8. UnfinishedIsCarried'
    <2>1. Applied(c).status \notin Unfinished \/ Carried(c.job)'
      <3>1. CASE c.op = "start"
        <4>1. task[c.job][c.by] \in Message
                /\ task'[c.job][c.by] = AfterReply(task[c.job][c.by], "start")
          BY <1>0, <1>1, <3>1 DEF TypeInv, TypeOK
        <4>2. task'[c.job][c.by].pc = "started"
          BY <4>1 DEF AfterReply, Message
        <4> QED BY <1>0, <4>2 DEF Carried
      <3>2. CASE c.op # "start"
        BY <1>0, <3>2 DEF Applied, Completed, Failed, AwaitingInput, Rows, Unfinished
      <3> QED BY <3>1, <3>2
    <2>2. \A i \in Jobs : i # c.job => /\ Dispatching(i) => Dispatching(i)'
                                       /\ Carried(i) => Carried(i)'
      <3>1. \A i \in Jobs, l \in Tasks : task'[i][l] = task[i][l] \/ i = c.job
        BY <1>0, <1>1 DEF TypeInv, TypeOK
      <3> QED BY <1>1, <3>1 DEF Dispatching, Carried
    <2> QED BY <1>3, <2>1, <2>2, CarriedStep
  <1> QED BY <1>1, <1>6, <1>7, <1>8

\* A step without a fault is from a state that had none.
LEMMA FaultlessBefore ==
    ASSUME TypeInv, [Next]_vars, faults' = 0
    PROVE  faults = 0
  <1>0. ~ Fault
    BY FaultCounts
  <1>1. ASSUME NEW j \in Jobs, Launch(j) \/ Age(j) \/ Reap(j)
        PROVE  faults' = faults
    BY <1>1 DEF Launch, Age, Reap
  <1>2. ASSUME NEW j \in Jobs, NEW k \in Tasks,
               Answer(j, k) \/ Worker(j, k) \/ Crash(j, k) \/ LoseMessage(j, k)
        PROVE  faults' = faults
    BY <1>0, <1>2 DEF Answer, Worker, Execute, ReportStep, Ask, Deliver, ScanFailed,
                      Proceed, Crash, LoseMessage
  <1>3. ASSUME NEW c \in calls, Backend(c)
        PROVE  faults' = faults
    BY <1>0, <1>3 DEF Backend, ClearSteps, UpdateAnswered, Dispatch, DispatchReplyLost,
       DispatchFailed, UpdateRefused, Find, Purge, Commit, AppendStep, Update
  <1>4. \A c \in calls : ~Abort(c) /\ ~Timeout(c)
    BY <1>0 DEF Abort, Timeout
  <1>5. (ListStale \/ ReaperAbort \/ UNCHANGED vars) => faults' = faults
    BY <1>0 DEF ListStale, ReaperAbort, vars
  <1> QED BY <1>1, <1>2, <1>3, <1>4, <1>5 DEF Next

\* Every step of the system keeps CalmInv.
LEMMA NextCalm == TypeInv /\ RowInv /\ CalmInv /\ [Next]_vars => CalmInv'
  <1> SUFFICES ASSUME TypeInv, RowInv, CalmInv, [Next]_vars
               PROVE  CalmInv'
    OBVIOUS
  <1>1. QuestionsAreFirst'
    BY NextQuestions DEF CalmInv
  <1>2. CASE faults' # 0
    BY <1>1, <1>2 DEF CalmInv, UnfinishedIsCarried
  <1>3. CASE faults' = 0
    <2>0. ~ Fault
      BY <1>3, FaultCounts
    <2>1. faults = 0
      BY <1>3, FaultlessBefore
    <2>2. CalmStep
      BY <1>3, <2>1 DEF CalmStep, CalmInv, Calm
    <2>3. ASSUME NEW c \in calls, Backend(c)
          PROVE  Calm'
      <3>1. ~DispatchReplyLost(c)
        BY <2>0 DEF DispatchReplyLost
      <3> QED BY <2>2, <2>3, <3>1, ClearStepsCalm, UpdateAnsweredCalm, DispatchCalm,
                 UpdateRefusedCalm,
                 IngestCalm, AppendStepCalm, UpdateCalm DEF Backend
    <2>4. ASSUME UNCHANGED vars
          PROVE  Calm'
      <3>1. Synchronous'
        BY <2>2, <2>4 DEF CalmStep, Calm, vars, Synchronous, Waiting
      <3>2. VersionsSettled' /\ AnswersCleared'
        BY <2>2, <2>4 DEF CalmStep, Calm, vars, VersionsSettled, Settled, Asked, AnswersCleared
      <3>3. UnfinishedIsCarried'
        BY <2>2, <2>4 DEF CalmStep, Calm, vars, UnfinishedIsCarried, Dispatching, Carried
      <3> QED BY <3>1, <3>2, <3>3 DEF Calm
    <2>5. ASSUME NEW j \in Jobs, NEW k \in Tasks, Crash(j, k) \/ LoseMessage(j, k)
          PROVE  FALSE
      BY <2>0, <2>5 DEF Crash, LoseMessage
    <2>6. ASSUME NEW c \in calls, Abort(c) \/ Timeout(c)
          PROVE  FALSE
      BY <2>0, <2>6 DEF Abort, Timeout
    <2>7. ~ReaperAbort
      BY <2>0 DEF ReaperAbort
    <2>8. Calm'
      <3>1. ASSUME NEW j \in Jobs, Launch(j) \/ Age(j) \/ Reap(j)
            PROVE  Calm'
        BY <2>2, <3>1, LaunchCalm, ReaperCalm
      <3>2. ASSUME NEW j \in Jobs, NEW k \in Tasks, Answer(j, k) \/ Worker(j, k)
            PROVE  Calm'
        BY <2>2, <3>2, AnswerCalm, WorkerCalm
      <3>3. ASSUME ListStale
            PROVE  Calm'
        BY <2>2, <3>3, ReaperCalm
      <3> QED BY <2>3, <2>4, <2>5, <2>6, <2>7, <3>1, <3>2, <3>3 DEF Next
    <2> QED BY <1>1, <2>8 DEF Calm, CalmInv
  <1> QED BY <1>2, <1>3

\* CalmInv holds in the initial states.
LEMMA InitCalm == Init => CalmInv
  BY DEF Init, CalmInv, QuestionsAreFirst, Synchronous, VersionsSettled, Settled,
     AnswersCleared,
         UnfinishedIsCarried, NoRow, Unfinished

\* CalmInv is an invariant of the system.
LEMMA CalmAlways == Spec => []CalmInv
  BY InitCalm, NextCalm, InitRowInv, NextRowInv, TypeInvAlways, PTL DEF Spec

\* Only a fault leaves a pending or running job without a worker or a request
\* that will move it on.
THEOREM UnfinishedJobsAreCarried == Spec => []UnfinishedIsCarried
  <1>1. CalmInv => UnfinishedIsCarried
    BY DEF CalmInv
  <1> QED BY <1>1, CalmAlways, PTL

\* Only a fault has a job asked about a second time.
THEOREM JobsAreAskedOnce == Spec => [](faults = 0 => OneQuestionPerJob)
  <1>1. CalmInv => (faults = 0 => OneQuestionPerJob)
    BY DEF CalmInv, VersionsSettled, Settled, OneQuestionPerJob
  <1> QED BY <1>1, CalmAlways, PTL

\* Only a fault leaves a step of the run that asked in an answered job's journal.
THEOREM JournalsStartFresh == Spec => [](faults = 0 => JournalStartsFresh)
  <1>1. CalmInv => (faults = 0 => JournalStartsFresh)
    BY DEF CalmInv, VersionsSettled, Settled, JournalStartsFresh
  <1> QED BY <1>1, CalmAlways, PTL

-----------------------------------------------------------------------------
(***************************************************************************)
(* The inductive invariant as a whole.                                     *)
(***************************************************************************)
LifeInv == TypeInv /\ RowInv /\ FindingsInv /\ CalmInv

\* All the parts of the invariant of the life cycle hold together.
LEMMA LifeAlways == Spec => []LifeInv
  BY InitRowInv, NextRowInv, InitFindingsInv, NextFindingsInv, TypeInvAlways, CalmAlways, PTL
     DEF Spec, LifeInv

\* JobInv holds in every reachable state.
THEOREM JobInvAlways == Spec => []JobInv
  <1>1. LifeInv => JobInv
    BY DEF LifeInv, TypeInv, RowInv, FindingsInv, JobInv
  <1> QED BY <1>1, LifeAlways, PTL

-----------------------------------------------------------------------------
(***************************************************************************)
(* The detail a stream reads.                                              *)
(***************************************************************************)
\* A journal that was cleared after the question stays without the run that asked.
LEMMA JournalStays ==
    ASSUME CalmStep, NEW j \in Jobs, Asked(j), journal[j] # 1
    PROVE  journal'[j] # 1
  <1> USE DEF CalmStep, Calm
  <1>1. ASSUME NEW c \in calls, AppendStep(c)
        PROVE  journal'[j] # 1
    <2>1. c.job \in Jobs /\ c.by \in Tasks /\ c.op = "step" /\ c.op \in Callbacks
      BY <1>1, CallTypes, CallKnown DEF AppendStep, CallShape, Callbacks
    <2>2. Waiting(c)
      BY <1>1, <2>1, SynchronousReply DEF AppendStep
    <2>3. journal' = [journal EXCEPT ![c.job] =
                                    IF journal[c.job] = 0 THEN c.by ELSE journal[c.job]]
      BY <1>1 DEF AppendStep, TypeInv, TypeOK
    <2> QED BY <2>1, <2>2, <2>3 DEF Waiting, Asked, TypeInv, TypeOK
  <1>2. ASSUME NEW c \in calls, Backend(c), ~AppendStep(c)
        PROVE  journal'[j] # 1
    <2>1. CASE ClearSteps(c)
      <3>1. journal' = [journal EXCEPT ![c.job] = 0]
        BY <2>1 DEF ClearSteps
      <3> QED BY <3>1 DEF TypeInv, TypeOK
    <2>2. CASE ~ClearSteps(c)
      BY <1>2, <2>2 DEF Backend, UpdateAnswered, Dispatch, DispatchReplyLost, DispatchFailed,
                        UpdateRefused, Find, Purge, Commit, Update
    <2> QED BY <2>1, <2>2
  <1>3. ASSUME NEW i \in Jobs, Launch(i) \/ Age(i) \/ Reap(i)
        PROVE  journal'[j] # 1
    BY <1>3 DEF Launch, Age, Reap
  <1>4. ASSUME NEW i \in Jobs, NEW k \in Tasks,
               Answer(i, k) \/ Worker(i, k) \/ Crash(i, k) \/ LoseMessage(i, k)
        PROVE  journal'[j] # 1
    BY <1>4 DEF Answer, Worker, Execute, ReportStep, Ask, Deliver, ScanFailed, Proceed, Crash,
                LoseMessage
  <1>5. ASSUME NEW c \in calls, Abort(c) \/ Timeout(c)
        PROVE  journal'[j] # 1
    BY <1>5 DEF Abort, Timeout
  <1>6. CASE ListStale \/ ReaperAbort \/ UNCHANGED vars
    BY <1>6 DEF ListStale, ReaperAbort, vars
  <1> QED BY <1>1, <1>2, <1>3, <1>4, <1>5, <1>6 DEF Next

\* What a stream has read is still so.
StreamRead(j, s) ==
    /\ s.status = "completed" => results[j] # {}
    /\ s.status = "completed" /\ s.pc = "steps" => s.delivered
    /\ faults = 0 /\ s.answered => Asked(j) /\ journal[j] # 1

StreamInv == /\ stream \in [Jobs -> Stream]
             /\ \A j \in Jobs : StreamRead(j, stream[j])

\* Reading the job does not move it.
LEMMA StreamMoves == [StreamNext]_streamVars =>
                        \/ [Next]_vars /\ UNCHANGED stream
                        \/ UNCHANGED vars
                             /\ \E j \in Jobs : Open(j) \/ Reads(j) \/ Emit(j) \/ GetSearch(j)
                                                \/ HangUp(j)
  BY DEF StreamNext, streamVars, Open, Reads, FindRow, ResultsFor, Emit, GetSearch, HangUp,
     Polls

\* Every step of the system with its streams keeps StreamInv.
LEMMA NextStream == LifeInv /\ StreamInv /\ [StreamNext]_streamVars => StreamInv'
  <1> SUFFICES ASSUME LifeInv, StreamInv, [StreamNext]_streamVars
               PROVE  StreamInv'
    OBVIOUS
  <1> USE DEF LifeInv, StreamInv
  <1>1. CASE [Next]_vars /\ UNCHANGED stream
    <2>1. faults' = 0 => faults = 0
      BY <1>1, FaultlessBefore
    <2>2. ASSUME NEW j \in Jobs
          PROVE  StreamRead(j, stream[j])'
      <3>1. results[j] # {} => results'[j] # {}
        BY <1>1, FindingsStay
      <3>2. ASSUME faults' = 0, stream[j].answered
            PROVE  Asked(j)' /\ journal'[j] # 1
        <4>1. CalmStep /\ Asked(j) /\ journal[j] # 1
          BY <1>1, <2>1, <3>2 DEF StreamRead, CalmStep, Calm, CalmInv
        <4> QED BY <1>1, <4>1, AskedStays, JournalStays
      <3> QED BY <1>1, <3>1, <3>2 DEF StreamRead
    <2> QED BY <1>1, <2>2
  <1>2. ASSUME UNCHANGED vars, NEW j \in Jobs, NEW s \in Stream, StreamRead(j, s),
               stream' = [stream EXCEPT ![j] = s]
        PROVE  StreamInv'
    <2>1. \A i \in Jobs : stream'[i] = IF i = j THEN s ELSE stream[i]
      BY <1>2
    <2> QED BY <1>2, <2>1 DEF StreamRead, Asked, vars
  <1>3. ASSUME UNCHANGED vars, NEW j \in Jobs, FindRow(j, "find", "results")
        PROVE  StreamInv'
    <2> DEFINE s == [stream[j] EXCEPT
                   !.pc = "results", !.answered = row[j].answer # 0,
                   !.status = IF Finished(row[j].status) THEN row[j].status ELSE "none"]
    <2>1. s \in Stream
      BY DEF Stream, Finished
    <2>2. /\ s.status = "completed" => row[j].status = "completed"
          /\ s.answered = (row[j].answer # 0) /\ s.pc = "results"
      BY DEF Stream, Finished
    <2>3. StreamRead(j, s)
      <3> HIDE DEF s
      <3> QED BY <2>2 DEF StreamRead, CalmInv, VersionsSettled, Settled, FindingsInv,
                 CompletedHasFindings
    <2>4. stream' = [stream EXCEPT ![j] = s]
      BY <1>3 DEF FindRow, Polls
    <2> HIDE DEF s
    <2> QED BY <1>2, <1>3, <2>1, <2>3, <2>4
  <1>4. ASSUME UNCHANGED vars, NEW j \in Jobs, ResultsFor(j, "results", "steps")
        PROVE  StreamInv'
    <2> DEFINE s == [stream[j] EXCEPT !.pc = "steps", !.delivered = results[j] # {}]
    <2>1. s \in Stream
      BY DEF Stream
    <2>2. s.status = stream[j].status /\ s.answered = stream[j].answered
            /\ s.delivered = (results[j] # {})
      BY DEF Stream
    <2>3. StreamRead(j, s)
      <3> HIDE DEF s
      <3> QED BY <2>2 DEF StreamRead
    <2>4. stream' = [stream EXCEPT ![j] = s]
      BY <1>4 DEF ResultsFor, Polls
    <2> HIDE DEF s
    <2> QED BY <1>2, <1>4, <2>1, <2>3, <2>4
  <1>5. \A j \in Jobs, s \in {Closed, [Closed EXCEPT !.pc = "find"]} : s \in Stream
          /\ StreamRead(j, s)
    <2>1. Closed \in Stream /\ \A j \in Jobs : StreamRead(j, Closed)
      BY DEF Closed, Stream, StreamRead
    <2> DEFINE s == [Closed EXCEPT !.pc = "find"]
    <2>2. s \in Stream /\ s.status = "none" /\ ~s.answered
      BY DEF Closed, Stream
    <2>3. \A j \in Jobs : StreamRead(j, s)
      BY <2>2 DEF StreamRead
    <2> QED BY <2>1, <2>2, <2>3
  <1>6. ASSUME UNCHANGED vars, NEW j \in Jobs, Open(j) \/ Emit(j) \/ GetSearch(j) \/ HangUp(j)
        PROVE  StreamInv'
    <2>1. \E s \in {Closed, [Closed EXCEPT !.pc = "find"]} : stream' = [stream EXCEPT ![j] = s]
      BY <1>6 DEF Open, Emit, GetSearch, HangUp, Polls
    <2> QED BY <1>2, <1>5, <1>6, <2>1
  <1> QED BY <1>1, <1>3, <1>4, <1>6, StreamMoves DEF Reads

\* The jobs of a system with streams behave as the jobs of the system without them.
LEMMA StreamKeepsJobs == StreamSpec => Spec
  <1>1. StreamInit => Init
    BY DEF StreamInit
  <1>2. [StreamNext]_streamVars => [Next]_vars
    BY StreamMoves
  <1> QED BY <1>1, <1>2, PTL DEF StreamSpec, Spec

\* StreamInv holds in the initial states.
LEMMA InitStream == StreamInit => StreamInv
  BY DEF StreamInit, StreamInv, Closed, Stream, StreamRead

\* StreamInv is an invariant of the system with its streams.
LEMMA StreamAlways == StreamSpec => []StreamInv
  BY InitStream, NextStream, StreamKeepsJobs, LifeAlways, PTL DEF StreamSpec

\* While nothing fails, the detail a stream sends of a job is one the job was in: its findings
\* and its status come from two reads (sse.rs, the poll), and still agree.
THEOREM DetailsAreCoherent == StreamSpec => [](faults = 0 => DetailIsCoherent)
  <1>1. StreamInv => (faults = 0 => DetailIsCoherent)
    BY DEF StreamInv, StreamRead, DetailIsCoherent, Detail, StepsFor
  <1> QED BY <1>1, StreamAlways, PTL

\* Whatever fails, a detail that shows a completed job shows it with its findings committed.
THEOREM CompletedDetailsDeliver ==
    StreamSpec => [](\A j \in Jobs :
                        stream[j].pc = "steps" /\ Detail(j).completed => Detail(j).delivered)
  <1>1. StreamInv => \A j \in Jobs : stream[j].pc = "steps"
          /\ Detail(j).completed => Detail(j).delivered
    BY DEF StreamInv, StreamRead, Detail
  <1> QED BY <1>1, StreamAlways, PTL

-----------------------------------------------------------------------------
(***************************************************************************)
(* Every step but a stale write is a step of the contract.                 *)
(***************************************************************************)
ContractStep == [Contract!Next]_(Contract!vars)

\* A step that changes neither table stutters.
LEMMA SameTables ==
    ASSUME row' = row, results' = results
    PROVE  ContractStep
  BY DEF ContractStep, Contract!vars

\* A write moves the status of its job.
LEMMA MoveStep ==
    ASSUME TypeInv, NEW j \in Jobs, NEW copy, Write(j, copy), results' = results,
           NEW from, row[j].status \in from
    PROVE  /\ Contract!Move(j, from, copy.status)
           /\ copy.status = row[j].status => ContractStep
  <1> DEFINE status == [i \in Jobs |-> row[i].status]
  <1>1. \A i \in Jobs : row'[i] = IF i = j THEN copy ELSE row[i]
    BY DEF Write, TypeInv, TypeOK
  <1>2. status' = [status EXCEPT ![j] = copy.status]
    BY <1>1
  <1>3. {i \in Jobs : results'[i] # {}} = {i \in Jobs : results[i] # {}}
    OBVIOUS
  <1>4. Contract!Move(j, from, copy.status)
    BY <1>2, <1>3 DEF Contract!Move
  <1>5. copy.status = row[j].status => status' = status
    BY <1>2
  <1>6. copy.status = row[j].status => ContractStep
    BY <1>3, <1>5 DEF ContractStep, Contract!vars
  <1> QED BY <1>4, <1>6

\* A fresh copy failed and written back fails its job, or leaves it as it is.
LEMMA FailStep ==
    ASSUME TypeInv, NEW j \in Jobs, row[j] \in Rows({0} \cup Tasks),
           Write(j, Failed(row[j])), results' = results
    PROVE  ContractStep
  <1>1. Failed(row[j]).status = IF row[j].status = "completed" THEN "completed" ELSE "failed"
    BY DEF Failed, Rows
  <1>2. row[j].status \in Statuses
    BY DEF Rows
  <1>3. CASE row[j].status \in {"completed", "failed"}
    BY <1>1, <1>3, MoveStep
  <1>4. CASE row[j].status \in {"pending", "running", "awaiting_input"}
    <2>1. Contract!Fail(j)
      BY <1>1, <1>4, MoveStep DEF Contract!Fail
    <2> QED BY <2>1 DEF ContractStep, Contract!Next
  <1> QED BY <1>2, <1>3, <1>4 DEF Statuses

\* A callback's update from a fresh copy.
LEMMA UpdateStep ==
    ASSUME TypeInv, FindingsInv, NEW c \in calls, Update(c), c.copy = row[c.job]
    PROVE  ContractStep
  <1> DEFINE j == c.job
  <1>1. /\ j \in Jobs /\ row[j] \in Rows({0} \cup Tasks) /\ results' = results
        /\ Write(j, Applied(c)) /\ row[j].status \in Statuses
    BY CallKnown, CallTypes DEF Update, Rows
  <1>2. CASE c.op = "start"
    <2>1. Write(j, Started(row[j]))
      BY <1>1, <1>2 DEF Applied
    <2>2. CASE row[j].status = "pending"
      <3>1. Started(row[j]).status = "running"
        BY <1>1, <2>2 DEF Started, Rows
      <3>2. Contract!Start(j)
        BY <1>1, <2>1, <2>2, <3>1, MoveStep DEF Contract!Start
      <3> QED BY <1>1, <3>2 DEF ContractStep, Contract!Next
    <2>3. CASE row[j].status # "pending"
      BY <1>1, <2>1, <2>3, MoveStep DEF Started
    <2> QED BY <2>2, <2>3
  <1>3. CASE c.op = "question"
    <2>1. Write(j, AwaitingInput(row[j]))
      BY <1>1, <1>3 DEF Applied
    <2>2. CASE row[j].status \in {"pending", "running"}
      <3>1. AwaitingInput(row[j]).status = "awaiting_input"
        BY <1>1, <2>2 DEF AwaitingInput, Rows, Unfinished
      <3>2. Contract!Ask(j)
        BY <1>1, <2>1, <2>2, <3>1, MoveStep DEF Contract!Ask
      <3> QED BY <1>1, <3>2 DEF ContractStep, Contract!Next
    <2>3. CASE row[j].status \notin {"pending", "running"}
      BY <1>1, <2>1, <2>3, MoveStep DEF AwaitingInput, Unfinished
    <2> QED BY <2>2, <2>3
  <1>4. CASE c.op = "results"
    <2>1. Write(j, Completed(row[j])) /\ Completed(row[j]).status = "completed"
      BY <1>1, <1>4 DEF Applied, Completed, Rows
    <2>2. results[j] # {}
      BY <1>4 DEF Update, FindingsInv, CopiesHaveFindings, CopyHasFindings
    <2>3. CASE row[j].status = "completed"
      BY <1>1, <2>1, <2>3, MoveStep
    <2>4. CASE row[j].status \in {"pending", "running", "awaiting_input", "failed"}
      <3>1. Contract!Complete(j)
        BY <1>1, <2>1, <2>2, <2>4, MoveStep DEF Contract!Complete
      <3> QED BY <1>1, <3>1 DEF ContractStep, Contract!Next
    <2> QED BY <1>1, <2>3, <2>4 DEF Statuses
  <1>5. CASE c.op = "failure"
    <2>1. Write(j, Failed(row[j]))
      BY <1>1, <1>5 DEF Applied
    <2> QED BY <1>1, <2>1, FailStep
  <1> QED BY <1>2, <1>3, <1>4, <1>5 DEF Update

\* The findings of a job are delivered.
LEMMA CommitStep ==
    ASSUME TypeInv, NEW c \in calls, Commit(c)
    PROVE  ContractStep
  <1>1. c.job \in Jobs /\ row[c.job] \in Rows({0} \cup Tasks)
    BY CallKnown, CallTypes
  <1>2. row' = row /\ \A i \in Jobs : results'[i] # {} <=> i = c.job \/ results[i] # {}
    BY <1>1 DEF Commit, TypeInv, TypeOK
  <1>3. {i \in Jobs : results'[i] # {}} = {i \in Jobs : results[i] # {}} \cup {c.job}
    BY <1>1, <1>2
  <1>4. Contract!Deliver(c.job)
    BY <1>1, <1>2, <1>3 DEF Contract!Deliver, Rows, Statuses
  <1> QED BY <1>1, <1>4 DEF ContractStep, Contract!Next

\* The inductive invariant of the theorems below.
Inv == TypeInv /\ RowInv /\ FindingsInv

LEMMA NextKeepsContract ==
    ASSUME Inv, [Next]_vars, ~StaleWrite
    PROVE  ContractStep
  <1> USE DEF Inv
  <1>1. ASSUME NEW j \in Jobs, Launch(j)
        PROVE  ContractStep
    <2>1. row[j].status \in {"none"} /\ NewJob.status = "pending"
      BY <1>1 DEF Launch, NoRow, NewJob
    <2>2. Contract!Launch(j)
      BY <1>1, <2>1, MoveStep DEF Launch, Contract!Launch
    <2> QED BY <2>2 DEF ContractStep, Contract!Next
  <1>2. ASSUME NEW j \in Jobs, Reap(j)
        PROVE  ContractStep
    <2>1. batch[j] \in Rows({0} \cup Tasks) /\ batch[j] # NoRow /\ batch'[j] = NoRow
      BY <1>2 DEF Reap, TypeInv, TypeOK
    <2>2. row' = row \/ batch[j] = row[j]
      BY <2>1 DEF StaleWrite
    <2>3. CASE batch[j] = row[j]
      BY <1>2, <2>1, <2>3, FailStep DEF Reap
    <2> QED BY <1>2, <2>2, <2>3, SameTables DEF Reap
  <1>3. ASSUME NEW j \in Jobs, NEW k \in Tasks,
               Answer(j, k) \/ Worker(j, k) \/ Crash(j, k) \/ LoseMessage(j, k)
        PROVE  ContractStep
    <2>1. row' = row /\ results' = results
      BY <1>3 DEF Answer, Worker, Execute, ReportStep, Ask, Deliver, ScanFailed, Proceed,
                  Crash, LoseMessage
    <2> QED BY <2>1, SameTables
  <1>4. ASSUME NEW c \in calls, UpdateAnswered(c)
        PROVE  ContractStep
    <2>1. /\ c.job \in Jobs /\ c.by \in Tasks /\ c.copy \in Rows({0} \cup Tasks)
          /\ c.copy.status = "awaiting_input"
      BY <1>4, CallKnown, CallTypes
         DEF UpdateAnswered, Read, RowInv, CopiesConsistent, CopyConsistent
    <2>2. c \notin calls' /\ c.pc = "update"
      BY <1>4, CallTypes DEF UpdateAnswered, Continue, Call
    <2>3. row' = row \/ c.copy = row[c.job]
      BY <2>2 DEF StaleWrite
    <2>4. ASSUME c.copy = row[c.job]
          PROVE  ContractStep
      <3>1. Write(c.job, Answered(row[c.job], c.by)) /\ results' = results
        BY <1>4, <2>4 DEF UpdateAnswered
      <3>2. Answered(row[c.job], c.by).status = "pending"
        BY <2>1, <2>4 DEF Answered, Rows
      <3>3. Contract!Answer(c.job)
        BY <2>1, <2>4, <3>1, <3>2, MoveStep DEF Contract!Answer
      <3> QED BY <2>1, <3>3 DEF ContractStep, Contract!Next
    <2> QED BY <1>4, <2>3, <2>4, SameTables DEF UpdateAnswered
  <1>5. ASSUME NEW c \in calls, UpdateRefused(c)
        PROVE  ContractStep
    <2>1. c.job \in Jobs /\ row[c.job] \in Rows({0} \cup Tasks)
      BY CallKnown, CallTypes
    <2>2. row' = row \/ c.copy = row[c.job]
      BY <1>5 DEF UpdateRefused, StaleWrite
    <2> QED BY <1>5, <2>1, <2>2, FailStep, SameTables DEF UpdateRefused
  <1>6. ASSUME NEW c \in calls, Update(c)
        PROVE  ContractStep
    <2>1. row' = row \/ c.copy = row[c.job]
      BY <1>6 DEF Update, Reply, StaleWrite
    <2> QED BY <1>6, <2>1, UpdateStep, SameTables DEF Update
  <1>7. ASSUME NEW c \in calls,
               \/ ClearSteps(c) \/ Dispatch(c) \/ DispatchReplyLost(c) \/ DispatchFailed(c)
               \/ Find(c) \/ Purge(c) \/ AppendStep(c) \/ Abort(c) \/ Timeout(c)
        PROVE  ContractStep
    <2>1. row' = row /\ results' = results
      BY <1>7 DEF ClearSteps, Dispatch, DispatchReplyLost, DispatchFailed, Find, Purge,
                  AppendStep, Abort, Timeout
    <2> QED BY <2>1, SameTables
  <1>8. ASSUME NEW c \in calls, Commit(c)
        PROVE  ContractStep
    BY <1>8, CommitStep
  <1>9. ASSUME \/ ListStale \/ ReaperAbort \/ UNCHANGED vars \/ \E j \in Jobs : Age(j)
        PROVE  ContractStep
    BY <1>9, SameTables DEF ListStale, ReaperAbort, vars, Age
  <1> QED BY <1>1, <1>2, <1>3, <1>4, <1>5, <1>6, <1>7, <1>8, <1>9 DEF Next, Backend

LEMMA InvAlways == Init => Inv
  BY InitTypeInv, InitRowInv, InitFindingsInv DEF Inv

LEMMA NextInv == Inv /\ [Next]_vars => Inv'
  BY NextTypeInv, NextRowInv, NextFindingsInv DEF Inv

\* Whatever the interleaving, a step that does not follow the contract is the
\* write of a copy that is no longer the row.
THEOREM FreshStepsFollowContract == Spec => FreshStepsKeepContract
  <1>1. Inv /\ [Next]_vars => [StaleWrite \/ [Contract!Next]_(Contract!vars)]_vars
    BY NextKeepsContract DEF ContractStep
  <1> QED BY <1>1, InvAlways, NextInv, PTL DEF Spec, FreshStepsKeepContract

\* The behaviours without a stale write implement the contract.
THEOREM FreshJobsImplementContract == FreshSpec => ImplementsContract
  <1>1. Init => Contract!Init
    BY DEF Init, Contract!Init, NoRow
  <1>2. [Next /\ ~StaleWrite]_vars => [Next]_vars
    OBVIOUS
  <1>3. Inv /\ [Next /\ ~StaleWrite]_vars => [Contract!Next]_(Contract!vars)
    <2>1. CASE UNCHANGED vars
      BY <2>1, SameTables DEF vars, ContractStep
    <2>2. Inv /\ Next /\ ~StaleWrite => ContractStep
      BY NextKeepsContract
    <2> QED BY <2>1, <2>2 DEF ContractStep
  <1> QED BY <1>1, <1>2, <1>3, InvAlways, NextInv, PTL
          DEF FreshSpec, ImplementsContract, Contract!Spec

\* "A failure never clobbers a completed job": it does not, unless a copy is
\* written back to a row that has changed since it was read.
THEOREM FreshFailuresNeverClobber == FreshSpec => FailureNeverClobbersCompleted
  <1> DEFINE Kept == \A j \in Jobs : row[j].status = "completed" => row'[j].status # "failed"
  <1>1. ASSUME ContractStep
        PROVE  Kept
    <2> SUFFICES ASSUME NEW j \in Jobs, row[j].status = "completed"
                 PROVE  row'[j].status # "failed"
      OBVIOUS
    <2> DEFINE status == [i \in Jobs |-> row[i].status]
    <2>1. CASE status' = status
      BY <2>1
    <2>2. ASSUME NEW i \in Jobs, NEW from, NEW to, Contract!Move(i, from, to),
                 to = "failed" => "completed" \notin from
          PROVE  row'[j].status # "failed"
      BY <2>2 DEF Contract!Move
    <2>3. ASSUME NEW i \in Jobs, Contract!Deliver(i)
          PROVE  row'[j].status # "failed"
      BY <2>1, <2>3 DEF Contract!Deliver
    <2>4. CASE UNCHANGED Contract!vars
      BY <2>1, <2>4 DEF Contract!vars
    <2> QED
      BY <1>1, <2>2, <2>3, <2>4
      DEF ContractStep, Contract!Next, Contract!Launch, Contract!Start, Contract!Ask,
          Contract!Answer, Contract!Complete, Contract!Fail
  <1>2. [Next /\ ~StaleWrite]_vars => [Next]_vars
    OBVIOUS
  <1>3. Inv /\ [Next /\ ~StaleWrite]_vars => [Kept]_row
    <2>1. CASE UNCHANGED vars
      BY <2>1 DEF vars
    <2>2. Inv /\ Next /\ ~StaleWrite => Kept
      BY NextKeepsContract, <1>1
    <2> QED BY <2>1, <2>2
  <1> QED BY <1>2, <1>3, InvAlways, NextInv, PTL DEF FreshSpec, FailureNeverClobbersCompleted
=============================================================================

------------------------- MODULE JobLifecycleProofs -------------------------
(***************************************************************************)
(* JobLifecycle's safety properties, for every set of jobs and every bound. *)
(***************************************************************************)
EXTENDS JobInvariant, TLAPS

\* The type of a row that is in the table or is not.
RowType == Rows({0} \cup Tasks) \cup {NoRow}

\* The part of the invariant that is about types, calls and messages.
TypeInv == TypeOK /\ CallsShaped /\ CopiesRead /\ DispatchedOnce /\ WithinBudget

-----------------------------------------------------------------------------
\* The methods of ScanJob map rows to rows.
LEMMA MethodTypes ==
    ASSUME NEW job \in Rows({0} \cup Tasks), NEW k \in Tasks
    PROVE  /\ Started(job) \in Rows({0} \cup Tasks)
           /\ Completed(job) \in Rows({0} \cup Tasks)
           /\ Failed(job) \in Rows({0} \cup Tasks)
           /\ AwaitingInput(job) \in Rows({0} \cup Tasks)
           /\ Answered(job, k) \in Rows({0} \cup Tasks)
  BY DEF Rows, Statuses, Started, Completed, Failed, AwaitingInput, Answered,
         Unfinished

\* A row in the table is not the absent row.
LEMMA RowIsNotNoRow ==
    /\ NoRow \notin Rows({0} \cup Tasks)
    /\ NewJob \in Rows({0} \cup Tasks)
  BY DEF Rows, Statuses, NoRow, NewJob, Unfinished

\* What a callback writes is a row.
LEMMA AppliedType ==
    ASSUME NEW c \in Call, c.copy # NoRow, 
           c.op \in {"start", "question", "results", "failure"}
    PROVE  Applied(c) \in Rows({0} \cup Tasks)
  <1>1. c.copy \in Rows({0} \cup Tasks) /\ c.by \in Tasks
    BY DEF Call
  <1> QED BY <1>1, MethodTypes DEF Applied

LEMMA InitTypeInv == Init => TypeInv
  BY ConstantsAssumption DEF Init, TypeInv, TypeOK, CallsShaped, CopiesRead,
     DispatchedOnce, WithinBudget, Budget, Unsent, Message, Runs, Tasks, Rows, NoRow,
     Callbacks

-----------------------------------------------------------------------------
(***************************************************************************)
(* What the pieces of the actions do to the type invariant.                *)
(***************************************************************************)
LEMMA FaultCounts ==
    ASSUME TypeInv, Fault
    PROVE  /\ faults \in Nat /\ faults' = faults + 1
           /\ faults' \in 0..MaxFaults
  BY ConstantsAssumption DEF TypeInv, TypeOK, Fault

\* Writing a row of a launched job keeps the table and what is launched.
LEMMA WriteTypes ==
    ASSUME TypeInv, NEW j \in Jobs, NEW copy \in Rows({0} \cup Tasks),
           Write(j, copy)
    PROVE  /\ row' \in [Jobs -> RowType]
           /\ \A i \in Jobs : row[i] # NoRow => row'[i] # NoRow
  BY RowIsNotNoRow DEF TypeInv, TypeOK, Write, RowType

\* Changing one message to one of the right type and within its budget.
LEMMA MessageStep ==
    ASSUME TypeInv, NEW j \in Jobs, NEW k \in Tasks, NEW t \in Message,
           task' = [task EXCEPT ![j][k] = t],
           Budget(t, faults'),
           faults' = faults \/ (faults \in Nat /\ faults' = faults + 1)
    PROVE  /\ task' \in [Jobs -> [Tasks -> Message]]
           /\ WithinBudget'
           /\ task[j][k] # Unsent =>
                \A i \in Jobs, l \in Tasks :
                    task[i][l] = Unsent => task'[i][l] = Unsent
  <1>1. task \in [Jobs -> [Tasks -> Message]]
    BY DEF TypeInv, TypeOK
  <1>2. \A i \in Jobs, l \in Tasks :
          task'[i][l] = IF i = j /\ l = k THEN t ELSE task[i][l]
    BY <1>1
  <1>3. task' \in [Jobs -> [Tasks -> Message]]
    BY <1>1
  <1>4. ASSUME NEW i \in Jobs, NEW l \in Tasks
        PROVE  Budget(task'[i][l], faults')
    <2>1. CASE i = j /\ l = k
      BY <1>2, <2>1
    <2>2. CASE ~(i = j /\ l = k)
      <3>1. task'[i][l] = task[i][l] /\ task[i][l] \in Message
        BY <1>1, <1>2, <2>2
      <3>2. Budget(task[i][l], faults)
        BY DEF TypeInv, WithinBudget
      <3>3. faults \in Nat
        BY DEF TypeInv, TypeOK
      <3> QED BY <3>1, <3>2, <3>3 DEF Budget, Message, Runs
    <2> QED BY <2>1, <2>2
  <1> QED BY <1>2, <1>3, <1>4 DEF WithinBudget

\* Leaving the messages alone, with or without a fault.
LEMMA SameMessages ==
    ASSUME TypeInv, task' = task,
           faults' = faults \/ (faults \in Nat /\ faults' = faults + 1)
    PROVE  WithinBudget'
  <1> SUFFICES ASSUME NEW j \in Jobs, NEW k \in Tasks
               PROVE  Budget(task'[j][k], faults')
    BY DEF WithinBudget
  <1>1. task[j][k] \in Message /\ Budget(task[j][k], faults) /\ task'[j][k] = task[j][k]
    BY DEF TypeInv, TypeOK, WithinBudget
  <1> QED BY <1>1 DEF Budget, Message, Runs, TypeInv, TypeOK

\* Replacing the requests S by D starts no dispatch of its own.
LEMMA DispatchStep ==
    ASSUME TypeInv, NEW S, NEW D, calls' = (calls \ S) \cup D, S \subseteq calls,
           \A d \in D : ToDispatch(d) =>
               \E c \in S : ToDispatch(c) /\ c.job = d.job /\ c.by = d.by,
           \A d, e \in D : ToDispatch(d) /\ ToDispatch(e) => d = e,
           \A j \in Jobs, k \in Tasks :
               task[j][k] = Unsent => task'[j][k] = Unsent,
           \A j \in Jobs : row[j] # NoRow => row'[j] # NoRow
    PROVE  DispatchedOnce'
  <1>1. \A d \in calls : d.job \in Jobs /\ d.by \in Tasks
    BY DEF TypeInv, TypeOK, Call
  <1>2. \A d \in calls' : ToDispatch(d) =>
          \E c \in calls : /\ ToDispatch(c) /\ c.job = d.job /\ c.by = d.by
                           /\ d # c => c \in S /\ d \in D
    OBVIOUS
  <1>3. \A d \in calls' : ToDispatch(d) => task'[d.job][d.by] = Unsent
    BY <1>1, <1>2 DEF TypeInv, DispatchedOnce
  <1>4. \A d, e \in calls' :
          ToDispatch(d) /\ ToDispatch(e) /\ d.job = e.job /\ d.by = e.by => d = e
    BY <1>2 DEF TypeInv, DispatchedOnce
  <1>5. \A j \in Jobs, k \in Tasks : row'[j] = NoRow => task'[j][k] = Unsent
    BY DEF TypeInv, DispatchedOnce
  <1> QED BY <1>3, <1>4, <1>5 DEF DispatchedOnce, ToDispatch

\* A retry takes one of the tries left, and moves the budget to the queue.
LEMMA RetriedTypes ==
    ASSUME NEW t \in Message, NEW f \in Nat, t.run <= t.tries + f + 1, t.run # 0
    PROVE  Retried(t) \in Message /\ Budget(Retried(t), f)
  <1>1. /\ t.tries \in 0..MaxRetries /\ t.run \in Runs \cup {0}
        /\ t = [pc |-> t.pc, tries |-> t.tries, run |-> t.run]
    BY DEF Message
  <1>2. t.tries \in Nat /\ t.run \in Nat /\ MaxRetries \in Nat
    BY <1>1, ConstantsAssumption DEF Runs
  <1>3. CASE t.tries < MaxRetries
    <2>1. Retried(t) = [pc |-> "queued", tries |-> t.tries + 1, run |-> t.run]
      BY <1>1, <1>3 DEF Retried
    <2>2. t.tries + 1 \in 0..MaxRetries
      BY <1>2, <1>3
    <2>3. Retried(t) \in Message
      BY <1>1, <2>1, <2>2 DEF Message
    <2> QED BY <1>2, <2>1, <2>3 DEF Budget, Callbacks
  <1>4. CASE ~(t.tries < MaxRetries)
    <2>1. Retried(t) = [pc |-> "done", tries |-> t.tries, run |-> t.run]
      BY <1>1, <1>4 DEF Retried
    <2>2. Retried(t) \in Message
      BY <1>1, <2>1 DEF Message
    <2> QED BY <1>2, <2>1, <2>2 DEF Budget, Callbacks
  <1> QED BY <1>3, <1>4

\* A worker's reaction to a reply is a message within the same budget.
LEMMA AfterReplyTypes ==
    ASSUME NEW t \in Message, NEW f \in Nat, Budget(t, f), t.pc \in Callbacks
    PROVE  AfterReply(t, t.pc) \in Message /\ Budget(AfterReply(t, t.pc), f)
  <1>1. t.run # 0 /\ t.run <= t.tries + f + 1
    BY DEF Budget, Callbacks
  <1>2. t.pc = "failure" => AfterReply(t, t.pc) = Retried(t)
    BY DEF AfterReply
  <1>3. Retried(t) \in Message /\ Budget(Retried(t), f)
    BY <1>1, RetriedTypes
  <1>4. CASE t.pc # "failure"
    BY <1>1, <1>4 DEF AfterReply, Message, Runs, Budget, Callbacks
  <1> QED BY <1>2, <1>3, <1>4

\* Its reaction to an exception too, whatever faults come on top.
LEMMA AfterErrorTypes ==
    ASSUME NEW t \in Message, NEW f \in Nat, Budget(t, f), t.pc \in Callbacks
    PROVE  AfterError(t, t.pc) \in Message /\ Budget(AfterError(t, t.pc), f)
  <1>1. t.run # 0 /\ t.run <= t.tries + f + 1
    BY DEF Budget, Callbacks
  <1>2. t.pc = "failure" => AfterError(t, t.pc) = Retried(t)
    BY DEF AfterError
  <1>3. Retried(t) \in Message /\ Budget(Retried(t), f)
    BY <1>1, RetriedTypes
  <1>4. CASE t.pc # "failure"
    BY <1>1, <1>4 DEF AfterError, Message, Runs, Budget, Callbacks
  <1> QED BY <1>2, <1>3, <1>4

\* A budget lasts when faults come on top.
LEMMA BudgetGrows ==
    ASSUME NEW t \in Message, NEW f \in Nat, Budget(t, f)
    PROVE  Budget(t, f + 1)
  BY DEF Budget, Message, Runs

\* The message of a request, and who waits.
LEMMA CallTypes ==
    ASSUME TypeInv, NEW c \in calls
    PROVE  /\ c \in Call /\ c.job \in Jobs /\ c.by \in Tasks
           /\ task[c.job][c.by] \in Message
           /\ Budget(task[c.job][c.by], faults)
           /\ faults \in Nat
           /\ Waiting(c) => task[c.job][c.by].pc = c.op /\ c.op \in Callbacks
  <1>1. c \in Call /\ c.job \in Jobs /\ c.by \in Tasks
    BY DEF TypeInv, TypeOK, Call
  <1>2. task[c.job][c.by] \in Message
    BY <1>1 DEF TypeInv, TypeOK
  <1>3. Budget(task[c.job][c.by], faults) /\ faults \in Nat
    BY <1>1 DEF TypeInv, TypeOK, WithinBudget
  <1>4. ASSUME Waiting(c)
        PROVE  task[c.job][c.by].pc = c.op /\ c.op \in Callbacks
    BY <1>1, <1>2, <1>4 DEF Waiting, Message, Call, Callbacks
  <1> QED BY <1>1, <1>2, <1>3, <1>4

LEMMA ReplyStep ==
    ASSUME TypeInv, NEW c \in calls, Reply(c), faults' = faults
    PROVE  /\ task' \in [Jobs -> [Tasks -> Message]]
           /\ WithinBudget'
           /\ \A i \in Jobs, l \in Tasks :
                task[i][l] = Unsent => task'[i][l] = Unsent
  <1> DEFINE t == task[c.job][c.by]
             u == IF Waiting(c) THEN AfterReply(t, c.op) ELSE t
  <1>1. u \in Message /\ Budget(u, faults)
    BY CallTypes, AfterReplyTypes
  <1>2. task' = [task EXCEPT ![c.job][c.by] = u]
    BY CallTypes DEF Reply, TypeInv, TypeOK
  <1>3. Waiting(c) => t # Unsent
    BY CallTypes DEF Unsent, Callbacks
  <1>4. ~Waiting(c) => task' = task
    BY <1>2, CallTypes DEF TypeInv, TypeOK
  <1> QED BY <1>1, <1>2, <1>3, <1>4, CallTypes, MessageStep, SameMessages
             DEF TypeInv, TypeOK

LEMMA RaiseStep ==
    ASSUME TypeInv, NEW c \in calls, NEW rest \in SUBSET {c}, Raise(c, rest), Fault
    PROVE  /\ task' \in [Jobs -> [Tasks -> Message]]
           /\ WithinBudget'
           /\ \A i \in Jobs, l \in Tasks :
                task[i][l] = Unsent => task'[i][l] = Unsent
  <1> DEFINE t == task[c.job][c.by]
             u == IF Waiting(c) THEN AfterError(t, c.op) ELSE t
  <1>0. faults' = faults + 1 /\ faults \in Nat
    BY FaultCounts
  <1>1. u \in Message /\ Budget(u, faults)
    BY CallTypes, AfterErrorTypes
  <1>2. Budget(u, faults')
    BY <1>0, <1>1, BudgetGrows
  <1>3. task' = [task EXCEPT ![c.job][c.by] = u]
    BY CallTypes DEF Raise, TypeInv, TypeOK
  <1>4. Waiting(c) => t # Unsent
    BY CallTypes DEF Unsent, Callbacks
  <1>5. ~Waiting(c) => task' = task
    BY <1>3, CallTypes DEF TypeInv, TypeOK
  <1> QED BY <1>0, <1>1, <1>2, <1>3, <1>4, <1>5, CallTypes, MessageStep, SameMessages
             DEF TypeInv, TypeOK

\* Replacing the requests S by requests D of the right shape.
LEMMA CallsStep ==
    ASSUME TypeInv, NEW S, NEW D, calls' = (calls \ S) \cup D, S \subseteq calls,
           \A d \in D : /\ d \in Call /\ CallShape(d)
                        /\ row[d.job] # NoRow /\ (Read(d) => d.copy # NoRow),
           \A d \in D : ToDispatch(d) =>
               \E c \in S : ToDispatch(c) /\ c.job = d.job /\ c.by = d.by,
           \A d, e \in D : ToDispatch(d) /\ ToDispatch(e) => d = e,
           \A j \in Jobs, k \in Tasks :
               task[j][k] = Unsent => task'[j][k] = Unsent,
           \A j \in Jobs : row[j] # NoRow => row'[j] # NoRow,
           \A j \in Jobs : batch'[j] # NoRow => row[j] # NoRow
    PROVE  calls' \subseteq Call /\ CallsShaped' /\ CopiesRead' /\ DispatchedOnce'
  <1>1. calls' \subseteq Call
    BY DEF TypeInv, TypeOK
  <1>2. CallsShaped'
    BY DEF TypeInv, CallsShaped, CallShape
  <1>3. CopiesRead'
    BY <1>1 DEF TypeInv, CopiesRead, Read, Call
  <1>4. DispatchedOnce'
    BY DispatchStep
  <1> QED BY <1>1, <1>2, <1>3, <1>4

\* What is known of a request under way.
LEMMA CallKnown ==
    ASSUME TypeInv, NEW c \in calls
    PROVE  /\ c \in Call /\ CallShape(c) /\ row[c.job] # NoRow
           /\ Read(c) => c.copy # NoRow /\ c.copy \in Rows({0} \cup Tasks)
           /\ row[c.job] \in Rows({0} \cup Tasks)
           /\ \A j \in Jobs : batch[j] # NoRow => row[j] # NoRow
  BY DEF TypeInv, TypeOK, Call, CallsShaped, CopiesRead

\* A request going on as another of its kind.
LEMMA ContinueStep ==
    ASSUME TypeInv, NEW c \in calls, NEW d \in Call,
           calls' = (calls \ {c}) \cup {d},
           CallShape(d), Read(d) => d.copy # NoRow,
           ToDispatch(d) => ToDispatch(c), d.job = c.job, d.by = c.by,
           \A j \in Jobs, k \in Tasks :
               task[j][k] = Unsent => task'[j][k] = Unsent,
           \A j \in Jobs : row[j] # NoRow => row'[j] # NoRow,
           batch' = batch
    PROVE  calls' \subseteq Call /\ CallsShaped' /\ CopiesRead' /\ DispatchedOnce'
  <1> DEFINE S == {c}
             D == {d}
  <1>1. calls' = (calls \ S) \cup D /\ S \subseteq calls
    OBVIOUS
  <1>2. \A e \in D : /\ e \in Call /\ CallShape(e)
                     /\ row[e.job] # NoRow /\ (Read(e) => e.copy # NoRow)
    BY CallKnown
  <1>3. /\ \A e \in D : ToDispatch(e) =>
               \E f \in S : ToDispatch(f) /\ f.job = e.job /\ f.by = e.by
        /\ \A e, f \in D : ToDispatch(e) /\ ToDispatch(f) => e = f
    OBVIOUS
  <1>4. \A j \in Jobs : batch'[j] # NoRow => row[j] # NoRow
    BY CallKnown
  <1> HIDE DEF S, D
  <1> QED BY <1>1, <1>2, <1>3, <1>4, CallsStep

\* Requests ending, without another.
LEMMA EndStep ==
    ASSUME TypeInv, NEW S \in SUBSET calls, calls' = calls \ S,
           \A j \in Jobs, k \in Tasks :
               task[j][k] = Unsent => task'[j][k] = Unsent,
           \A j \in Jobs : row[j] # NoRow => row'[j] # NoRow,
           \A j \in Jobs : batch'[j] # NoRow => row[j] # NoRow
    PROVE  calls' \subseteq Call /\ CallsShaped' /\ CopiesRead' /\ DispatchedOnce'
  <1> DEFINE D == {}
  <1>1. calls' = (calls \ S) \cup D /\ S \subseteq calls
    OBVIOUS
  <1>2. \A e \in D : FALSE
    OBVIOUS
  <1> HIDE DEF D
  <1> QED BY <1>1, <1>2, CallsStep

\* The same requests, for a row no longer absent or a message no longer unsent.
LEMMA SameCallsStep ==
    ASSUME TypeInv, calls' = calls,
           \A j \in Jobs, k \in Tasks :
               task[j][k] = Unsent => task'[j][k] = Unsent,
           \A j \in Jobs : row[j] # NoRow => row'[j] # NoRow,
           \A j \in Jobs : batch'[j] # NoRow => row[j] # NoRow
    PROVE  calls' \subseteq Call /\ CallsShaped' /\ CopiesRead' /\ DispatchedOnce'
  <1> DEFINE S == {}
  <1>1. calls' = calls \ S /\ S \in SUBSET calls
    OBVIOUS
  <1> HIDE DEF S
  <1> QED BY <1>1, EndStep

-----------------------------------------------------------------------------
\* A launched job's request is the only one for its dispatch.
LEMMA LaunchTypeInv ==
    ASSUME TypeInv, NEW j \in Jobs, Launch(j)
    PROVE  TypeInv'
  <1> DEFINE new == [job |-> j, op |-> "launch", by |-> 1, run |-> 0,
                     pc |-> "dispatch", copy |-> NewJob, purged |-> {}]
  <1>1. 1 \in Tasks
    BY ConstantsAssumption DEF Tasks
  <1>2. new \in Call
    BY <1>1, RowIsNotNoRow DEF Call, Callbacks
  <1>3. calls' = calls \cup {new}
    BY DEF Launch
  <1>4. TypeOK'
    BY <1>2, <1>3, RowIsNotNoRow DEF TypeInv, TypeOK, Launch, Write
  <1>5. CallsShaped'
    BY <1>3 DEF TypeInv, CallsShaped, CallShape, Requests, Callbacks
  <1>6. CopiesRead'
    BY <1>3, RowIsNotNoRow DEF TypeInv, TypeOK, CopiesRead, Read, Launch, Write, Call
  <1>7. DispatchedOnce'
    <2>1. task' = task /\ task[j][1] = Unsent
      BY <1>1 DEF Launch, TypeInv, DispatchedOnce
    <2>2. \A d \in calls : d.job # j
      BY DEF Launch, TypeInv, CopiesRead
    <2>3. \A i \in Jobs : row'[i] = NoRow => row[i] = NoRow
      BY RowIsNotNoRow DEF Launch, Write, TypeInv, TypeOK
    <2> QED BY <1>3, <2>1, <2>2, <2>3 DEF TypeInv, DispatchedOnce, ToDispatch
  <1>8. WithinBudget'
    BY DEF TypeInv, WithinBudget, Budget, Launch
  <1> QED BY <1>4, <1>5, <1>6, <1>7, <1>8 DEF TypeInv

\* clear_steps goes on to the update.
LEMMA ClearStepsTypeInv ==
    ASSUME TypeInv, NEW c \in calls, ClearSteps(c)
    PROVE  TypeInv'
  <1> DEFINE d == [c EXCEPT !.pc = "update"]
  <1>1. calls' = (calls \ {c}) \cup {d} /\ UNCHANGED <<task, faults, batch, old>>
    BY DEF ClearSteps, Continue
  <1>2. d \in Call
    BY CallKnown DEF ClearSteps, Call, CallShape, Requests, Callbacks
  <1>3. /\ CallShape(d) /\ row[d.job] # NoRow /\ (Read(d) => d.copy # NoRow)
        /\ ToDispatch(d) => ToDispatch(c)
        /\ d.job = c.job /\ d.by = c.by
    BY CallKnown, RowIsNotNoRow, MethodTypes DEF ClearSteps, Read, ToDispatch, Call, CallShape, Requests, Callbacks
  <1>4. row' = row
    BY DEF ClearSteps
  <1>5. calls' \subseteq Call /\ CallsShaped' /\ CopiesRead' /\ DispatchedOnce'
    BY <1>1, <1>2, <1>3, <1>4, ContinueStep
  <1>6. TypeOK'
    BY <1>1, <1>2, <1>4, <1>5, CallKnown DEF ClearSteps, TypeInv, TypeOK, RowType, Call
  <1>7. WithinBudget'
    BY <1>1, SameMessages
  <1> QED BY <1>5, <1>6, <1>7 DEF TypeInv


\* The answered job is written and goes on to its dispatch.
LEMMA UpdateAnsweredTypeInv ==
    ASSUME TypeInv, NEW c \in calls, UpdateAnswered(c)
    PROVE  TypeInv'
  <1> DEFINE d == [c EXCEPT !.pc = "dispatch", !.copy = Answered(c.copy, c.by)]
  <1>1. calls' = (calls \ {c}) \cup {d} /\ UNCHANGED <<task, faults, batch, old>>
    BY DEF UpdateAnswered, Continue
  <1>2. d \in Call
    <2>1. Answered(c.copy, c.by) \in Rows({0} \cup Tasks)
      BY CallKnown, MethodTypes DEF UpdateAnswered, Read, Call
    <2> QED BY <2>1, CallKnown DEF Call
  <1>3. /\ CallShape(d) /\ row[d.job] # NoRow /\ (Read(d) => d.copy # NoRow)
        /\ ToDispatch(d) => ToDispatch(c)
        /\ d.job = c.job /\ d.by = c.by
    <2>1. Answered(c.copy, c.by) \in Rows({0} \cup Tasks)
      BY CallKnown, MethodTypes DEF UpdateAnswered, Read, Call
    <2>2. d.copy # NoRow
      BY <2>1, RowIsNotNoRow
    <2> QED BY <2>2, CallKnown
            DEF UpdateAnswered, Read, ToDispatch, Call, CallShape, Requests, Callbacks
  <1>4. row' \in [Jobs -> RowType] /\ \A i \in Jobs : row[i] # NoRow => row'[i] # NoRow
    <2>1. Answered(c.copy, c.by) \in Rows({0} \cup Tasks) /\ c.job \in Jobs
      BY CallKnown, MethodTypes DEF UpdateAnswered, Read, Call
    <2> QED BY <2>1, WriteTypes DEF UpdateAnswered
  <1>5. calls' \subseteq Call /\ CallsShaped' /\ CopiesRead' /\ DispatchedOnce'
    BY <1>1, <1>2, <1>3, <1>4, ContinueStep
  <1>6. TypeOK'
    BY <1>1, <1>2, <1>4, <1>5, CallKnown DEF UpdateAnswered, TypeInv, TypeOK, RowType, Call
  <1>7. WithinBudget'
    BY <1>1, SameMessages
  <1> QED BY <1>5, <1>6, <1>7 DEF TypeInv


\* A callback goes on with the row it found.
LEMMA FindTypeInv ==
    ASSUME TypeInv, NEW c \in calls, Find(c)
    PROVE  TypeInv'
  <1> DEFINE d == IF c.op = "step"
               THEN [c EXCEPT !.pc = "append"]
               ELSE [c EXCEPT !.copy = row[c.job],
                       !.pc = IF c.op = "results" THEN "purge" ELSE "update"]
  <1>1. calls' = (calls \ {c}) \cup {d} /\ UNCHANGED <<task, faults, batch, old>>
    BY DEF Find, Continue
  <1>2. d \in Call
    BY CallKnown DEF Find, Call, CallShape, Requests, Callbacks
  <1>3. /\ CallShape(d) /\ row[d.job] # NoRow /\ (Read(d) => d.copy # NoRow)
        /\ ToDispatch(d) => ToDispatch(c)
        /\ d.job = c.job /\ d.by = c.by
    BY CallKnown, RowIsNotNoRow, MethodTypes DEF Find, Read, ToDispatch, Call, CallShape, Requests, Callbacks
  <1>4. row' = row
    BY DEF Find
  <1>5. calls' \subseteq Call /\ CallsShaped' /\ CopiesRead' /\ DispatchedOnce'
    BY <1>1, <1>2, <1>3, <1>4, ContinueStep
  <1>6. TypeOK'
    BY <1>1, <1>2, <1>4, <1>5, CallKnown DEF Find, TypeInv, TypeOK, RowType, Call
  <1>7. WithinBudget'
    BY <1>1, SameMessages
  <1> QED BY <1>5, <1>6, <1>7 DEF TypeInv


\* A delivery goes on with the findings it deletes.
LEMMA PurgeTypeInv ==
    ASSUME TypeInv, NEW c \in calls, Purge(c)
    PROVE  TypeInv'
  <1> DEFINE d == [c EXCEPT !.pc = "commit", !.purged = results[c.job]]
  <1>1. calls' = (calls \ {c}) \cup {d} /\ UNCHANGED <<task, faults, batch, old>>
    BY DEF Purge, Continue
  <1>2. d \in Call
    <2>1. results[c.job] \in SUBSET (Tasks \X Runs)
      BY CallTypes DEF TypeInv, TypeOK
    <2> QED BY <2>1, CallKnown DEF Call
  <1>3. /\ CallShape(d) /\ row[d.job] # NoRow /\ (Read(d) => d.copy # NoRow)
        /\ ToDispatch(d) => ToDispatch(c)
        /\ d.job = c.job /\ d.by = c.by
    BY CallKnown, RowIsNotNoRow, MethodTypes DEF Purge, Read, ToDispatch, Call, CallShape, Requests, Callbacks
  <1>4. row' = row
    BY DEF Purge
  <1>5. calls' \subseteq Call /\ CallsShaped' /\ CopiesRead' /\ DispatchedOnce'
    BY <1>1, <1>2, <1>3, <1>4, ContinueStep
  <1>6. TypeOK'
    BY <1>1, <1>2, <1>4, <1>5, CallKnown DEF Purge, TypeInv, TypeOK, RowType, Call
  <1>7. WithinBudget'
    BY <1>1, SameMessages
  <1> QED BY <1>5, <1>6, <1>7 DEF TypeInv


\* A delivery goes on with its findings in the table.
LEMMA CommitTypeInv ==
    ASSUME TypeInv, NEW c \in calls, Commit(c)
    PROVE  TypeInv'
  <1> DEFINE d == [c EXCEPT !.pc = "update", !.purged = {}]
  <1>1. calls' = (calls \ {c}) \cup {d} /\ UNCHANGED <<task, faults, batch, old>>
    BY DEF Commit, Continue
  <1>2. d \in Call
    BY CallKnown DEF Commit, Call, CallShape, Requests, Callbacks
  <1>3. /\ CallShape(d) /\ row[d.job] # NoRow /\ (Read(d) => d.copy # NoRow)
        /\ ToDispatch(d) => ToDispatch(c)
        /\ d.job = c.job /\ d.by = c.by
    BY CallKnown, RowIsNotNoRow, MethodTypes DEF Commit, Read, ToDispatch, Call, CallShape, Requests, Callbacks
  <1>4. row' = row
    BY DEF Commit
  <1>5. calls' \subseteq Call /\ CallsShaped' /\ CopiesRead' /\ DispatchedOnce'
    BY <1>1, <1>2, <1>3, <1>4, ContinueStep
  <1>6. TypeOK'
    <2>1. <<c.by, c.run>> \in Tasks \X Runs
      BY CallKnown DEF Commit, CallShape, Call, Callbacks
    <2>2. results' \in [Jobs -> SUBSET (Tasks \X Runs)]
      BY <2>1, CallTypes DEF Commit, TypeInv, TypeOK
    <2> QED BY <1>1, <1>4, <1>5, <2>2 DEF Commit, TypeInv, TypeOK
  <1>7. WithinBudget'
    BY <1>1, SameMessages
  <1> QED BY <1>5, <1>6, <1>7 DEF TypeInv

\* A user's answer is a request for a dispatch nobody made.
LEMMA AnswerTypeInv ==
    ASSUME TypeInv, NEW j \in Jobs, NEW k \in Tasks, Answer(j, k)
    PROVE  TypeInv'
  <1> DEFINE new == [job |-> j, op |-> "answer", by |-> k, run |-> 0,
                     pc |-> "clear", copy |-> row[j], purged |-> {}]
  <1>1. calls' = calls \cup {new} /\ UNCHANGED <<row, results, journal, task, batch, old, faults>>
    BY DEF Answer
  <1>2. row[j] # NoRow /\ row[j] \in Rows({0} \cup Tasks) /\ k # 1
    <2>1. row[j] # NoRow /\ k # 1
      BY DEF Answer, NoRow
    <2> QED BY <2>1 DEF TypeInv, TypeOK
  <1>3. new \in Call
    BY <1>2 DEF Call
  <1>4. CallShape(new)
    BY <1>2 DEF CallShape, Requests, Callbacks
  <1>5. TypeOK'
    BY <1>1, <1>3 DEF TypeInv, TypeOK
  <1>6. CallsShaped'
    BY <1>1, <1>4 DEF TypeInv, CallsShaped, CallShape
  <1>7. CopiesRead'
    BY <1>1, <1>2 DEF TypeInv, CopiesRead, Read
  <1>8. DispatchedOnce'
    <2>1. \A d \in calls : ToDispatch(d) => ~(d.job = j /\ d.by = k)
      BY <1>2 DEF Answer, ToDispatch, TypeInv, CallsShaped, CallShape, Requests
    <2>2. task[j][k] = Unsent /\ new.job = j /\ new.by = k
      BY DEF Answer
    <2>3. \A d \in calls' : d \in calls \/ d = new
      BY <1>1
    <2>4. \A d \in calls' : ToDispatch(d) => task[d.job][d.by] = Unsent
      <3>1. \A d \in calls : ToDispatch(d) => task[d.job][d.by] = Unsent
        BY DEF TypeInv, DispatchedOnce
      <3> QED BY <2>2, <2>3, <3>1
    <2>5. \A d, e \in calls' :
            ToDispatch(d) /\ ToDispatch(e) /\ d.job = e.job /\ d.by = e.by => d = e
      <3>1. \A d, e \in calls :
              ToDispatch(d) /\ ToDispatch(e) /\ d.job = e.job /\ d.by = e.by => d = e
        BY DEF TypeInv, DispatchedOnce
      <3> HIDE DEF new
      <3> QED BY <2>1, <2>2, <2>3, <3>1
    <2>6. \A i \in Jobs, l \in Tasks : row[i] = NoRow => task[i][l] = Unsent
      BY DEF TypeInv, DispatchedOnce
    <2> QED BY <1>1, <2>4, <2>5, <2>6 DEF DispatchedOnce, ToDispatch
  <1>9. WithinBudget'
    BY <1>1, SameMessages
  <1> QED BY <1>5, <1>6, <1>7, <1>8, <1>9 DEF TypeInv

\* A dispatch makes the unsent message of its request a message of another pc.
LEMMA SendStep ==
    ASSUME TypeInv, NEW c \in calls, ToDispatch(c), NEW pc \in {"queued", "done"},
           task' = [task EXCEPT ![c.job][c.by].pc = pc],
           calls' = calls \ {c} \/ calls' = (calls \ {c}) \cup {[c EXCEPT !.pc = "refused"]},
           faults' = faults \/ (faults \in Nat /\ faults' = faults + 1),
           row' = row, batch' = batch
    PROVE  /\ task' \in [Jobs -> [Tasks -> Message]]
           /\ calls' \subseteq Call
           /\ CallsShaped' /\ CopiesRead' /\ DispatchedOnce' /\ WithinBudget'
  <1> DEFINE t == [pc |-> pc, tries |-> 0, run |-> 0]
             d == [c EXCEPT !.pc = "refused"]
  <1>1. task[c.job][c.by] = Unsent
    BY DEF TypeInv, DispatchedOnce
  <1>2. task' = [task EXCEPT ![c.job][c.by] = t]
    <2>1. task' = [task EXCEPT ![c.job] =
                    [task[c.job] EXCEPT ![c.by] = [task[c.job][c.by] EXCEPT !.pc = pc]]]
      OBVIOUS
    <2>2. [task[c.job][c.by] EXCEPT !.pc = pc] = t
      BY <1>1 DEF Unsent
    <2> QED BY <2>1, <2>2
  <1>3. faults' \in Nat
    BY CallTypes
  <1>4. t \in Message /\ Budget(t, faults')
    BY <1>3, ConstantsAssumption DEF Message, Budget, Callbacks
  <1>5. task' \in [Jobs -> [Tasks -> Message]] /\ WithinBudget'
    BY <1>2, <1>4, CallTypes, MessageStep
  <1>6. d \in Call /\ CallShape(d) /\ d.copy # NoRow /\ d.job = c.job /\ ~ToDispatch(d)
    BY CallKnown DEF Call, CallShape, ToDispatch, Read, Requests, Callbacks
  <1>7. calls' \subseteq Call
    BY <1>6 DEF TypeInv, TypeOK
  <1>8. CallsShaped'
    BY <1>6 DEF TypeInv, CallsShaped, CallShape
  <1>9. CopiesRead'
    BY <1>6, CallKnown DEF TypeInv, CopiesRead, Read
  <1>10. DispatchedOnce'
    <2>1. \A e \in calls' : ToDispatch(e) => e \in calls /\ e # c
      BY <1>6
    <2>2. \A e \in calls' : ToDispatch(e) => ~(e.job = c.job /\ e.by = c.by)
      BY <2>1 DEF TypeInv, DispatchedOnce
    <2>3. \A e \in calls' : ToDispatch(e) => task'[e.job][e.by] = Unsent
      <3> SUFFICES ASSUME NEW e \in calls', ToDispatch(e)
                   PROVE  task'[e.job][e.by] = Unsent
        OBVIOUS
      <3>1. e \in calls /\ e.job \in Jobs /\ e.by \in Tasks
        BY <2>1, CallTypes
      <3>2. task[e.job][e.by] = Unsent
        BY <3>1 DEF TypeInv, DispatchedOnce
      <3>3. task'[e.job][e.by] = task[e.job][e.by]
        BY <1>2, <2>2, <3>1, CallTypes DEF TypeInv, TypeOK
      <3> QED BY <3>2, <3>3
    <2>4. \A j \in Jobs, k \in Tasks : row'[j] = NoRow => task'[j][k] = Unsent
      <3> SUFFICES ASSUME NEW j \in Jobs, NEW k \in Tasks, row[j] = NoRow
                   PROVE  task'[j][k] = Unsent
        OBVIOUS
      <3>1. j # c.job
        BY CallKnown
      <3>2. task'[j] = task[j]
        BY <1>2, <3>1, CallTypes DEF TypeInv, TypeOK
      <3> QED BY <3>2 DEF TypeInv, DispatchedOnce
    <2> QED BY <2>1, <2>3, <2>4 DEF TypeInv, DispatchedOnce, ToDispatch
  <1> QED BY <1>5, <1>7, <1>8, <1>9, <1>10

\* The three outcomes of a dispatch.
LEMMA DispatchTypeInv ==
    ASSUME TypeInv, NEW c \in calls,
           Dispatch(c) \/ DispatchReplyLost(c) \/ DispatchFailed(c)
    PROVE  TypeInv'
  <1>1. ToDispatch(c)
    BY CallKnown DEF Dispatch, DispatchReplyLost, DispatchFailed, ToDispatch, CallShape
  <1>2. \/ faults' = faults
        \/ faults \in Nat /\ faults' = faults + 1 /\ faults' \in 0..MaxFaults
    BY FaultCounts DEF Dispatch, DispatchReplyLost, DispatchFailed
  <1>3. /\ task' \in [Jobs -> [Tasks -> Message]] /\ calls' \subseteq Call
        /\ CallsShaped' /\ CopiesRead' /\ DispatchedOnce' /\ WithinBudget'
    <2>1. CASE Dispatch(c)
      BY <1>1, <1>2, <2>1, SendStep DEF Dispatch
    <2>2. CASE DispatchReplyLost(c)
      BY <1>1, <1>2, <2>2, SendStep DEF DispatchReplyLost
    <2>3. CASE DispatchFailed(c)
      BY <1>1, <1>2, <2>3, SendStep DEF DispatchFailed
    <2> QED BY <2>1, <2>2, <2>3
  <1>4. TypeOK'
    BY <1>2, <1>3 DEF Dispatch, DispatchReplyLost, DispatchFailed, TypeInv, TypeOK
  <1> QED BY <1>3, <1>4 DEF TypeInv

\* The refused dispatch's job is written and the request ends.
LEMMA UpdateRefusedTypeInv ==
    ASSUME TypeInv, NEW c \in calls, UpdateRefused(c)
    PROVE  TypeInv'
  <1>1. Failed(c.copy) \in Rows({0} \cup Tasks) /\ c.job \in Jobs
    BY CallKnown, MethodTypes DEF UpdateRefused, Read, Call
  <1>2. row' \in [Jobs -> RowType] /\ \A i \in Jobs : row[i] # NoRow => row'[i] # NoRow
    BY <1>1, WriteTypes DEF UpdateRefused
  <1>3. calls' = calls \ {c} /\ UNCHANGED <<results, journal, task, batch, old, faults>>
    BY DEF UpdateRefused
  <1>4. calls' \subseteq Call /\ CallsShaped' /\ CopiesRead' /\ DispatchedOnce'
    BY <1>2, <1>3, CallKnown, EndStep
  <1>5. TypeOK'
    BY <1>2, <1>3, <1>4 DEF TypeInv, TypeOK, RowType
  <1>6. WithinBudget'
    BY <1>3, SameMessages
  <1> QED BY <1>4, <1>5, <1>6 DEF TypeInv

\* A step is stored and its worker goes on.
LEMMA AppendStepTypeInv ==
    ASSUME TypeInv, NEW c \in calls, AppendStep(c)
    PROVE  TypeInv'
  <1>1. calls' = calls \ {c} /\ UNCHANGED <<row, results, batch, old, faults>>
    BY DEF AppendStep, Reply
  <1>2. /\ task' \in [Jobs -> [Tasks -> Message]] /\ WithinBudget'
        /\ \A i \in Jobs, l \in Tasks : task[i][l] = Unsent => task'[i][l] = Unsent
    BY <1>1, ReplyStep DEF AppendStep
  <1>3. calls' \subseteq Call /\ CallsShaped' /\ CopiesRead' /\ DispatchedOnce'
    BY <1>1, <1>2, CallKnown, EndStep
  <1>4. TypeOK'
    BY <1>1, <1>2, <1>3, CallTypes DEF AppendStep, TypeInv, TypeOK
  <1> QED BY <1>2, <1>3, <1>4 DEF TypeInv

\* A callback's row is written and its worker goes on.
LEMMA UpdateTypeInv ==
    ASSUME TypeInv, NEW c \in calls, Update(c)
    PROVE  TypeInv'
  <1>1. calls' = calls \ {c} /\ UNCHANGED <<results, journal, batch, old, faults>>
    BY DEF Update, Reply
  <1>2. Applied(c) \in Rows({0} \cup Tasks) /\ c.job \in Jobs
    BY CallKnown, CallTypes, AppliedType DEF Update, Read
  <1>3. row' \in [Jobs -> RowType] /\ \A i \in Jobs : row[i] # NoRow => row'[i] # NoRow
    BY <1>2, WriteTypes DEF Update
  <1>4. /\ task' \in [Jobs -> [Tasks -> Message]] /\ WithinBudget'
        /\ \A i \in Jobs, l \in Tasks : task[i][l] = Unsent => task'[i][l] = Unsent
    BY <1>1, ReplyStep DEF Update
  <1>5. calls' \subseteq Call /\ CallsShaped' /\ CopiesRead' /\ DispatchedOnce'
    BY <1>1, <1>3, <1>4, CallKnown, EndStep
  <1>6. TypeOK'
    BY <1>1, <1>3, <1>4, <1>5 DEF TypeInv, TypeOK, RowType
  <1> QED BY <1>4, <1>5, <1>6 DEF TypeInv

\* A request dropped, or cut off from its worker, leaves at most a report of
\* the failure behind.
LEMMA RaiseTypeInv ==
    ASSUME TypeInv, NEW c \in calls, Fault, NEW rest \in SUBSET {c}, Raise(c, rest),
           UNCHANGED <<row, results, journal, batch, old>>
    PROVE  TypeInv'
  <1> DEFINE r == Callback(c.job, c.by, c.run, "failure")
             D == IF Waiting(c) /\ c.op \in {"start", "question", "results"}
                  THEN {r} ELSE {}
             S == {c} \ rest
  <1>1. calls' = (calls \ S) \cup D /\ S \subseteq calls
    <2>1. calls' = (calls \ {c}) \cup rest \cup D
      BY DEF Raise
    <2> HIDE DEF D
    <2> QED BY <2>1
  <1>2. /\ task' \in [Jobs -> [Tasks -> Message]] /\ WithinBudget'
        /\ \A i \in Jobs, l \in Tasks : task[i][l] = Unsent => task'[i][l] = Unsent
    BY RaiseStep
  <1>3. \A d \in D : /\ d \in Call /\ CallShape(d) /\ ~ToDispatch(d)
                     /\ row[d.job] # NoRow /\ (Read(d) => d.copy # NoRow)
    <2> SUFFICES ASSUME Waiting(c), c.op \in {"start", "question", "results"}
                 PROVE  /\ r \in Call /\ CallShape(r) /\ ~ToDispatch(r)
                        /\ row[r.job] # NoRow /\ ~Read(r)
      OBVIOUS
    <2>1. c.run \in Runs
      BY CallKnown DEF CallShape, Callbacks
    <2>2. r \in Call
      BY <2>1, CallKnown DEF Callback, Call, Callbacks
    <2>3. CallShape(r)
      BY <2>1 DEF Callback, CallShape, Callbacks, Requests
    <2>4. ~ToDispatch(r) /\ ~Read(r) /\ r.job = c.job
      BY DEF Callback, ToDispatch, Read, Requests
    <2> QED BY <2>2, <2>3, <2>4, CallKnown
  <1>4. \A j \in Jobs : batch'[j] # NoRow => row[j] # NoRow
    BY CallKnown
  <1>5. calls' \subseteq Call /\ CallsShaped' /\ CopiesRead' /\ DispatchedOnce'
    <2> HIDE DEF S, D
    <2> QED BY <1>1, <1>2, <1>3, <1>4, CallsStep
  <1>6. TypeOK'
    BY <1>2, <1>5, FaultCounts DEF TypeInv, TypeOK
  <1> QED BY <1>2, <1>5, <1>6 DEF TypeInv

LEMMA AbortTypeInv ==
    ASSUME TypeInv, NEW c \in calls, Abort(c)
    PROVE  TypeInv'
  BY RaiseTypeInv DEF Abort

LEMMA TimeoutTypeInv ==
    ASSUME TypeInv, NEW c \in calls, Timeout(c)
    PROVE  TypeInv'
  BY RaiseTypeInv DEF Timeout

\* A worker's new callback joins the requests.
LEMMA CallbackStep ==
    ASSUME TypeInv, NEW d, calls' = calls \cup {d},
           d \in Call, CallShape(d), ~ToDispatch(d), row[d.job] # NoRow, ~Read(d),
           \A j \in Jobs, k \in Tasks :
               task[j][k] = Unsent => task'[j][k] = Unsent,
           row' = row, batch' = batch
    PROVE  calls' \subseteq Call /\ CallsShaped' /\ CopiesRead' /\ DispatchedOnce'
  <1>1. calls' \subseteq Call
    BY DEF TypeInv, TypeOK
  <1>2. CallsShaped'
    BY DEF TypeInv, CallsShaped, CallShape
  <1>3. CopiesRead'
    BY DEF TypeInv, CopiesRead, Read
  <1>4. DispatchedOnce'
    <2>1. \A e \in calls' : ToDispatch(e) => e \in calls
      OBVIOUS
    <2>2. \A e \in calls : e.job \in Jobs /\ e.by \in Tasks
      BY CallTypes
    <2>3. \A e \in calls' : ToDispatch(e) => task'[e.job][e.by] = Unsent
      BY <2>1, <2>2 DEF TypeInv, DispatchedOnce
    <2>4. \A e, f \in calls' :
            ToDispatch(e) /\ ToDispatch(f) /\ e.job = f.job /\ e.by = f.by => e = f
      BY <2>1 DEF TypeInv, DispatchedOnce
    <2>5. \A j \in Jobs, k \in Tasks : row[j] = NoRow => task'[j][k] = Unsent
      BY DEF TypeInv, DispatchedOnce
    <2> QED BY <2>3, <2>4, <2>5 DEF DispatchedOnce, ToDispatch
  <1> QED BY <1>1, <1>2, <1>3, <1>4

\* A worker moves its message on with a callback.
LEMMA WorkerStep ==
    ASSUME TypeInv, NEW j \in Jobs, NEW k \in Tasks, NEW t \in Message,
           NEW op \in Callbacks,
           task[j][k] # Unsent, Budget(t, faults), t.run \in Runs,
           task' = [task EXCEPT ![j][k] = t],
           calls' = calls \cup {Callback(j, k, t.run, op)},
           UNCHANGED <<row, results, journal, batch, old, faults>>
    PROVE  TypeInv'
  <1> DEFINE d == Callback(j, k, t.run, op)
  <1>1. /\ task' \in [Jobs -> [Tasks -> Message]] /\ WithinBudget'
        /\ \A i \in Jobs, l \in Tasks : task[i][l] = Unsent => task'[i][l] = Unsent
    BY MessageStep
  <1>2. d \in Call
    BY DEF Callback, Call, Callbacks
  <1>3. CallShape(d) /\ ~ToDispatch(d) /\ ~Read(d) /\ d.job = j
    BY DEF Callback, CallShape, ToDispatch, Read, Callbacks, Requests
  <1>4. row[d.job] # NoRow
    BY <1>3 DEF TypeInv, DispatchedOnce
  <1>5. calls' \subseteq Call /\ CallsShaped' /\ CopiesRead' /\ DispatchedOnce'
    <2>1. calls' = calls \cup {d} /\ row' = row /\ batch' = batch
      OBVIOUS
    <2> HIDE DEF d
    <2> QED BY <1>1, <1>2, <1>3, <1>4, <2>1, CallbackStep
  <1>6. TypeOK'
    BY <1>1, <1>5 DEF TypeInv, TypeOK
  <1> QED BY <1>1, <1>5, <1>6 DEF TypeInv

\* A step of the run under way.
LEMMA ProceedTypeInv ==
    ASSUME TypeInv, NEW j \in Jobs, NEW k \in Tasks, NEW pc \in Callbacks,
           task[j][k].pc \in {"started", "working"}, Proceed(j, k, pc)
    PROVE  TypeInv'
  <1> DEFINE t == [task[j][k] EXCEPT !.pc = pc]
  <1>1. /\ task[j][k] \in Message /\ Budget(task[j][k], faults) /\ faults \in Nat
        /\ task \in [Jobs -> [Tasks -> Message]]
    BY DEF TypeInv, TypeOK, WithinBudget
  <1>2. t \in Message /\ t.run = task[j][k].run /\ t.run \in Runs
    BY <1>1 DEF Message, Budget
  <1>3. Budget(t, faults)
    BY <1>1 DEF Message, Budget, Callbacks, Runs
  <1>4. task' = [task EXCEPT ![j][k] = t] /\ task[j][k] # Unsent
    BY <1>1 DEF Proceed, Unsent
  <1>5. calls' = calls \cup {Callback(j, k, t.run, pc)}
    BY <1>2 DEF Proceed
  <1>6. UNCHANGED <<row, results, journal, batch, old, faults>>
    BY DEF Proceed
  <1> HIDE DEF t
  <1> QED BY <1>2, <1>3, <1>4, <1>5, <1>6, WorkerStep

\* A message is taken off the queue.
LEMMA ExecuteTypeInv ==
    ASSUME TypeInv, NEW j \in Jobs, NEW k \in Tasks, NEW pc, Execute(j, k, pc)
    PROVE  TypeInv'
  <1> DEFINE t == [task[j][k] EXCEPT !.pc = pc, !.run = task[j][k].run + 1]
  <1>1. /\ task[j][k] \in Message /\ Budget(task[j][k], faults)
        /\ faults \in 0..MaxFaults
        /\ task \in [Jobs -> [Tasks -> Message]]
    BY DEF TypeInv, TypeOK, WithinBudget
  <1>2. task[j][k].pc = "queued" /\ pc \in {"start", "failure"} /\ pc \in Callbacks
    BY DEF Execute, Callbacks
  <1>3. /\ task[j][k].run \in Nat /\ task[j][k].tries \in 0..MaxRetries
        /\ task[j][k].run <= task[j][k].tries + faults
    BY <1>1, <1>2, ConstantsAssumption DEF Message, Runs, Budget
  <1>4. task[j][k].run + 1 \in Runs
    BY <1>1, <1>3, ConstantsAssumption DEF Runs
  <1>5. t \in Message /\ t.run = task[j][k].run + 1 /\ t.pc = pc
        /\ t.tries = task[j][k].tries
    BY <1>1, <1>2, <1>4 DEF Message, Callbacks
  <1>6. Budget(t, faults)
    BY <1>1, <1>2, <1>3, <1>5 DEF Budget
  <1>7. task' = [task EXCEPT ![j][k] = t] /\ task[j][k] # Unsent
    BY <1>1, <1>2 DEF Execute, Unsent
  <1>8. calls' = calls \cup {Callback(j, k, t.run, pc)}
    BY <1>5 DEF Execute
  <1>9. UNCHANGED <<row, results, journal, batch, old, faults>> /\ t.run \in Runs
    BY <1>4, <1>5 DEF Execute
  <1> HIDE DEF t
  <1> QED BY <1>2, <1>5, <1>6, <1>7, <1>8, <1>9, WorkerStep

\* Each step of a worker.
LEMMA WorkerTypeInv ==
    ASSUME TypeInv, NEW j \in Jobs, NEW k \in Tasks, Worker(j, k)
    PROVE  TypeInv'
  <1>1. CASE \E pc \in {"start", "failure"} : Execute(j, k, pc)
    BY <1>1, ExecuteTypeInv
  <1>2. CASE ReportStep(j, k)
    BY <1>2, ProceedTypeInv DEF ReportStep, Callbacks
  <1>3. CASE Ask(j, k)
    BY <1>3, ProceedTypeInv DEF Ask, Callbacks
  <1>4. CASE Deliver(j, k)
    BY <1>4, ProceedTypeInv DEF Deliver, Callbacks
  <1>5. CASE ScanFailed(j, k)
    BY <1>5, ProceedTypeInv DEF ScanFailed, Callbacks
  <1> QED BY <1>1, <1>2, <1>3, <1>4, <1>5 DEF Worker

\* A message goes back to its queue, or is lost from it.
LEMMA BrokerTypeInv ==
    ASSUME TypeInv, NEW j \in Jobs, NEW k \in Tasks,
           Crash(j, k) \/ LoseMessage(j, k)
    PROVE  TypeInv'
  <1> PICK pc \in {"queued", "done"} : task' = [task EXCEPT ![j][k].pc = pc]
    BY DEF Crash, LoseMessage
  <1> DEFINE t == [task[j][k] EXCEPT !.pc = pc]
  <1>1. /\ task[j][k] \in Message /\ Budget(task[j][k], faults)
        /\ task \in [Jobs -> [Tasks -> Message]]
    BY DEF TypeInv, TypeOK, WithinBudget
  <1>2. faults \in Nat /\ faults' = faults + 1 /\ faults' \in 0..MaxFaults
    BY FaultCounts DEF Crash, LoseMessage
  <1>3. t \in Message /\ t.run = task[j][k].run /\ t.tries = task[j][k].tries /\ t.pc = pc
    BY <1>1 DEF Message
  <1>4. Budget(t, faults')
    BY <1>1, <1>2, <1>3 DEF Budget, Message, Runs, Callbacks
  <1>5. task[j][k].pc # "unsent" /\ task[j][k] # Unsent
    BY DEF Crash, LoseMessage, Unsent, Callbacks
  <1>6. task' = [task EXCEPT ![j][k] = t]
    BY <1>1
  <1>7. UNCHANGED <<row, results, journal, calls, batch, old>>
    BY DEF Crash, LoseMessage
  <1>8. /\ task' \in [Jobs -> [Tasks -> Message]] /\ WithinBudget'
        /\ \A i \in Jobs, l \in Tasks : task[i][l] = Unsent => task'[i][l] = Unsent
    <2> HIDE DEF t
    <2> QED BY <1>2, <1>3, <1>4, <1>5, <1>6, MessageStep
  <1>9. calls' \subseteq Call /\ CallsShaped' /\ CopiesRead' /\ DispatchedOnce'
    BY <1>7, <1>8, SameCallsStep DEF TypeInv, CopiesRead
  <1>10. TypeOK'
    BY <1>2, <1>7, <1>8 DEF TypeInv, TypeOK
  <1> QED BY <1>8, <1>9, <1>10 DEF TypeInv

\* The reaper and the clock leave the requests alone.
LEMMA ReaperTypeInv ==
    ASSUME TypeInv,
           \/ ListStale \/ ReaperAbort \/ \E j \in Jobs : Age(j) \/ Reap(j)
    PROVE  TypeInv'
  <1>1. UNCHANGED <<results, journal, task, calls>>
    BY DEF ListStale, ReaperAbort, Age, Reap
  <1>2. /\ faults' = faults \/ (faults \in Nat /\ faults' = faults + 1)
        /\ faults' \in 0..MaxFaults
    BY FaultCounts DEF ListStale, ReaperAbort, Age, Reap, TypeInv, TypeOK
  <1>3. old' \subseteq Jobs
    BY DEF ListStale, ReaperAbort, Age, Reap, TypeInv, TypeOK
  <1> DEFINE RowsGood == /\ row' \in [Jobs -> RowType]
                         /\ \A i \in Jobs : row[i] # NoRow => row'[i] # NoRow
             BatchGood == /\ batch' \in [Jobs -> RowType]
                          /\ \A i \in Jobs : batch'[i] # NoRow => row[i] # NoRow
  <1>4. RowsGood /\ BatchGood
    <2>1. CASE ListStale
      BY <2>1 DEF ListStale, TypeInv, TypeOK, RowType
    <2>2. CASE ReaperAbort
      BY <2>2 DEF ReaperAbort, TypeInv, TypeOK, RowType
    <2>3. ASSUME NEW j \in Jobs, Age(j)
          PROVE  RowsGood /\ BatchGood
      BY <2>3 DEF Age, TypeInv, TypeOK, RowType, CopiesRead
    <2>4. ASSUME NEW j \in Jobs, Reap(j)
          PROVE  RowsGood /\ BatchGood
      <3>1. Failed(batch[j]) \in Rows({0} \cup Tasks)
        <4>1. batch[j] \in Rows({0} \cup Tasks)
          BY <2>4 DEF Reap, TypeInv, TypeOK
        <4>2. 1 \in Tasks
          BY ConstantsAssumption DEF Tasks
        <4> QED BY <4>1, <4>2, MethodTypes
      <3>2. RowsGood
        BY <2>4, <3>1, WriteTypes DEF Reap
      <3>3. BatchGood
        BY <2>4 DEF Reap, TypeInv, TypeOK, RowType, CopiesRead
      <3> QED BY <3>2, <3>3
    <2> QED BY <2>1, <2>2, <2>3, <2>4
  <1>5. WithinBudget'
    BY <1>1, <1>2, SameMessages
  <1>6. calls' \subseteq Call /\ CallsShaped' /\ CopiesRead' /\ DispatchedOnce'
    BY <1>1, <1>4, SameCallsStep
  <1>7. TypeOK'
    BY <1>1, <1>2, <1>3, <1>4 DEF TypeInv, TypeOK, RowType
  <1> QED BY <1>5, <1>6, <1>7 DEF TypeInv

LEMMA StutterTypeInv ==
    ASSUME TypeInv, UNCHANGED vars
    PROVE  TypeInv'
  BY DEF vars, TypeInv, TypeOK, CallsShaped, CallShape, CopiesRead, Read, DispatchedOnce,
     ToDispatch, WithinBudget, Budget

\* TypeInv is inductive.
LEMMA NextTypeInv == TypeInv /\ [Next]_vars => TypeInv'
  <1> SUFFICES ASSUME TypeInv, [Next]_vars
               PROVE  TypeInv'
    OBVIOUS
  <1>1. ASSUME NEW j \in Jobs, Launch(j)
        PROVE  TypeInv'
    BY <1>1, LaunchTypeInv
  <1>2. ASSUME NEW j \in Jobs, Age(j) \/ Reap(j)
        PROVE  TypeInv'
    BY <1>2, ReaperTypeInv
  <1>3. ASSUME NEW j \in Jobs, NEW k \in Tasks,
               Answer(j, k) \/ Worker(j, k) \/ Crash(j, k) \/ LoseMessage(j, k)
        PROVE  TypeInv'
    BY <1>3, AnswerTypeInv, WorkerTypeInv, BrokerTypeInv
  <1>4. ASSUME NEW c \in calls, Backend(c)
        PROVE  TypeInv'
    BY <1>4, ClearStepsTypeInv, UpdateAnsweredTypeInv, DispatchTypeInv,
       UpdateRefusedTypeInv, FindTypeInv, PurgeTypeInv, CommitTypeInv,
       AppendStepTypeInv, UpdateTypeInv DEF Backend
  <1>5. ASSUME NEW c \in calls, Abort(c) \/ Timeout(c)
        PROVE  TypeInv'
    BY <1>5, AbortTypeInv, TimeoutTypeInv
  <1>6. CASE ListStale \/ ReaperAbort
    BY <1>6, ReaperTypeInv
  <1>7. CASE UNCHANGED vars
    BY <1>7, StutterTypeInv
  <1> QED BY <1>1, <1>2, <1>3, <1>4, <1>5, <1>6, <1>7 DEF Next

LEMMA TypeInvAlways == Spec => []TypeInv
  BY InitTypeInv, NextTypeInv, PTL DEF Spec

\* Every variable keeps its type.
THEOREM TypeCorrect == Spec => []TypeOK
  <1>1. TypeInv => TypeOK
    BY DEF TypeInv
  <1> QED BY <1>1, TypeInvAlways, PTL

\* A message is executed once, once more per retry and once more per fault.
THEOREM ExecutionsAreBounded == Spec => []ExecutionsBounded
  <1>1. TypeInv => ExecutionsBounded
    <2> SUFFICES ASSUME TypeInv, NEW j \in Jobs, NEW k \in Tasks
                 PROVE  task[j][k].run <= task[j][k].tries + 1 + faults
      BY DEF ExecutionsBounded
    <2>1. task[j][k] \in Message /\ Budget(task[j][k], faults) /\ faults \in Nat
      BY DEF TypeInv, TypeOK, WithinBudget
    <2> QED BY <2>1 DEF Budget, Message, Runs
  <1> QED BY <1>1, TypeInvAlways, PTL
=============================================================================

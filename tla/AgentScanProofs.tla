-------------------------- MODULE AgentScanProofs --------------------------
(***************************************************************************)
(* What the agent says of allowances is true and what it does about them   *)
(* is justified, for every list of chains, every set of approvals, all     *)
(* settings and bounds, and whatever faults happen.                        *)
(***************************************************************************)
EXTENDS ScanInvariant, FiniteSetTheorems, TLAPS

-----------------------------------------------------------------------------
(***************************************************************************)
(* Runs and their steps.                                                   *)
(***************************************************************************)
LEMMA NewRunType == NewRun \in Run
  BY ScanAssumption DEF NewRun, Run, Outcomes, Step

LEMMA NextStepType ==
    ASSUME NEW r \in Run
    PROVE  /\ \A c \in Chains, kind \in {"scan", "degraded"} : NextStep(r, kind, c) \in Step
           /\ \A a \in Approvals : NextStep(r, "revoke", a) \in Step
           /\ \A kind \in {"finish", "report"} : NextStep(r, kind, None) \in Step
  <1>1. Len(r.steps) + 1 \in Nat \ {0}
    BY DEF Run
  <1> QED BY <1>1 DEF NextStep, Step

\* A journal only grows by steps, and reporting one costs at most a fault.
LEMMA ReportType ==
    ASSUME NEW step \in Step, journal \subseteq Step, faults \in 0..MaxFaults,
           Report(step)
    PROVE  /\ journal' \subseteq Step
           /\ faults' \in 0..MaxFaults
           /\ faults' >= faults
  BY SettingsAssumption DEF Report, Appended, Fault

LEMMA SaveType ==
    ASSUME NEW r \in Run, saved \in Checkpoint, Save(r)
    PROVE  saved' \in Checkpoint
  BY DEF Save, Checkpoint, Run

\* Appending a step adds what it is about to its kind's, and to no other.
LEMMA ChainsOfAppend ==
    ASSUME NEW r, NEW q, NEW step \in Step, NEW kind,
           r.steps \in Seq(Step), q.steps = Append(r.steps, step)
    PROVE  ChainsOf(q, kind) =
             IF step.kind = kind THEN ChainsOf(r, kind) \cup {step.detail}
                                 ELSE ChainsOf(r, kind)
  <1> DEFINE s == r.steps
             n == Len(s)
  <1>1. /\ n \in Nat /\ DOMAIN s = 1..n
        /\ DOMAIN q.steps = 1..(n + 1)
        /\ q.steps[n + 1] = step
        /\ \A i \in 1..n : q.steps[i] = s[i]
    OBVIOUS
  <1>2. \A d : d \in ChainsOf(r, kind) <=>
                 \E i \in 1..n : s[i].kind = kind /\ s[i].detail = d
    BY <1>1 DEF ChainsOf, StepsOf
  <1>3. \A d : d \in ChainsOf(q, kind) <=>
                 \E i \in 1..(n + 1) : q.steps[i].kind = kind /\ q.steps[i].detail = d
    BY <1>1 DEF ChainsOf, StepsOf
  <1>4. \A d : d \in ChainsOf(q, kind) <=>
                 d \in ChainsOf(r, kind) \/ (step.kind = kind /\ step.detail = d)
    <2> HIDE DEF s, n
    <2>1. 1..(n + 1) = 1..n \cup {n + 1}
      BY <1>1
    <2> QED BY <1>1, <1>2, <1>3, <2>1
  <1> QED BY <1>4

\* The chains of scan and degraded steps are chains.
LEMMA ChainsOfType ==
    ASSUME NEW r \in Run, NEW kind \in {"scan", "degraded"}
    PROVE  ChainsOf(r, kind) \subseteq Chains
  <1> SUFFICES ASSUME NEW i \in DOMAIN r.steps, r.steps[i].kind = kind
               PROVE  r.steps[i].detail \in Chains
    BY DEF ChainsOf, StepsOf
  <1>1. r.steps[i] \in Step
    BY DEF Run
  <1> QED BY <1>1 DEF Step

LEMMA NoStepsNoChains ==
    ASSUME NEW r, r.steps = <<>>, NEW kind
    PROVE  ChainsOf(r, kind) = {}
  BY DEF ChainsOf, StepsOf

-----------------------------------------------------------------------------
(***************************************************************************)
(* Types, and the runs that retries, the answer and faults pay for.        *)
(***************************************************************************)
TypeInv == TypeOK /\ AttemptsPaid

LEMMA NothingYetType == NoResults \in Results /\ NoCheckpoint \in Checkpoint
  BY DEF NoResults, Results, NoCheckpoint, Checkpoint, NewRun, Outcomes

LEMMA InitTypeInv == Init => TypeInv
  <1> SUFFICES ASSUME Init
               PROVE  TypeInv
    OBVIOUS
  <1>1. TypeOK
    <2>1. setting \in Setting /\ answered \in BOOLEAN
      BY SettingsAssumption DEF Init
    <2>2. run \in Run /\ results \in Results /\ saved \in Checkpoint
      BY NewRunType, NothingYetType DEF Init
    <2>3. tries \in 0..MaxRetries /\ faults \in 0..MaxFaults
      BY SettingsAssumption DEF Init
    <2>4. live \subseteq Approvals /\ executions \subseteq Execution /\ journal \subseteq Step
      BY DEF Init
    <2> QED BY <2>1, <2>2, <2>3, <2>4 DEF Init, TypeOK
  <1>2. AttemptsPaid
    BY SettingsAssumption DEF Init, AttemptsPaid, Running
  <1> QED BY <1>1, <1>2 DEF TypeInv

LEMMA AttemptsAreNumbers == TypeInv => attempt \in Nat
  BY DEF TypeInv, TypeOK, Attempts

\* A run that raises ends, or goes on as one more retry.
LEMMA RaiseType ==
    ASSUME TypeInv, Raise
    PROVE  /\ run' = NewRun /\ run' \in Run
           /\ tries' \in 0..MaxRetries
           /\ pc' \in {"queued", "failed"}
           /\ pc' = "queued" => tries' = tries + 1
           /\ pc' # "queued" => tries' = tries
  BY NewRunType, SettingsAssumption DEF TypeInv, TypeOK, Raise

\* A step of a run under way that leaves the retries alone.
LEMMA RunStep ==
    ASSUME TypeInv, pc \in Running, run' \in Run,
           pc' \in Running \cup {"paused", "done"},
           pc' = "paused" => ~answered,
           faults' \in 0..MaxFaults, faults' >= faults,
           journal' \subseteq Step, results' \in Results, saved' \in Checkpoint,
           live' \subseteq Approvals, executions' \subseteq Execution,
           UNCHANGED <<setting, answered, tries, attempt>>
    PROVE  TypeInv'
  <1>1. TypeOK'
    BY DEF TypeInv, TypeOK, Running
  <1>2. AttemptsPaid'
    BY AttemptsAreNumbers, SettingsAssumption DEF TypeInv, TypeOK, AttemptsPaid, Running
  <1> QED BY <1>1, <1>2 DEF TypeInv

\* A step that ends the run, for its task to be tried again or to fail.
LEMMA RaiseStep ==
    ASSUME TypeInv, pc \in Running, Raise,
           faults' \in 0..MaxFaults, faults' >= faults, results' \in Results,
           UNCHANGED <<setting, answered, attempt, journal, saved, live, executions>>
    PROVE  TypeInv'
  <1>1. TypeOK'
    BY RaiseType DEF TypeInv, TypeOK
  <1>2. AttemptsPaid'
    BY RaiseType, AttemptsAreNumbers, SettingsAssumption
       DEF TypeInv, TypeOK, AttemptsPaid, Running
  <1> QED BY <1>1, <1>2 DEF TypeInv

\* A run begins with nothing or with what its checkpoint kept.
LEMMA StartRun ==
    ASSUME TypeInv, Start
    PROVE  /\ run' \in Run
           /\ run'.outcome = NewRun.outcome /\ run'.wallet = "unread" /\ run'.todo = {}
           /\ \E from \in {saved, NoCheckpoint} :
                 run'.steps = from.steps /\ run'.found = from.found
           /\ Save(run')
           /\ pc' \in {"decide", "assess"}
           /\ attempt' = attempt + 1
  <1>1. PICK from \in {saved, NoCheckpoint} :
           run' = [NewRun EXCEPT !.steps = from.steps, !.found = from.found]
    BY DEF Start
  <1>2. from \in Checkpoint
    BY NothingYetType DEF TypeInv, TypeOK
  <1>3. /\ run' \in Run
        /\ run'.outcome = NewRun.outcome /\ run'.wallet = "unread" /\ run'.todo = {}
        /\ run'.steps = from.steps /\ run'.found = from.found
    BY <1>1, <1>2, NewRunType DEF Run, Checkpoint, NewRun
  <1>4. Save(run') /\ pc' \in {"decide", "assess"} /\ attempt' = attempt + 1
    BY DEF Start
  <1> QED BY <1>3, <1>4

LEMMA StartTypeInv == TypeInv /\ (Start \/ StartFails) => TypeInv'
  <1> SUFFICES ASSUME TypeInv, Start \/ StartFails
               PROVE  TypeInv'
    OBVIOUS
  <1>1. /\ attempt \in Nat /\ tries \in Nat /\ faults \in Nat /\ MaxRetries \in Nat
        /\ pc = "queued" /\ attempt' = attempt + 1
        /\ attempt + 1 <= (IF answered THEN MaxRetries + 1 ELSE 0) + tries + 1 + faults
        /\ tries <= MaxRetries /\ faults <= MaxFaults
    BY AttemptsAreNumbers, SettingsAssumption
       DEF TypeInv, TypeOK, AttemptsPaid, Start, StartFails
  <1>2. attempt' \in Attempts
    BY <1>1, SettingsAssumption DEF TypeInv, TypeOK, Attempts
  <1>3. CASE Start
    <2>1. saved' \in Checkpoint
      BY <1>3, StartRun, SaveType DEF TypeInv, TypeOK
    <2>2. TypeOK'
      BY <1>2, <1>3, <2>1, StartRun DEF TypeInv, TypeOK, Start
    <2>3. AttemptsPaid'
      BY <1>1, <1>3, StartRun DEF AttemptsPaid, Start
    <2> QED BY <2>2, <2>3 DEF TypeInv
  <1>4. CASE StartFails
    <2>1. Raise /\ faults' = faults + 1 /\ faults' \in 0..MaxFaults
      BY <1>1, <1>4, SettingsAssumption DEF StartFails, Fault, TypeInv, TypeOK
    <2>2. TypeOK'
      BY <1>2, <1>4, <2>1, RaiseType DEF TypeInv, TypeOK, StartFails
    <2>3. AttemptsPaid'
      BY <1>1, <1>4, <2>1, RaiseType DEF AttemptsPaid, StartFails, Running
    <2> QED BY <2>2, <2>3 DEF TypeInv
  <1> QED BY <1>3, <1>4

\* The fields of a run.
LEMMA RunFields ==
    ASSUME TypeInv
    PROVE  /\ run.steps \in Seq(Step) /\ run.found \subseteq Approvals
           /\ run.outcome \in [Approvals -> Outcomes] /\ run.over \in BOOLEAN
           /\ run.left \in 0..GraphLimit
           /\ run.wallet \in {"unread", "unknown", "other", "scanned"}
           /\ run.todo \subseteq Approvals /\ run.at \in Approvals \cup {None}
  BY DEF TypeInv, TypeOK, Run

\* What a step of the scan does to the run.
Scanning(step, found) ==
    /\ run' \in Run
    /\ run'.steps = Append(run.steps, step)
    /\ run'.found = run.found \cup found
    /\ run'.outcome = run.outcome
    /\ run'.wallet = run.wallet
    /\ run'.todo = run.todo

LEMMA ScanRunStep ==
    ASSUME TypeInv, NEW c \in Chains, NEW kind \in {"scan", "degraded"},
           NEW found \in SUBSET Approvals, NEW over \in BOOLEAN, ~Looped,
           run' = [run EXCEPT !.steps = Append(run.steps, NextStep(run, kind, c)),
                              !.found = run.found \cup found,
                              !.over = over,
                              !.left = IF Graph THEN run.left - 1 ELSE run.left]
    PROVE  Scanning(NextStep(run, kind, c), found)
  <1> DEFINE steps == Append(run.steps, NextStep(run, kind, c))
             left == IF Graph THEN run.left - 1 ELSE run.left
  <1>1. steps \in Seq(Step)
    BY NextStepType, RunFields DEF TypeInv, TypeOK
  <1>2. left \in 0..GraphLimit
    BY RunFields, ScanAssumption DEF Looped
  <1>3. run.found \cup found \subseteq Approvals
    BY RunFields
  <1> HIDE DEF steps, left
  <1>4. run' = [run EXCEPT !.steps = steps, !.found = run.found \cup found,
                           !.over = over, !.left = left]
    BY DEF steps, left
  <1>5. run' \in Run
    BY <1>1, <1>2, <1>3, <1>4 DEF TypeInv, TypeOK, Run
  <1>6. /\ run'.steps = steps /\ run'.found = run.found \cup found
        /\ run'.outcome = run.outcome /\ run'.wallet = run.wallet
        /\ run'.todo = run.todo
    BY <1>4 DEF TypeInv, TypeOK, Run
  <1> QED BY <1>5, <1>6 DEF Scanning, steps

\* A scan finds what is reported of its chain, and one that fails nothing.
LEMMA ScanStep ==
    ASSUME TypeInv, NEW c \in Chains, Scan(c)
    PROVE  \E found \in Reports(c) : Scanning(NextStep(run, "scan", c), found)
  <1>1. PICK found \in Reports(c), over \in Costs(run.over) :
           run' = [run EXCEPT !.steps = Append(run.steps, NextStep(run, "scan", c)),
                              !.found = run.found \cup found,
                              !.over = over,
                              !.left = IF Graph THEN run.left - 1 ELSE run.left]
    BY DEF Scan, TypeInv, TypeOK, Run
  <1>2. found \in SUBSET Approvals
    BY DEF Reports
  <1>3. over \in BOOLEAN
    BY RunFields DEF Costs
  <1>4. ~Looped
    BY DEF Scan, MayScan, Deciding
  <1>5. Scanning(NextStep(run, "scan", c), found)
    BY <1>1, <1>2, <1>3, <1>4, ScanRunStep
  <1> QED BY <1>5

LEMMA ScanFailsStep ==
    ASSUME TypeInv, NEW c \in Chains, ScanFails(c)
    PROVE  Scanning(NextStep(run, "degraded", c), {})
  <1>1. PICK over \in Costs(run.over) :
           run' = [run EXCEPT !.steps = Append(run.steps, NextStep(run, "degraded", c)),
                              !.over = over,
                              !.left = IF Graph THEN run.left - 1 ELSE run.left]
    BY DEF ScanFails, TypeInv, TypeOK, Run
  <1>2. run' = [run EXCEPT !.steps = Append(run.steps, NextStep(run, "degraded", c)),
                           !.found = run.found \cup {},
                           !.over = over,
                           !.left = IF Graph THEN run.left - 1 ELSE run.left]
    BY <1>1 DEF TypeInv, TypeOK, Run
  <1>3. over \in BOOLEAN
    BY RunFields DEF Costs
  <1>4. ~Looped
    BY DEF ScanFails, MayScan, Deciding
  <1> QED BY <1>2, <1>3, <1>4, ScanRunStep

LEMMA ScanTypeInv ==
    ASSUME TypeInv, NEW c \in Chains, Scan(c) \/ ScanFails(c)
    PROVE  TypeInv'
  <1>1. PICK kind \in {"scan", "degraded"} :
          /\ run' \in Run
          /\ Save(run') /\ Report(NextStep(run, kind, c))
    BY ScanStep, ScanFailsStep DEF Scanning, Scan, ScanFails
  <1>2. NextStep(run, kind, c) \in Step
    BY NextStepType DEF TypeInv, TypeOK
  <1>3. saved' \in Checkpoint
    BY <1>1, SaveType DEF TypeInv, TypeOK
  <1>4. journal' \subseteq Step /\ faults' \in 0..MaxFaults /\ faults' >= faults
    BY <1>1, <1>2, ReportType DEF TypeInv, TypeOK
  <1>5. pc = "decide" /\ pc' = pc
    BY DEF Scan, ScanFails, MayScan, Deciding
  <1> QED BY <1>1, <1>3, <1>4, <1>5, RunStep
             DEF Scan, ScanFails, TypeInv, TypeOK, Running

\* What a step of the tail, or the end of the scan, appends to the run.
Appending(step) ==
    /\ run' \in Run
    /\ run'.steps = Append(run.steps, step)
    /\ run'.found = run.found
    /\ run'.wallet = run.wallet
    /\ run'.over = run.over
    /\ run'.todo \subseteq run.todo

LEMMA FinishStep ==
    ASSUME TypeInv, Finish
    PROVE  Appending(NextStep(run, "finish", None)) /\ run'.outcome = run.outcome
  <1> DEFINE steps == Append(run.steps, NextStep(run, "finish", None))
  <1>1. steps \in Seq(Step)
    BY NextStepType, RunFields DEF TypeInv, TypeOK
  <1>2. run' = [run EXCEPT !.steps = steps]
    BY DEF Finish, TypeInv, TypeOK, Run
  <1> HIDE DEF steps
  <1>3. /\ run' \in Run /\ run'.steps = steps /\ run'.found = run.found
        /\ run'.wallet = run.wallet /\ run'.todo = run.todo
        /\ run'.outcome = run.outcome /\ run'.over = run.over
    BY <1>1, <1>2 DEF TypeInv, TypeOK, Run
  <1> QED BY <1>3 DEF Appending, steps

LEMMA ReportStep ==
    ASSUME TypeInv, ReportDelta
    PROVE  Appending(NextStep(run, "report", None)) /\ run'.outcome = run.outcome
  <1> DEFINE steps == Append(run.steps, NextStep(run, "report", None))
  <1>1. steps \in Seq(Step)
    BY NextStepType, RunFields DEF TypeInv, TypeOK
  <1>2. run' = [run EXCEPT !.steps = steps]
    BY DEF ReportDelta, TypeInv, TypeOK, Run
  <1> HIDE DEF steps
  <1>3. /\ run' \in Run /\ run'.steps = steps /\ run'.found = run.found
        /\ run'.wallet = run.wallet /\ run'.todo = run.todo
        /\ run'.outcome = run.outcome /\ run'.over = run.over
    BY <1>1, <1>2 DEF TypeInv, TypeOK, Run
  <1> QED BY <1>3 DEF Appending, steps

LEMMA OutcomeStep ==
    ASSUME TypeInv, NEW a \in Approvals, NEW o \in Outcomes, Outcome(a, o)
    PROVE  /\ Appending(NextStep(run, "revoke", a))
           /\ run'.outcome = [run.outcome EXCEPT ![a] = o]
  <1> DEFINE steps == Append(run.steps, NextStep(run, "revoke", a))
             outcome == [run.outcome EXCEPT ![a] = o]
  <1>1. steps \in Seq(Step) /\ outcome \in [Approvals -> Outcomes]
    BY NextStepType, RunFields DEF TypeInv, TypeOK
  <1>2. run' = [run EXCEPT !.outcome = [run.outcome EXCEPT ![a] = o],
                           !.todo = run.todo \ {a}, !.at = None,
                           !.steps = Append(run.steps, NextStep(run, "revoke", a))]
    BY DEF Outcome, TypeInv, TypeOK, Run
  <1> HIDE DEF steps, outcome
  <1>3. run' = [run EXCEPT !.outcome = outcome, !.todo = run.todo \ {a}, !.at = None,
                           !.steps = steps]
    BY <1>2 DEF steps, outcome
  <1>4. /\ run' \in Run /\ run'.steps = steps /\ run'.found = run.found
        /\ run'.wallet = run.wallet /\ run'.todo = run.todo \ {a}
        /\ run'.outcome = outcome /\ run'.over = run.over
    BY <1>1, <1>3 DEF TypeInv, TypeOK, Run
  <1> QED BY <1>4 DEF Appending, steps, outcome

LEMMA FinishTypeInv == TypeInv /\ Finish => TypeInv'
  <1> SUFFICES ASSUME TypeInv, Finish
               PROVE  TypeInv'
    OBVIOUS
  <1>1. NextStep(run, "finish", None) \in Step /\ run' \in Run
    BY NextStepType, FinishStep DEF TypeInv, TypeOK, Appending
  <1>2. saved' \in Checkpoint
    BY <1>1, SaveType DEF Finish, TypeInv, TypeOK
  <1>3. journal' \subseteq Step /\ faults' \in 0..MaxFaults /\ faults' >= faults
    BY <1>1, ReportType DEF Finish, TypeInv, TypeOK
  <1> QED BY <1>1, <1>2, <1>3, RunStep
             DEF Finish, Deciding, TypeInv, TypeOK, Running

LEMMA ReportDeltaTypeInv == TypeInv /\ ReportDelta => TypeInv'
  <1> SUFFICES ASSUME TypeInv, ReportDelta
               PROVE  TypeInv'
    OBVIOUS
  <1>1. NextStep(run, "report", None) \in Step /\ run' \in Run
    BY NextStepType, ReportStep DEF TypeInv, TypeOK, Appending
  <1>2. journal' \subseteq Step /\ faults' \in 0..MaxFaults /\ faults' >= faults
    BY <1>1, ReportType DEF ReportDelta, TypeInv, TypeOK
  <1> QED BY <1>1, <1>2, RunStep DEF ReportDelta, TypeInv, TypeOK, Running

\* An attempt that ends, whatever it had executed.
LEMMA OutcomeTypeInv ==
    ASSUME TypeInv, pc \in {"revoke", "poll"}, NEW a \in Approvals, NEW o \in Outcomes,
           Outcome(a, o), executions' \subseteq Execution, live' = live
    PROVE  TypeInv'
  <1>1. NextStep(run, "revoke", a) \in Step /\ run' \in Run
    BY NextStepType, OutcomeStep DEF TypeInv, TypeOK, Appending
  <1>2. journal' \subseteq Step /\ faults' \in 0..MaxFaults /\ faults' >= faults
    BY <1>1, ReportType DEF Outcome, TypeInv, TypeOK
  <1> QED BY <1>1, <1>2, RunStep DEF Outcome, TypeInv, TypeOK, Running

\* What is accepted while a run is under way is its execution.
LEMMA AcceptedType ==
    ASSUME TypeInv, pc \in Running, NEW a \in Approvals
    PROVE  Accepted(a) \subseteq Execution
  <1>1. attempt \in Attempts
    BY DEF TypeInv, TypeOK, AttemptsPaid
  <1> QED BY <1>1 DEF Accepted, Execution, TypeInv, TypeOK

Revoking(a) == Refuse(a) \/ Simulate(a) \/ PostFails(a) \/ PostReplyLost(a) \/ Post(a)

LEMMA RevokingTypeInv ==
    ASSUME TypeInv, NEW a \in Approvals, Revoking(a)
    PROVE  TypeInv'
  <1>1. pc = "revoke" /\ Accepted(a) \subseteq Execution
    BY AcceptedType
       DEF Revoking, Refuse, Simulate, PostFails, PostReplyLost, Post, MayExecute, Running
  <1>2. CASE Refuse(a)
    BY <1>1, <1>2, OutcomeTypeInv DEF Refuse, Outcomes, TypeInv, TypeOK
  <1>3. CASE Simulate(a)
    BY <1>1, <1>3, OutcomeTypeInv DEF Simulate, Outcomes, TypeInv, TypeOK
  <1>4. CASE PostFails(a)
    BY <1>1, <1>4, OutcomeTypeInv DEF PostFails, Outcomes, TypeInv, TypeOK
  <1>5. CASE PostReplyLost(a)
    BY <1>1, <1>5, OutcomeTypeInv DEF PostReplyLost, Outcomes
  <1>6. CASE Post(a)
    <2>1. run' \in Run
      BY <1>6 DEF Post, TypeInv, TypeOK, Run
    <2> QED BY <1>1, <1>6, <2>1, RunStep, SettingsAssumption
               DEF Post, TypeInv, TypeOK, Running
  <1> QED BY <1>2, <1>3, <1>4, <1>5, <1>6 DEF Revoking

\* What is polled is an approval; which the types alone do not say.
PollsApproval == pc = "poll" => run.at \in Approvals /\ run.wallet = "scanned"

LEMMA PollTypeInv ==
    ASSUME TypeInv, PollsApproval, PollEnds \/ PollGivesUp
    PROVE  TypeInv'
  <1>1. PICK o \in Outcomes : Outcome(run.at, o)
    BY DEF PollEnds, PollGivesUp, Outcomes
  <1>2. pc = "poll" /\ run.at \in Approvals
    BY DEF PollEnds, PollGivesUp, PollsApproval
  <1> QED BY <1>1, <1>2, OutcomeTypeInv DEF PollEnds, PollGivesUp, TypeInv, TypeOK

LEMMA StoredType ==
    ASSUME TypeInv, pc \in Running
    PROVE  Stored \in Results
  <1>1. attempt \in Attempts
    BY DEF TypeInv, TypeOK, AttemptsPaid
  <1>2. Scanned(run) \subseteq Chains /\ Degraded(run) \subseteq Chains
    BY ChainsOfType DEF Scanned, Degraded, TypeInv, TypeOK
  <1> QED BY <1>1, <1>2, RunFields DEF Stored, Results

LEMMA TailTypeInv ==
    ASSUME TypeInv,
           Errs \/ RefuseToDeliver \/ Assess \/ ReadWallet \/ Ask \/ Deliver
             \/ DeliverReplyLost \/ DeliverFails
    PROVE  TypeInv'
  <1>1. faults \in 0..MaxFaults /\ (Fault => faults' \in 0..MaxFaults /\ faults' >= faults)
    BY SettingsAssumption DEF TypeInv, TypeOK, Fault
  <1>2. ASSUME Delivering
        PROVE  pc \in Running /\ Stored \in Results
    BY <1>2, StoredType DEF Delivering, Running
  <1>3. CASE Errs \/ RefuseToDeliver
    BY <1>1, <1>3, RaiseStep
       DEF Errs, RefuseToDeliver, MayScan, Deciding, Assessing, Running, TypeInv, TypeOK
  <1>4. CASE DeliverReplyLost \/ DeliverFails
    BY <1>1, <1>2, <1>4, RaiseStep DEF DeliverReplyLost, DeliverFails, TypeInv, TypeOK
  <1>5. CASE Deliver
    BY <1>1, <1>2, <1>5, RunStep DEF Deliver, TypeInv, TypeOK, Running
  <1>6. CASE Ask
    BY <1>1, <1>6, NewRunType, RunStep
       DEF Ask, MayScan, Deciding, TypeInv, TypeOK, Running
  <1>7. CASE ReadWallet
    <2>1. run' \in Run
      BY <1>7 DEF ReadWallet, TypeInv, TypeOK, Run
    <2> QED BY <1>1, <1>7, <2>1, RunStep DEF ReadWallet, TypeInv, TypeOK, Running
  <1>8. CASE Assess
    <2>1. PICK over \in BOOLEAN, todo \in SUBSET Approvals :
             run' = [run EXCEPT !.over = over, !.todo = todo]
      BY <1>8, RunFields DEF Assess, Costs, ToAutoRevoke
    <2>2. run' \in Run
      BY <2>1 DEF TypeInv, TypeOK, Run
    <2>3. pc \in Running /\ pc' = "revoke"
      BY <1>8 DEF Assess, Assessing, Running
    <2>4. UNCHANGED <<setting, answered, tries, attempt, journal, results, saved, live,
                      executions, faults>>
      BY <1>8 DEF Assess
    <2> QED BY <1>1, <2>2, <2>3, <2>4, RunStep DEF TypeInv, TypeOK, Running
  <1> QED BY <1>3, <1>4, <1>5, <1>6, <1>7, <1>8

LEMMA SurroundingsTypeInv ==
    ASSUME TypeInv,
           Answer \/ LoseCheckpoint \/ Crash \/ \E e \in executions : Complete(e) \/ Fail(e)
    PROVE  TypeInv'
  <1>1. CASE Answer
    <2>1. /\ tries' = 0 /\ tries' \in 0..MaxRetries /\ answered' = TRUE
          /\ answered' \in BOOLEAN /\ ~answered
      BY <1>1, SettingsAssumption DEF Answer, TypeInv, AttemptsPaid
    <2>2. TypeOK'
      BY <1>1, <2>1 DEF Answer, TypeInv, TypeOK
    <2>3. AttemptsPaid'
      BY <1>1, <2>1, AttemptsAreNumbers, SettingsAssumption
         DEF Answer, TypeInv, TypeOK, AttemptsPaid, Running
    <2> QED BY <2>2, <2>3 DEF TypeInv
  <1>2. CASE LoseCheckpoint
    <2>1. TypeOK'
      BY <1>2, NothingYetType, SettingsAssumption DEF LoseCheckpoint, Fault, TypeInv, TypeOK
    <2>2. AttemptsPaid'
      BY <1>2, AttemptsAreNumbers, SettingsAssumption
         DEF LoseCheckpoint, Fault, TypeInv, TypeOK, AttemptsPaid, Running
    <2> QED BY <2>1, <2>2 DEF TypeInv
  <1>3. CASE Crash
    <2>1. TypeOK'
      BY <1>3, NewRunType, SettingsAssumption DEF Crash, Fault, TypeInv, TypeOK
    <2>2. AttemptsPaid'
      BY <1>3, AttemptsAreNumbers, SettingsAssumption
         DEF Crash, Fault, TypeInv, TypeOK, AttemptsPaid, Running
    <2> QED BY <2>1, <2>2 DEF TypeInv
  <1>4. ASSUME NEW e \in executions, Complete(e) \/ Fail(e)
        PROVE  TypeInv'
    <2>1. executions' \subseteq Execution /\ live' \subseteq Approvals
      BY <1>4 DEF Complete, Fail, Execution, TypeInv, TypeOK
    <2>2. UNCHANGED <<setting, pc, run, answered, tries, attempt, journal, results,
                      saved, faults>>
      BY <1>4 DEF Complete, Fail
    <2> QED BY <2>1, <2>2 DEF TypeInv, TypeOK, AttemptsPaid
  <1> QED BY <1>1, <1>2, <1>3, <1>4

\* TypeInv is inductive, given what is polled.
LEMMA NextTypeInv == TypeInv /\ PollsApproval /\ [Next]_vars => TypeInv'
  <1> SUFFICES ASSUME TypeInv, PollsApproval, [Next]_vars
               PROVE  TypeInv'
    OBVIOUS
  <1>1. CASE Start \/ StartFails
    BY <1>1, StartTypeInv
  <1>2. ASSUME NEW c \in Chains, Scan(c) \/ ScanFails(c)
        PROVE  TypeInv'
    BY <1>2, ScanTypeInv
  <1>3. CASE Finish \/ ReportDelta
    BY <1>3, FinishTypeInv, ReportDeltaTypeInv
  <1>4. CASE Errs \/ RefuseToDeliver \/ Assess \/ ReadWallet \/ Ask \/ Deliver
               \/ DeliverReplyLost \/ DeliverFails
    BY <1>4, TailTypeInv
  <1>5. ASSUME NEW a \in Approvals, Revoking(a)
        PROVE  TypeInv'
    BY <1>5, RevokingTypeInv
  <1>6. CASE PollEnds \/ PollGivesUp
    BY <1>6, PollTypeInv
  <1>7. CASE Answer \/ LoseCheckpoint \/ Crash
               \/ \E e \in executions : Complete(e) \/ Fail(e)
    BY <1>7, SurroundingsTypeInv
  <1>8. CASE UNCHANGED vars
    BY <1>8 DEF vars, TypeInv, TypeOK, AttemptsPaid
  <1> QED BY <1>1, <1>2, <1>3, <1>4, <1>5, <1>6, <1>7, <1>8 DEF Next, Agent, Revoking

-----------------------------------------------------------------------------
(***************************************************************************)
(* What was executed is justified, and what is said of it is true.         *)
(***************************************************************************)
TruthInv == ExecutionsJustified /\ OutcomesTrue /\ ResultsTrue

LEMMA InitTruthInv == Init => TruthInv
  BY ScanAssumption
     DEF Init, TruthInv, ExecutionsJustified, OutcomesTrue, ResultsTrue, RevokedIsCleared,
         NotAttemptedIsUntouched, NewRun, NoResults, Running

\* A run that ends without a delivery, or that begins: nothing is executed.
LEMMA FreshRunTruth ==
    ASSUME TypeInv, TruthInv,
           run'.outcome = NewRun.outcome, run'.wallet = "unread", run'.todo = {},
           pc' # "poll", attempt' = attempt \/ attempt' = attempt + 1,
           pc' \notin Running \/ attempt' = attempt + 1,
           UNCHANGED <<setting, results, live, executions>>
    PROVE  TruthInv'
  <1>1. ExecutionsJustified'
    BY AttemptsAreNumbers
       DEF TruthInv, ExecutionsJustified, TypeInv, TypeOK, Execution, Attempts
  <1>2. OutcomesTrue'
    <2>1. \A a \in Approvals : run'.outcome[a] = "not_attempted"
      BY DEF NewRun
    <2>2. \A e \in executions : e.by <= attempt /\ e.by \in Nat
      BY DEF TruthInv, ExecutionsJustified, TypeInv, TypeOK, Execution, Attempts
    <2> QED BY <2>1, <2>2, AttemptsAreNumbers DEF OutcomesTrue
  <1>3. ResultsTrue'
    <2>1. results.by <= attempt /\ results.by \in Nat
      BY DEF TruthInv, ResultsTrue, TypeInv, TypeOK, Results, Attempts
    <2> QED BY <2>1, AttemptsAreNumbers
            DEF TruthInv, ResultsTrue, RevokedIsCleared, NotAttemptedIsUntouched
  <1> QED BY <1>1, <1>2, <1>3 DEF TruthInv

\* A step of a run that neither executes nor ends anything.
LEMMA QuietTruth ==
    ASSUME TypeInv, TruthInv,
           run'.outcome = run.outcome, run'.todo \subseteq Dangerous,
           run'.wallet = run.wallet
             \/ (run.wallet # "scanned" /\ (run'.wallet = "scanned" => setting.delegated)),
           pc' # "poll", pc # "poll", pc' \in Running => pc \in Running,
           UNCHANGED <<setting, attempt, results, live, executions>>
    PROVE  TruthInv'
  <1>1. ExecutionsJustified'
    BY DEF TruthInv, ExecutionsJustified
  <1>2. OutcomesTrue'
    BY DEF TruthInv, OutcomesTrue
  <1>3. ResultsTrue'
    BY DEF TruthInv, ResultsTrue, RevokedIsCleared, NotAttemptedIsUntouched
  <1> QED BY <1>1, <1>2, <1>3 DEF TruthInv

\* What the run that delivers says becomes what was delivered.
LEMMA DeliverTruth ==
    ASSUME TypeInv, TruthInv, Delivering, results' = Stored,
           run' = run \/ run' = NewRun, pc' \notin Running,
           UNCHANGED <<setting, attempt, live, executions>>
    PROVE  TruthInv'
  <1>1. pc \in Running \ {"poll"} /\ pc' # "poll"
    BY DEF Delivering, Running
  <1>2. ExecutionsJustified'
    BY DEF TruthInv, ExecutionsJustified, NewRun
  <1>3. OutcomesTrue'
    BY <1>1 DEF TruthInv, OutcomesTrue, NewRun
  <1>4. ResultsTrue'
    <2>1. /\ results'.by = attempt /\ results'.found = run.found
          /\ results'.outcome = run.outcome
      BY DEF Stored
    <2>2. attempt \in Nat
      BY AttemptsAreNumbers
    <2>3. RevokedIsCleared'
      BY <2>1, RunFields DEF TruthInv, OutcomesTrue, RevokedIsCleared
    <2>4. NotAttemptedIsUntouched'
      BY <1>1, <2>1 DEF TruthInv, OutcomesTrue, NotAttemptedIsUntouched
    <2> QED BY <2>1, <2>2, <2>3, <2>4 DEF ResultsTrue
  <1> QED BY <1>2, <1>3, <1>4 DEF TruthInv

\* KeeperHub's executions of a run: the new ones are of this run and of the
\* approval it is at, which the run is entitled to have executed.
Extends(a) ==
    \/ executions' = executions
    \/ executions' = Accepted(a) /\ a \in Dangerous /\ setting.delegated

LEMMA ExecutionsStep ==
    ASSUME TypeInv, TruthInv, NEW a \in Approvals, Extends(a), live' = live,
           run'.todo \subseteq run.todo, run'.wallet = run.wallet,
           UNCHANGED <<setting, attempt>>
    PROVE  ExecutionsJustified'
  <1>1. \A e \in executions' :
           \/ e \in executions
           \/ /\ e.of = a /\ e.by = attempt /\ e.status = "pending"
              /\ a \in Dangerous /\ setting.delegated
    BY DEF Extends, Accepted
  <1>2. attempt \in Nat
    BY AttemptsAreNumbers
  <1> QED BY <1>1, <1>2 DEF TruthInv, ExecutionsJustified

\* What was delivered by another run is not about this run's executions.
LEMMA ResultsStep ==
    ASSUME TypeInv, TruthInv, pc \in Running, NEW a \in Approvals, Extends(a),
           pc' \in Running, UNCHANGED <<attempt, results, live>>
    PROVE  ResultsTrue'
  <1>1. results.by # attempt
    BY DEF TruthInv, ResultsTrue
  <1>2. \A e \in executions' : e \in executions \/ e.by = attempt
    BY DEF Extends, Accepted
  <1> QED BY <1>1, <1>2 DEF TruthInv, ResultsTrue, RevokedIsCleared, NotAttemptedIsUntouched

\* An attempt ended with outcome o.
LEMMA OutcomeTruth ==
    ASSUME TypeInv, TruthInv, NEW a \in Approvals, NEW o \in Outcomes, Outcome(a, o),
           pc = "revoke" \/ (pc = "poll" /\ a = run.at),
           Extends(a), live' = live,
           o = "revoked" => a \notin live,
           \/ run.wallet = "scanned" /\ o # "not_attempted"
           \/ run.wallet # "scanned" /\ executions' = executions
    PROVE  TruthInv'
  <1>1. /\ run'.wallet = run.wallet /\ run'.todo \subseteq run.todo
        /\ run'.outcome = [run.outcome EXCEPT ![a] = o]
        /\ pc' = "revoke"
        /\ UNCHANGED <<setting, attempt, results>>
    BY OutcomeStep DEF Appending, Outcome
  <1>2. ExecutionsJustified'
    BY <1>1, ExecutionsStep
  <1>3. ResultsTrue'
    BY <1>1, ResultsStep DEF Running
  <1>4. OutcomesTrue'
    <2>1. \A b \in Approvals : run'.outcome[b] = IF b = a THEN o ELSE run.outcome[b]
      BY <1>1, RunFields
    <2>2. \A b \in Approvals : run'.outcome[b] = "revoked" => b \notin live'
      BY <2>1 DEF TruthInv, OutcomesTrue
    <2>3. ASSUME NEW e \in executions', e.by = attempt
          PROVE  /\ run.wallet = "scanned" /\ e.of \in Approvals
                 /\ run'.outcome[e.of] # "not_attempted"
      <3>1. e \in executions \/ e.of = a
        BY DEF Extends, Accepted
      <3>2. CASE e \in executions
        <4>1. /\ run.wallet = "scanned"
              /\ run.outcome[e.of] = "not_attempted" => e.of = a
          BY <2>3, <3>2 DEF TruthInv, OutcomesTrue, Running
        <4>2. e.of \in Approvals
          BY <3>2 DEF TypeInv, TypeOK, Execution
        <4> QED BY <4>1, <4>2, <2>1
      <3>3. CASE e \notin executions
        BY <3>1, <3>3, <2>1
      <3> QED BY <3>2, <3>3
    <2> QED BY <1>1, <2>2, <2>3 DEF OutcomesTrue
  <1> QED BY <1>2, <1>3, <1>4 DEF TruthInv

LEMMA RevokingTruth ==
    ASSUME TypeInv, TruthInv, NEW a \in Approvals, Revoking(a)
    PROVE  TruthInv'
  <1>1. /\ pc = "revoke" /\ a \in run.todo /\ a \in Dangerous
        /\ run.wallet = "scanned" => setting.delegated
    BY DEF Revoking, Refuse, Simulate, PostFails, PostReplyLost, Post, MayExecute,
           TruthInv, ExecutionsJustified
  <1>2. CASE Refuse(a)
    BY <1>1, <1>2, OutcomeTruth DEF Refuse, Extends, Outcomes
  <1>3. CASE Simulate(a)
    BY <1>1, <1>3, OutcomeTruth DEF Simulate, MayExecute, Extends, Outcomes
  <1>4. CASE PostFails(a)
    BY <1>1, <1>4, OutcomeTruth DEF PostFails, MayExecute, Extends, Outcomes
  <1>5. CASE PostReplyLost(a)
    BY <1>1, <1>5, OutcomeTruth DEF PostReplyLost, MayExecute, Extends, Outcomes
  <1>6. CASE Post(a)
    <2>1. /\ run'.outcome = run.outcome /\ run'.todo = run.todo
          /\ run'.wallet = run.wallet /\ run'.at = a /\ pc' = "poll"
          /\ run.wallet = "scanned" /\ live' = live
          /\ UNCHANGED <<setting, attempt, results>>
      BY <1>6 DEF Post, MayExecute, TypeInv, TypeOK, Run
    <2>2. Extends(a)
      BY <1>1, <1>6 DEF Post, MayExecute, Extends
    <2>3. ExecutionsJustified' /\ ResultsTrue'
      BY <1>1, <2>1, <2>2, ExecutionsStep, ResultsStep DEF Running
    <2>4. OutcomesTrue'
      <3>1. \A e \in executions' : e \in executions \/ e.of = a
        BY <2>2 DEF Extends, Accepted
      <3> QED BY <1>1, <2>1, <3>1 DEF TruthInv, OutcomesTrue, Running
    <2> QED BY <2>3, <2>4 DEF TruthInv
  <1> QED BY <1>2, <1>3, <1>4, <1>5, <1>6 DEF Revoking

LEMMA PollTruth == TypeInv /\ TruthInv /\ (PollEnds \/ PollGivesUp) => TruthInv'
  <1> SUFFICES ASSUME TypeInv, TruthInv, PollEnds \/ PollGivesUp
               PROVE  TruthInv'
    OBVIOUS
  <1>1. /\ pc = "poll" /\ run.at \in Approvals /\ run.wallet = "scanned"
        /\ live' = live /\ Extends(run.at)
    BY DEF PollEnds, PollGivesUp, Extends, TruthInv, OutcomesTrue
  <1>2. CASE PollEnds
    <2>1. PICK e \in executions, o \in {"revoked", "failed"} :
             /\ e.of = run.at /\ Outcome(run.at, o)
             /\ o = "revoked" => e.status = "completed"
      BY <1>2 DEF PollEnds
    <2>2. o = "revoked" => run.at \notin live
      BY <2>1 DEF TruthInv, ExecutionsJustified
    <2> QED BY <1>1, <2>1, <2>2, OutcomeTruth DEF Outcomes
  <1>3. CASE PollGivesUp
    BY <1>1, <1>3, OutcomeTruth DEF PollGivesUp, Outcomes
  <1> QED BY <1>2, <1>3

\* A transaction that is confirmed clears what it is about, so nothing that was
\* said of it becomes false.
LEMMA SettledTruth ==
    ASSUME TypeInv, TruthInv, NEW e \in executions, Complete(e) \/ Fail(e)
    PROVE  TruthInv'
  <1>1. /\ setting.delegated /\ live' \subseteq live
        /\ UNCHANGED <<setting, pc, run, attempt, results>>
    BY DEF Complete, Fail, TruthInv, ExecutionsJustified
  <1>2. \A d \in executions' :
           \E f \in executions :
              /\ d.of = f.of /\ d.by = f.by
              /\ d.status = "completed" => d.of \notin live'
    <2>1. ASSUME NEW d \in executions', d \in executions
          PROVE  d.status = "completed" => d.of \notin live'
      BY <1>1, <2>1 DEF TruthInv, ExecutionsJustified
    <2>2. ASSUME NEW d \in executions', d \notin executions
          PROVE  /\ d.of = e.of /\ d.by = e.by
                 /\ d.status = "completed" => d.of \notin live'
      BY <1>1, <2>2 DEF Complete, Fail, TypeInv, TypeOK, Execution
    <2> QED BY <2>1, <2>2
  <1>3. ExecutionsJustified'
    BY <1>1, <1>2 DEF TruthInv, ExecutionsJustified
  <1>4. OutcomesTrue'
    BY <1>1, <1>2 DEF TruthInv, OutcomesTrue
  <1>5. ResultsTrue'
    BY <1>1, <1>2 DEF TruthInv, ResultsTrue, RevokedIsCleared, NotAttemptedIsUntouched
  <1> QED BY <1>3, <1>4, <1>5 DEF TruthInv

LEMMA NextTruthInv == TypeInv /\ TruthInv /\ [Next]_vars => TruthInv'
  <1> SUFFICES ASSUME TypeInv, TruthInv, [Next]_vars
               PROVE  TruthInv'
    OBVIOUS
  <1>0. run.todo \subseteq Dangerous
    BY DEF TruthInv, ExecutionsJustified
  <1>1. CASE Start
    BY <1>1, StartRun, FreshRunTruth DEF Start
  <1>2. CASE StartFails \/ Errs \/ RefuseToDeliver \/ DeliverFails
    <2>1. run' = NewRun /\ pc' \in {"queued", "failed"}
      BY <1>2, RaiseType DEF StartFails, Errs, RefuseToDeliver, DeliverFails
    <2> QED BY <1>2, <2>1, FreshRunTruth
            DEF StartFails, Errs, RefuseToDeliver, DeliverFails, NewRun, Running
  <1>3. CASE Ask \/ Crash
    BY <1>3, FreshRunTruth DEF Ask, Crash, NewRun, Running
  <1>4. ASSUME NEW c \in Chains, Scan(c) \/ ScanFails(c)
        PROVE  TruthInv'
    <2>1. /\ run'.outcome = run.outcome /\ run'.wallet = run.wallet
          /\ run'.todo = run.todo
      BY <1>4, ScanStep, ScanFailsStep DEF Scanning
    <2> QED BY <1>0, <1>4, <2>1, QuietTruth
            DEF Scan, ScanFails, MayScan, Deciding, Running
  <1>5. CASE Finish
    BY <1>0, <1>5, FinishStep, QuietTruth DEF Appending, Finish, Deciding, Running
  <1>6. CASE ReportDelta
    BY <1>0, <1>6, ReportStep, QuietTruth DEF Appending, ReportDelta, Running
  <1>7. CASE Assess
    <2>1. /\ run'.outcome = run.outcome /\ run'.wallet = run.wallet
          /\ run'.todo \subseteq Dangerous
      BY <1>7 DEF Assess, ToAutoRevoke, TypeInv, TypeOK, Run
    <2> QED BY <1>7, <2>1, QuietTruth DEF Assess, Assessing, Running
  <1>8. CASE ReadWallet
    <2>1. /\ run'.outcome = run.outcome /\ run'.todo = run.todo
          /\ run.wallet = "unread" /\ run'.wallet = "scanned" => setting.delegated
      BY <1>8 DEF ReadWallet, TypeInv, TypeOK, Run
    <2> QED BY <1>0, <1>8, <2>1, QuietTruth DEF ReadWallet, Running
  <1>9. ASSUME NEW a \in Approvals, Revoking(a)
        PROVE  TruthInv'
    BY <1>9, RevokingTruth
  <1>10. CASE PollEnds \/ PollGivesUp
    BY <1>10, PollTruth
  <1>11. CASE Deliver
    BY <1>11, DeliverTruth DEF Deliver, Running
  <1>12. CASE DeliverReplyLost
    BY <1>12, RaiseType, DeliverTruth DEF DeliverReplyLost, Running
  <1>13. CASE Answer \/ LoseCheckpoint
    BY <1>0, <1>13, QuietTruth DEF Answer, LoseCheckpoint, Running
  <1>14. ASSUME NEW e \in executions, Complete(e) \/ Fail(e)
         PROVE  TruthInv'
    BY <1>14, SettledTruth
  <1>15. CASE UNCHANGED vars
    BY <1>15 DEF vars, TruthInv, ExecutionsJustified, OutcomesTrue, ResultsTrue,
                 RevokedIsCleared, NotAttemptedIsUntouched
  <1> QED BY <1>1, <1>2, <1>3, <1>4, <1>5, <1>6, <1>7, <1>8, <1>9, <1>10, <1>11, <1>12,
             <1>13, <1>14, <1>15 DEF Next, Agent, Revoking

-----------------------------------------------------------------------------
(***************************************************************************)
(* A run, its checkpoint and its delivery cover the same.                  *)
(***************************************************************************)
LEMMA SameStepsSameChains ==
    ASSUME NEW r, NEW q, r.steps = q.steps
    PROVE  Scanned(r) = Scanned(q) /\ Degraded(r) = Degraded(q)
  BY DEF Scanned, Degraded, ChainsOf, StepsOf

LEMMA NothingCovered ==
    /\ NewRun.found = {} /\ Scanned(NewRun) = {}
    /\ NoCheckpoint.found = {} /\ Scanned(NoCheckpoint) = {}
  BY NoStepsNoChains DEF NewRun, NoCheckpoint, Scanned

LEMMA InitCoverageTrue == Init => CoverageTrue
  BY NothingCovered DEF Init, CoverageTrue, DeliveryIsItsCoverage, Covers, NoResults

\* A step other than a scan's adds no chain that was scanned; and a run is only
\* blind when no step has scanned.
LEMMA NoScanSameChains ==
    ASSUME TypeInv, NEW step \in Step, step.kind # "scan",
           run'.steps = Append(run.steps, step)
    PROVE  Scanned(run') = Scanned(run)
  <1>1. run.steps \in Seq(Step)
    BY RunFields
  <1>2. ChainsOf(run', "scan") =
           IF step.kind = "scan" THEN ChainsOf(run, "scan") \cup {step.detail}
                                 ELSE ChainsOf(run, "scan")
    BY <1>1, ChainsOfAppend
  <1> QED BY <1>2 DEF Scanned

LEMMA ScanAddsChain ==
    ASSUME TypeInv, NEW c \in Chains,
           run'.steps = Append(run.steps, NextStep(run, "scan", c))
    PROVE  Scanned(run') = Scanned(run) \cup {c}
  <1>1. NextStep(run, "scan", c) \in Step
    BY NextStepType DEF TypeInv, TypeOK
  <1>2. /\ NextStep(run, "scan", c).kind = "scan"
        /\ NextStep(run, "scan", c).detail = c
    BY DEF NextStep
  <1> DEFINE step == NextStep(run, "scan", c)
  <1>3. run.steps \in Seq(Step)
    BY RunFields
  <1>4. ChainsOf(run', "scan") =
           IF step.kind = "scan" THEN ChainsOf(run, "scan") \cup {step.detail}
                                 ELSE ChainsOf(run, "scan")
    <2> HIDE DEF step
    <2> QED BY <1>1, <1>3, ChainsOfAppend DEF step
  <1> QED BY <1>2, <1>4 DEF Scanned

\* What the run covers is what its checkpoint covers once it is saved.
LEMMA SaveCovers ==
    ASSUME NEW r, Save(r), Covers(r.found, Scanned(r)), Covers(saved.found, Scanned(saved))
    PROVE  Covers(saved'.found, Scanned(saved'))
  <1>1. CASE Graph
    <2>1. saved'.steps = r.steps /\ saved'.found = r.found
      BY <1>1 DEF Save
    <2> QED BY <2>1, SameStepsSameChains
  <1>2. CASE ~Graph
    BY <1>2 DEF Save
  <1> QED BY <1>1, <1>2

\* A scan that was answered covers one chain more.
LEMMA ScanCovers ==
    ASSUME TypeInv, CoverageTrue, NEW c \in Chains, Scan(c)
    PROVE  Covers(run'.found, Scanned(run'))
  <1>1. PICK found \in Reports(c) : Scanning(NextStep(run, "scan", c), found)
    BY ScanStep
  <1>2. /\ run'.found = run.found \cup found
        /\ Scanned(run') = Scanned(run) \cup {c}
    BY <1>1, ScanAddsChain DEF Scanning
  <1>3. /\ \A a \in found : ChainOf[a] = c
        /\ \A a \in live : ChainOf[a] = c => a \in found
    BY DEF Reports
  <1> QED BY <1>2, <1>3 DEF CoverageTrue, Covers

\* What covers goes on covering while approvals are only revoked.
LEMMA CoverageStep ==
    ASSUME Covers(run'.found, Scanned(run')), Covers(saved'.found, Scanned(saved')),
           Covers(results'.found, results'.scanned), live' \subseteq live
    PROVE  CoverageTrue'
  BY DEF CoverageTrue, DeliveryIsItsCoverage, Covers

\* A step of a run under way that scans nothing.
LEMMA AppendingCoverage ==
    ASSUME TypeInv, CoverageTrue, NEW step \in Step, step.kind # "scan", Appending(step),
           saved' = saved \/ Save(run'), results' = results, live' = live
    PROVE  CoverageTrue'
  <1>1. Covers(run'.found, Scanned(run'))
    BY NoScanSameChains DEF Appending, CoverageTrue
  <1>2. Covers(saved'.found, Scanned(saved'))
    BY <1>1, SaveCovers DEF CoverageTrue
  <1> QED BY <1>1, <1>2, CoverageStep DEF CoverageTrue, DeliveryIsItsCoverage

\* A step that leaves the run's steps and findings alone, or ends the run.
LEMMA IdleCoverage ==
    ASSUME CoverageTrue,
           run' = NewRun \/ (run'.steps = run.steps /\ run'.found = run.found),
           saved' = saved \/ saved' = NoCheckpoint,
           results' = results \/ results' = Stored,
           live' \subseteq live
    PROVE  CoverageTrue'
  <1>1. Covers({}, {})
    BY DEF Covers
  <1>2. Covers(run'.found, Scanned(run'))
    <2>1. CASE run' = NewRun
      BY <1>1, <2>1, NothingCovered
    <2>2. CASE run'.steps = run.steps /\ run'.found = run.found
      <3>1. Scanned(run') = Scanned(run)
        BY <2>2 DEF Scanned, ChainsOf, StepsOf
      <3> QED BY <2>2, <3>1 DEF CoverageTrue
    <2> QED BY <2>1, <2>2
  <1>3. Covers(saved'.found, Scanned(saved'))
    BY <1>1, NothingCovered DEF CoverageTrue
  <1>4. Covers(results'.found, results'.scanned)
    BY DEF CoverageTrue, DeliveryIsItsCoverage, Stored
  <1> QED BY <1>2, <1>3, <1>4, CoverageStep

LEMMA StartCoverage == TypeInv /\ CoverageTrue /\ Start => CoverageTrue'
  <1> SUFFICES ASSUME TypeInv, CoverageTrue, Start
               PROVE  CoverageTrue'
    OBVIOUS
  <1>1. PICK from \in {saved, NoCheckpoint} :
           run'.steps = from.steps /\ run'.found = from.found
    BY StartRun
  <1>2. Scanned(run') = Scanned(from)
    BY <1>1 DEF Scanned, ChainsOf, StepsOf
  <1>3. Covers(from.found, Scanned(from))
    BY NothingCovered DEF CoverageTrue, Covers
  <1>4. Covers(run'.found, Scanned(run'))
    BY <1>1, <1>2, <1>3
  <1>5. Covers(saved'.found, Scanned(saved'))
    BY <1>4, StartRun, SaveCovers DEF CoverageTrue
  <1> QED BY <1>4, <1>5, CoverageStep DEF Start, CoverageTrue, DeliveryIsItsCoverage

LEMMA ScanningCoverage ==
    ASSUME TypeInv, CoverageTrue, NEW c \in Chains, Scan(c) \/ ScanFails(c)
    PROVE  CoverageTrue'
  <1>1. Covers(run'.found, Scanned(run'))
    <2>1. CASE Scan(c)
      BY <2>1, ScanCovers
    <2>2. CASE ScanFails(c)
      <3>1. /\ run'.steps = Append(run.steps, NextStep(run, "degraded", c))
            /\ run'.found = run.found
        BY <2>2, ScanFailsStep DEF Scanning
      <3>2. NextStep(run, "degraded", c) \in Step /\ NextStep(run, "degraded", c).kind # "scan"
        BY NextStepType DEF TypeInv, TypeOK, NextStep
      <3>3. Scanned(run') = Scanned(run)
        BY <3>1, <3>2, NoScanSameChains
      <3> QED BY <3>1, <3>3 DEF CoverageTrue
    <2> QED BY <2>1, <2>2
  <1>2. Covers(saved'.found, Scanned(saved'))
    BY <1>1, SaveCovers DEF Scan, ScanFails, CoverageTrue
  <1> QED BY <1>1, <1>2, CoverageStep
          DEF Scan, ScanFails, CoverageTrue, DeliveryIsItsCoverage

LEMMA NextCoverageTrue == TypeInv /\ TruthInv /\ CoverageTrue /\ [Next]_vars => CoverageTrue'
  <1> SUFFICES ASSUME TypeInv, TruthInv, CoverageTrue, [Next]_vars
               PROVE  CoverageTrue'
    OBVIOUS
  <1>1. CASE Start
    BY <1>1, StartCoverage
  <1>2. ASSUME NEW c \in Chains, Scan(c) \/ ScanFails(c)
        PROVE  CoverageTrue'
    BY <1>2, ScanningCoverage
  <1>3. CASE Finish \/ ReportDelta
    <2>1. PICK kind \in {"finish", "report"} :
             /\ Appending(NextStep(run, kind, None))
             /\ saved' = saved \/ Save(run')
             /\ results' = results /\ live' = live
      BY <1>3, FinishStep, ReportStep DEF Finish, ReportDelta
    <2>2. NextStep(run, kind, None) \in Step /\ NextStep(run, kind, None).kind # "scan"
      BY NextStepType DEF TypeInv, TypeOK, NextStep
    <2> QED BY <2>1, <2>2, AppendingCoverage
  <1>4. ASSUME NEW a \in Approvals, NEW o \in Outcomes, Outcome(a, o), live' = live
        PROVE  CoverageTrue'
    <2>1. NextStep(run, "revoke", a) \in Step /\ NextStep(run, "revoke", a).kind # "scan"
      BY NextStepType DEF TypeInv, TypeOK, NextStep
    <2> QED BY <1>4, <2>1, OutcomeStep, AppendingCoverage DEF Outcome
  <1>5. ASSUME NEW a \in Approvals, Revoking(a)
        PROVE  CoverageTrue'
    <2>1. CASE Post(a)
      <3>1. run'.steps = run.steps /\ run'.found = run.found
        BY <2>1 DEF Post, TypeInv, TypeOK, Run
      <3> QED BY <2>1, <3>1, IdleCoverage DEF Post
    <2>2. CASE ~Post(a)
      <3>1. PICK o \in Outcomes : Outcome(a, o) /\ live' = live
        BY <1>5, <2>2 DEF Revoking, Refuse, Simulate, PostFails, PostReplyLost, Outcomes
      <3> QED BY <3>1, <1>4
    <2> QED BY <2>1, <2>2
  <1>6. CASE PollEnds \/ PollGivesUp
    <2>1. PICK o \in Outcomes : Outcome(run.at, o) /\ live' = live
      BY <1>6 DEF PollEnds, PollGivesUp, Outcomes
    <2>2. run.at \in Approvals
      BY <1>6 DEF PollEnds, PollGivesUp, TruthInv, OutcomesTrue
    <2> QED BY <2>1, <2>2, <1>4
  <1>7. CASE StartFails \/ Errs \/ RefuseToDeliver \/ DeliverFails \/ DeliverReplyLost
    BY <1>7, RaiseType, IdleCoverage
       DEF StartFails, Errs, RefuseToDeliver, DeliverFails, DeliverReplyLost
  <1>8. CASE Ask \/ Crash \/ Answer \/ LoseCheckpoint \/ Deliver
    BY <1>8, IdleCoverage DEF Ask, Crash, Answer, LoseCheckpoint, Deliver
  <1>9. CASE Assess \/ ReadWallet
    <2>1. run'.steps = run.steps /\ run'.found = run.found
      BY <1>9 DEF Assess, ReadWallet, TypeInv, TypeOK, Run
    <2> QED BY <1>9, <2>1, IdleCoverage DEF Assess, ReadWallet
  <1>10. ASSUME NEW e \in executions, Complete(e) \/ Fail(e)
         PROVE  CoverageTrue'
    BY <1>10, IdleCoverage DEF Complete, Fail
  <1>11. CASE UNCHANGED vars
    BY <1>11, IdleCoverage DEF vars
  <1> QED BY <1>1, <1>2, <1>3, <1>5, <1>6, <1>7, <1>8, <1>9, <1>10, <1>11
          DEF Next, Agent, Revoking

-----------------------------------------------------------------------------
(***************************************************************************)
(* A run that delivers has looked at something.                            *)
(***************************************************************************)
LEMMA InitSightTrue == Init => SightTrue
  BY DEF Init, SightTrue, Delivery, NeverBlind, NoResults

\* A step of the tail that is journalled changes nothing about the chains.
LEMMA AppendingSight ==
    ASSUME TypeInv, SightTrue, NEW step \in Step, step.kind \notin {"scan", "degraded"},
           Appending(step), pc \in Delivery, results' = results
    PROVE  SightTrue'
  <1>1. run.steps \in Seq(Step) /\ run'.steps = Append(run.steps, step)
    BY RunFields DEF Appending
  <1>2. ASSUME NEW kind \in {"scan", "degraded"}
        PROVE  ChainsOf(run', kind) = ChainsOf(run, kind)
    BY <1>1, ChainsOfAppend
  <1>3. Scanned(run') = Scanned(run) /\ Degraded(run') = Degraded(run)
    BY <1>2 DEF Scanned, Degraded
  <1> QED BY <1>3 DEF SightTrue, Blind, NeverBlind

\* A step that leaves the run's steps alone, or leads away from its delivery.
LEMMA IdleSight ==
    ASSUME SightTrue,
           pc' \notin Delivery \/ (run'.steps = run.steps /\ ~Blind),
           results' = results \/ (results' = Stored /\ ~Blind)
    PROVE  SightTrue'
  <1>1. (pc \in Delivery => ~Blind)'
    <2>1. CASE run'.steps = run.steps
      BY <2>1 DEF SightTrue, Blind, Scanned, Degraded, ChainsOf, StepsOf
    <2>2. CASE pc' \notin Delivery
      BY <2>2
    <2> QED BY <2>1, <2>2
  <1>2. NeverBlind'
    BY DEF SightTrue, NeverBlind, Stored, Blind
  <1> QED BY <1>1, <1>2 DEF SightTrue

LEMMA NextSightTrue == TypeInv /\ TruthInv /\ SightTrue /\ [Next]_vars => SightTrue'
  <1> SUFFICES ASSUME TypeInv, TruthInv, SightTrue, [Next]_vars
               PROVE  SightTrue'
    OBVIOUS
  <1>0. pc \in Delivery => ~Blind
    BY DEF SightTrue
  <1>1. CASE Start
    BY <1>1, StartRun, IdleSight DEF Start, Delivery
  <1>2. ASSUME NEW c \in Chains, Scan(c) \/ ScanFails(c)
        PROVE  SightTrue'
    BY <1>2, IdleSight DEF Scan, ScanFails, MayScan, Deciding, Delivery
  <1>3. CASE Finish \/ Ask \/ Crash \/ Answer \/ LoseCheckpoint
    BY <1>3, IdleSight DEF Finish, Ask, Crash, Answer, LoseCheckpoint, Delivery
  <1>4. CASE ReportDelta
    <2>1. NextStep(run, "report", None) \in Step /\ NextStep(run, "report", None).kind = "report"
      BY NextStepType DEF TypeInv, TypeOK, NextStep
    <2> QED BY <1>4, <2>1, ReportStep, AppendingSight DEF ReportDelta, Delivery
  <1>5. ASSUME NEW a \in Approvals, NEW o \in Outcomes, Outcome(a, o), pc \in Delivery
        PROVE  SightTrue'
    <2>1. NextStep(run, "revoke", a) \in Step /\ NextStep(run, "revoke", a).kind = "revoke"
      BY NextStepType DEF TypeInv, TypeOK, NextStep
    <2> QED BY <1>5, <2>1, OutcomeStep, AppendingSight DEF Outcome
  <1>6. ASSUME NEW a \in Approvals, Revoking(a)
        PROVE  SightTrue'
    <2>1. pc \in Delivery
      BY <1>6 DEF Revoking, Refuse, Simulate, PostFails, PostReplyLost, Post, MayExecute,
                  Delivery
    <2>2. CASE Post(a)
      <3>1. run'.steps = run.steps
        BY <2>2 DEF Post, TypeInv, TypeOK, Run
      <3> QED BY <1>0, <2>1, <2>2, <3>1, IdleSight DEF Post
    <2>3. CASE ~Post(a)
      <3>1. PICK o \in Outcomes : Outcome(a, o)
        BY <1>6, <2>3 DEF Revoking, Refuse, Simulate, PostFails, PostReplyLost, Outcomes
      <3> QED BY <2>1, <3>1, <1>5
    <2> QED BY <2>2, <2>3
  <1>7. CASE PollEnds \/ PollGivesUp
    <2>1. PICK o \in Outcomes : Outcome(run.at, o)
      BY <1>7 DEF PollEnds, PollGivesUp, Outcomes
    <2>2. run.at \in Approvals /\ pc \in Delivery
      BY <1>7 DEF PollEnds, PollGivesUp, TruthInv, OutcomesTrue, Delivery
    <2> QED BY <2>1, <2>2, <1>5
  <1>8. CASE StartFails \/ Errs \/ RefuseToDeliver \/ DeliverFails
    BY <1>8, RaiseType, IdleSight
       DEF StartFails, Errs, RefuseToDeliver, DeliverFails, Delivery
  <1>9. CASE Deliver \/ DeliverReplyLost
    <2>1. pc \in Delivery /\ results' = Stored
      BY <1>9 DEF Deliver, DeliverReplyLost, Delivering, Delivery
    <2>2. pc' \notin Delivery
      BY <1>9, RaiseType DEF Deliver, DeliverReplyLost, Delivery
    <2> QED BY <1>0, <2>1, <2>2, IdleSight
  <1>10. CASE Assess
    <2>1. run'.steps = run.steps /\ ~Blind
      BY <1>10 DEF Assess, TypeInv, TypeOK, Run
    <2> QED BY <1>10, <2>1, IdleSight DEF Assess
  <1>11. CASE ReadWallet
    <2>1. run'.steps = run.steps
      BY <1>11 DEF ReadWallet, TypeInv, TypeOK, Run
    <2> QED BY <1>0, <1>11, <2>1, IdleSight DEF ReadWallet, Delivery
  <1>12. ASSUME NEW e \in executions, Complete(e) \/ Fail(e)
         PROVE  SightTrue'
    BY <1>0, <1>12, IdleSight DEF Complete, Fail
  <1>13. CASE UNCHANGED vars
    BY <1>0, <1>13, IdleSight DEF vars
  <1> QED BY <1>1, <1>2, <1>3, <1>4, <1>6, <1>7, <1>8, <1>9, <1>10, <1>11, <1>12, <1>13
          DEF Next, Agent, Revoking

-----------------------------------------------------------------------------
(***************************************************************************)
(* The steps of a run, their numbers and how many there may be.            *)
(***************************************************************************)
Kinds == {"scan", "degraded", "finish", "revoke", "report"}

\* A run under way does one step more, and reports it.
Appends(kind, detail) ==
    /\ NextStep(run, kind, detail) \in Step
    /\ run'.steps = Append(run.steps, NextStep(run, kind, detail))
    /\ Report(NextStep(run, kind, detail))
    /\ saved' = saved \/ Save(run')
    /\ kind \in {"scan", "degraded"} => ~Spent
    /\ pc \in Running /\ pc' \in Running
    /\ UNCHANGED <<attempt, setting, tries, results>>

\* The run does nothing, or ends and leaves its journal to the next.
Idles ==
    /\ UNCHANGED setting
    /\ saved' \in {saved, NoCheckpoint}
    /\ faults' = 0 => faults = 0
    /\ pc' = "done" => results' = Stored \/ (pc = "done" /\ UNCHANGED <<run, results>>)
    /\ faults' = 0 /\ tries' = 0 =>
          IF pc' = "queued" THEN journal' = {} \/ (tries = 0 /\ UNCHANGED <<pc, journal>>)
          ELSE pc' \in Running \cup {"done"} => tries = 0
    /\ \/ /\ run'.steps = run.steps
          /\ UNCHANGED <<attempt, journal>>
          /\ pc' \in Running \cup {"done"} => pc \in Running \cup {"done"}
       \/ /\ run'.steps \in {run.steps, <<>>}
          /\ attempt' \in {attempt, attempt + 1}
          /\ journal' \in {journal, {}}
          /\ pc' \notin Running \cup {"done"}

\* Every step of the system is the start of a run, a step of it or none.
LEMMA NextSteps ==
    ASSUME TypeInv, TruthInv, [Next]_vars
    PROVE  \/ Start
           \/ \E kind \in Kinds : \E detail : Appends(kind, detail)
           \/ Idles
  <1> USE DEF Running
  <1>0. faults \in Nat /\ tries \in Nat /\ NewRun.steps = <<>>
    BY DEF TypeInv, TypeOK, NewRun
  <1>1. ASSUME NEW c \in Chains, Scan(c)
        PROVE  Appends("scan", c)
    <2>1. run'.steps = Append(run.steps, NextStep(run, "scan", c))
      BY <1>1, ScanStep DEF Scanning
    <2>2. NextStep(run, "scan", c) \in Step
      BY NextStepType DEF TypeInv, TypeOK
    <2> QED BY <1>1, <2>1, <2>2 DEF Scan, MayScan, Deciding, Appends
  <1>2. ASSUME NEW c \in Chains, ScanFails(c)
        PROVE  Appends("degraded", c)
    <2>1. run'.steps = Append(run.steps, NextStep(run, "degraded", c))
      BY <1>2, ScanFailsStep DEF Scanning
    <2>2. NextStep(run, "degraded", c) \in Step
      BY NextStepType DEF TypeInv, TypeOK
    <2> QED BY <1>2, <2>1, <2>2 DEF ScanFails, MayScan, Deciding, Appends
  <1>3. CASE Finish
    <2>1. run'.steps = Append(run.steps, NextStep(run, "finish", None))
      BY <1>3, FinishStep DEF Appending
    <2>2. NextStep(run, "finish", None) \in Step
      BY NextStepType DEF TypeInv, TypeOK
    <2>3. Appends("finish", None)
      BY <1>3, <2>1, <2>2 DEF Finish, Deciding, Appends
    <2> QED BY <2>3 DEF Kinds
  <1>4. CASE ReportDelta
    <2>1. run'.steps = Append(run.steps, NextStep(run, "report", None))
      BY <1>4, ReportStep DEF Appending
    <2>2. NextStep(run, "report", None) \in Step
      BY NextStepType DEF TypeInv, TypeOK
    <2>3. Appends("report", None)
      BY <1>4, <2>1, <2>2 DEF ReportDelta, Appends
    <2> QED BY <2>3 DEF Kinds
  <1>5. ASSUME NEW a \in Approvals, NEW o \in Outcomes, Outcome(a, o), pc \in {"revoke", "poll"}
        PROVE  Appends("revoke", a)
    <2>1. run'.steps = Append(run.steps, NextStep(run, "revoke", a))
      BY <1>5, OutcomeStep DEF Appending
    <2>2. NextStep(run, "revoke", a) \in Step
      BY NextStepType DEF TypeInv, TypeOK
    <2> QED BY <1>5, <2>1, <2>2 DEF Outcome, Appends
  <1>6. ASSUME NEW a \in Approvals, Revoking(a)
        PROVE  Appends("revoke", a) \/ Idles
    <2>1. CASE Post(a)
      <3>1. run'.steps = run.steps
        BY <2>1 DEF Post, TypeInv, TypeOK, Run
      <3> QED BY <2>1, <3>1 DEF Post, MayExecute, Idles
    <2>2. CASE ~Post(a)
      <3>1. PICK o \in Outcomes : Outcome(a, o) /\ pc = "revoke"
        BY <1>6, <2>2 DEF Revoking, Refuse, Simulate, PostFails, PostReplyLost, MayExecute,
                          Outcomes
      <3> QED BY <3>1, <1>5
    <2> QED BY <2>1, <2>2
  <1>7. CASE PollEnds \/ PollGivesUp
    <2>1. PICK o \in Outcomes : Outcome(run.at, o) /\ pc = "poll"
      BY <1>7 DEF PollEnds, PollGivesUp, Outcomes
    <2>2. run.at \in Approvals
      BY <2>1 DEF TruthInv, OutcomesTrue
    <2> QED BY <2>1, <2>2, <1>5 DEF Kinds
  <1>8. CASE StartFails \/ Errs \/ RefuseToDeliver \/ DeliverFails \/ DeliverReplyLost
    <2>1. /\ run'.steps = <<>>
          /\ pc' = "failed" \/ (pc' = "queued" /\ tries' = tries + 1)
      BY <1>0, <1>8
         DEF StartFails, Errs, RefuseToDeliver, DeliverFails, DeliverReplyLost, Raise
    <2>2. UNCHANGED <<setting, saved, journal>> /\ attempt' \in {attempt, attempt + 1}
            /\ (faults' = 0 => faults = 0)
      BY <1>0, <1>8
         DEF StartFails, Errs, RefuseToDeliver, DeliverFails, DeliverReplyLost, Fault
    <2> QED BY <1>0, <2>1, <2>2 DEF Idles
  <1>9. CASE Ask \/ Crash \/ Answer \/ LoseCheckpoint
    BY <1>0, <1>9 DEF Ask, Crash, Answer, LoseCheckpoint, Fault, Idles
  <1>10. CASE Deliver
    BY <1>10 DEF Deliver, Delivering, Idles
  <1>11. CASE Assess \/ ReadWallet
    <2>1. run'.steps = run.steps
      BY <1>11 DEF Assess, ReadWallet, TypeInv, TypeOK, Run
    <2> QED BY <1>11, <2>1 DEF Assess, ReadWallet, Assessing, Idles
  <1>12. ASSUME NEW e \in executions, Complete(e) \/ Fail(e)
         PROVE  Idles
    BY <1>12 DEF Complete, Fail, Idles
  <1>13. CASE UNCHANGED vars
    BY <1>13 DEF vars, Idles
  <1> QED BY <1>1, <1>2, <1>3, <1>4, <1>6, <1>7, <1>8, <1>9, <1>10, <1>11, <1>12, <1>13
          DEF Next, Agent, Revoking, Kinds

\* The step a run does next has the next number, and is added to its journal.
LEMMA AppendNumbered ==
    ASSUME NEW r, NEW q, NEW step \in Step, r.steps \in Seq(Step), Numbered(r),
           step.seq = Len(r.steps) + 1, q.steps = Append(r.steps, step)
    PROVE  /\ Numbered(q)
           /\ JournalOf(q) = JournalOf(r) \cup {step}
           /\ \A s \in JournalOf(r) : s.seq # step.seq
  <1> DEFINE n == Len(r.steps)
  <1>1. /\ n \in Nat /\ DOMAIN r.steps = 1..n
        /\ DOMAIN q.steps = 1..(n + 1)
        /\ q.steps[n + 1] = step
        /\ \A i \in 1..n : q.steps[i] = r.steps[i]
    OBVIOUS
  <1>2. step.seq = n + 1
    OBVIOUS
  <1> HIDE DEF n
  <1>3. 1..(n + 1) = 1..n \cup {n + 1}
    BY <1>1
  <1>4. Numbered(q)
    BY <1>1, <1>2, <1>3 DEF Numbered
  <1>5. JournalOf(q) = JournalOf(r) \cup {step}
    BY <1>1, <1>3 DEF JournalOf
  <1>6. \A s \in JournalOf(r) : s.seq # step.seq
    BY <1>1, <1>2 DEF JournalOf, Numbered
  <1> QED BY <1>4, <1>5, <1>6

\* Nothing is numbered, and nothing counts.
LEMMA NoSteps ==
    ASSUME NEW r, r.steps = <<>>
    PROVE  Numbered(r) /\ JournalOf(r) = {} /\ \A kind : StepsOf(r, kind) = {}
  BY DEF Numbered, JournalOf, StepsOf

LEMMA NothingDone == NewRun.steps = <<>> /\ NoCheckpoint.steps = <<>>
  BY DEF NewRun, NoCheckpoint

LEMMA InitJournalTrue == Init => JournalTrue
  BY NoSteps, NothingDone DEF Init, JournalTrue

\* The checkpoint is of the run, or is as it was.
LEMMA SaveNumbered ==
    ASSUME JournalTrue, Numbered(run'), saved' \in {saved, NoCheckpoint} \/ Save(run')
    PROVE  Numbered(saved')
  <1>1. CASE saved' = NoCheckpoint
    BY <1>1, NoSteps, NothingDone
  <1>2. CASE Save(run') /\ Graph
    <2>1. saved'.steps = run'.steps
      BY <1>2 DEF Save
    <2> QED BY <2>1 DEF Numbered
  <1>3. CASE saved' = saved
    BY <1>3 DEF JournalTrue
  <1> QED BY <1>1, <1>2, <1>3 DEF Save

LEMMA NextJournalTrue == TypeInv /\ TruthInv /\ JournalTrue /\ [Next]_vars => JournalTrue'
  <1> SUFFICES ASSUME TypeInv, TruthInv, JournalTrue, [Next]_vars
               PROVE  JournalTrue'
    OBVIOUS
  <1>1. attempt \in Nat /\ faults \in Nat /\ (pc \in Running => attempt # 0)
    BY AttemptsAreNumbers DEF TypeInv, TypeOK, AttemptsPaid
  <1>2. CASE Start
    <2>1. PICK from \in {saved, NoCheckpoint} : run'.steps = from.steps
      BY StartRun, <1>2
    <2>2. Numbered(run')
      BY <2>1, NoSteps, NothingDone DEF JournalTrue, Numbered
    <2>3. Numbered(saved')
      BY <1>2, <2>2, SaveNumbered, StartRun
    <2>4. attempt' = attempt + 1 /\ journal' = journal
      BY <1>2 DEF Start
    <2>5. ASSUME attempt' = 1
          PROVE  journal' = JournalOf(run')
      <3>1. journal = {} /\ run'.steps = <<>>
        BY <1>1, <2>1, <2>4, <2>5, NothingDone DEF JournalTrue
      <3> QED BY <2>4, <3>1, NoSteps
    <2> QED BY <1>1, <2>2, <2>3, <2>4, <2>5 DEF JournalTrue
  <1>3. ASSUME NEW kind \in Kinds, NEW detail, Appends(kind, detail)
        PROVE  JournalTrue'
    <2> DEFINE step == NextStep(run, kind, detail)
    <2>1. /\ Numbered(run') /\ JournalOf(run') = JournalOf(run) \cup {step}
          /\ \A s \in JournalOf(run) : s.seq # step.seq
      <3>1. /\ run.steps \in Seq(Step) /\ Numbered(run) /\ step \in Step
            /\ run'.steps = Append(run.steps, step)
        BY <1>3, RunFields DEF Appends, JournalTrue
      <3>2. step.seq = Len(run.steps) + 1
        BY DEF NextStep
      <3> HIDE DEF step
      <3> QED BY <3>1, <3>2, AppendNumbered
    <2>2. Numbered(saved')
      BY <1>3, <2>1, SaveNumbered DEF Appends
    <2>3. ASSUME attempt' = 1, faults' = 0
          PROVE  journal' = JournalOf(run')
      <3>1. attempt = 1 /\ faults = 0 /\ journal' = Appended(step)
        BY <1>1, <1>3, <2>3 DEF Appends, Report, Fault
      <3>2. journal = JournalOf(run)
        BY <1>3, <3>1 DEF Appends, JournalTrue
      <3> QED BY <2>1, <3>1, <3>2 DEF Appended
    <2> QED BY <1>1, <1>3, <2>1, <2>2, <2>3 DEF Appends, JournalTrue
  <1>4. CASE Idles
    <2>1. Numbered(run')
      BY <1>4, NoSteps DEF Idles, JournalTrue, Numbered
    <2>2. Numbered(saved')
      BY <1>4, <2>1, SaveNumbered DEF Idles
    <2>3. attempt' = 0 => journal' = {} /\ saved' = NoCheckpoint
      BY <1>1, <1>4 DEF Idles, JournalTrue
    <2>4. attempt' = 1 /\ faults' = 0 /\ pc' \in Running \cup {"done"} => journal' = JournalOf(run')
      BY <1>4 DEF Idles, JournalTrue, JournalOf
    <2> QED BY <2>1, <2>2, <2>3, <2>4 DEF JournalTrue
  <1> QED BY <1>2, <1>3, <1>4, NextSteps

LEMMA InitJournalWithin == Init => JournalWithin
  BY DEF Init, JournalWithin, Running

\* A run adds to its steps before it journals them, and only a fault or a retry
\* leaves a run the journal of another.
LEMMA NextJournalWithin ==
    TypeInv /\ TruthInv /\ JournalTrue /\ JournalWithin /\ [Next]_vars => JournalWithin'
  <1> SUFFICES ASSUME TypeInv, TruthInv, JournalTrue, JournalWithin, [Next]_vars
               PROVE  JournalWithin'
    OBVIOUS
  <1>0. faults \in Nat /\ tries \in Nat
    BY DEF TypeInv, TypeOK
  <1>1. CASE Start
    <2>1. /\ pc = "queued" /\ pc' \in {"decide", "assess"}
          /\ UNCHANGED <<tries, faults, journal>>
      BY <1>1, StartRun DEF Start
    <2> QED BY <2>1 DEF JournalWithin
  <1>2. ASSUME NEW kind \in Kinds, NEW detail, Appends(kind, detail)
        PROVE  JournalWithin'
    <2> DEFINE step == NextStep(run, kind, detail)
    <2>1. JournalOf(run') = JournalOf(run) \cup {step}
      <3>1. /\ run.steps \in Seq(Step) /\ Numbered(run) /\ step \in Step
            /\ run'.steps = Append(run.steps, step)
        BY <1>2, RunFields DEF Appends, JournalTrue
      <3>2. step.seq = Len(run.steps) + 1
        BY DEF NextStep
      <3> HIDE DEF step
      <3> QED BY <3>1, <3>2, AppendNumbered
    <2>2. /\ pc \in Running /\ pc' \in Running /\ tries' = tries
          /\ faults' = 0 => faults = 0 /\ journal' = Appended(step)
      BY <1>0, <1>2 DEF Appends, Report, Fault
    <2>3. Appended(step) \subseteq journal \cup {step}
      BY DEF Appended
    <2> HIDE DEF step
    <2> QED BY <2>1, <2>2, <2>3 DEF JournalWithin, Running
  <1>3. CASE Idles
    <2>1. ASSUME faults' = 0, tries' = 0, pc' = "queued"
          PROVE  journal' = {}
      BY <1>3, <2>1 DEF Idles, JournalWithin
    <2>2. ASSUME faults' = 0, tries' = 0, pc' \in Running \cup {"done"}
          PROVE  journal' \subseteq JournalOf(run')
      <3>1. /\ faults = 0 /\ tries = 0 /\ pc \in Running \cup {"done"}
            /\ run'.steps = run.steps /\ journal' = journal
        BY <1>3, <2>2 DEF Idles, Running
      <3> QED BY <3>1 DEF JournalWithin, JournalOf
    <2>3. ASSUME pc' = "done"
          PROVE  results'.scanned = Scanned(run')
      <3>1. run'.steps = run.steps
        BY <1>3, <2>3 DEF Idles
      <3>2. Scanned(run') = Scanned(run)
        BY <3>1 DEF Scanned, ChainsOf, StepsOf
      <3> QED BY <1>3, <2>3, <3>2 DEF Idles, Stored, JournalWithin
    <2> QED BY <2>1, <2>2, <2>3 DEF JournalWithin
  <1> QED BY <1>1, <1>2, <1>3, NextSteps

\* A step is one more of its kind, and there are no more of a kind than steps.
LEMMA StepsOfAppend ==
    ASSUME NEW r, NEW q, NEW step \in Step, r.steps \in Seq(Step),
           q.steps = Append(r.steps, step)
    PROVE  /\ \A kind : /\ StepsOf(q, kind) = IF step.kind = kind
                                             THEN StepsOf(r, kind) \cup {Len(r.steps) + 1}
                                             ELSE StepsOf(r, kind)
                        /\ StepsOf(r, kind) \subseteq 1..Len(r.steps)
           /\ Len(r.steps) \in Nat
  <1> DEFINE n == Len(r.steps)
  <1>1. /\ n \in Nat /\ DOMAIN r.steps = 1..n
        /\ DOMAIN q.steps = 1..(n + 1)
        /\ q.steps[n + 1] = step
        /\ \A i \in 1..n : q.steps[i] = r.steps[i]
    OBVIOUS
  <1> HIDE DEF n
  <1>2. 1..(n + 1) = 1..n \cup {n + 1}
    BY <1>1
  <1>3. ASSUME NEW kind
        PROVE  /\ StepsOf(q, kind) = IF step.kind = kind THEN StepsOf(r, kind) \cup {n + 1}
                                                         ELSE StepsOf(r, kind)
               /\ StepsOf(r, kind) \subseteq 1..n
    BY <1>1, <1>2 DEF StepsOf
  <1> QED BY <1>1, <1>3 DEF n

\* Among the first n steps are at most n.
LEMMA AtMost ==
    ASSUME NEW n \in Nat, NEW S \in SUBSET (1..n)
    PROVE  IsFiniteSet(S) /\ Cardinality(S) \in Nat /\ Cardinality(S) <= n
  <1>1. IsFiniteSet(1..n) /\ Cardinality(1..n) = n
    BY FS_Interval
  <1> QED BY <1>1, FS_Subset, FS_CardinalityType

LEMMA EmptyInBudget ==
    ASSUME NEW r, r.steps = <<>>
    PROVE  InBudget(r)
  <1>1. StepsOf(r, "scan") = {} /\ StepsOf(r, "scan") \cup StepsOf(r, "degraded") = {}
    BY NoSteps
  <1>2. Cardinality({}) = 0 /\ 0 <= MaxSteps
    BY FS_EmptySet, ScanAssumption
  <1> QED BY <1>1, <1>2 DEF InBudget

LEMMA InitBudgetKept == Init => BudgetKept
  BY EmptyInBudget, NothingDone DEF Init, BudgetKept

\* A run that is not spent has room for one step more.
LEMMA AppendInBudget ==
    ASSUME TypeInv, InBudget(run), NEW kind \in Kinds, NEW detail, Appends(kind, detail)
    PROVE  InBudget(run)'
  <1> DEFINE step == NextStep(run, kind, detail)
             n == Len(run.steps)
             S == StepsOf(run, "scan")
             D == StepsOf(run, "degraded")
  <1>1. step.kind = kind /\ step \in Step
    BY DEF Appends, NextStep
  <1>2. /\ \A k : StepsOf(run', k) = IF kind = k THEN StepsOf(run, k) \cup {n + 1}
                                                 ELSE StepsOf(run, k)
        /\ S \subseteq 1..n /\ D \subseteq 1..n
        /\ n \in Nat
    <2> HIDE DEF step
    <2>1. run'.steps = Append(run.steps, step) /\ run.steps \in Seq(Step)
      BY RunFields DEF Appends, step
    <2> QED BY <1>1, <2>1, StepsOfAppend
  <1> HIDE DEF step, n, S, D
  <1>3. setting' = setting
    BY DEF Appends
  <1>4. ASSUME kind = "scan", Graph
        PROVE  Cardinality(StepsOf(run', "scan")) <= MaxSteps
    <2>1. Cardinality(S) < MaxSteps
      <3>1. ~(Cardinality(S) >= MaxSteps)
        BY <1>4 DEF Appends, Spent, Workflow, Loop, Graph, S
      <3>2. Cardinality(S) \in Nat
        BY <1>2, AtMost
      <3> QED BY <3>1, <3>2, ScanAssumption
    <2>2. IsFiniteSet(S) /\ Cardinality(S) \in Nat /\ n + 1 \notin S
      BY <1>2, AtMost
    <2>3. Cardinality(S \cup {n + 1}) = Cardinality(S) + 1
      BY <2>2, FS_AddElement
    <2>4. StepsOf(run', "scan") = S \cup {n + 1}
      BY <1>2, <1>4 DEF S
    <2>5. Cardinality(S) + 1 <= MaxSteps
      BY <2>1, <2>2, ScanAssumption
    <2> QED BY <2>3, <2>4, <2>5
  <1>5. ASSUME kind \in {"scan", "degraded"}, Loop
        PROVE  /\ Cardinality(StepsOf(run', "scan")) <= MaxSteps
               /\ Cardinality(StepsOf(run', "scan") \cup StepsOf(run', "degraded")) <= MaxSteps
    <2>1. n + 1 <= MaxSteps
      <3>1. Spent <=> n >= MaxSteps
        BY <1>5 DEF Spent, Workflow, Loop, Graph, n
      <3>2. ~Spent
        BY <1>5 DEF Appends
      <3> QED BY <1>2, <3>1, <3>2, ScanAssumption
    <2>2. /\ StepsOf(run', "scan") \subseteq 1..(n + 1)
          /\ StepsOf(run', "degraded") \subseteq 1..(n + 1)
      <3>1. 1..n \cup {n + 1} = 1..(n + 1)
        BY <1>2
      <3> QED BY <1>2, <3>1 DEF S, D
    <2>3. n + 1 \in Nat
      BY <1>2
    <2>4. /\ Cardinality(StepsOf(run', "scan")) <= n + 1
          /\ Cardinality(StepsOf(run', "scan") \cup StepsOf(run', "degraded")) <= n + 1
          /\ Cardinality(StepsOf(run', "scan")) \in Nat
          /\ Cardinality(StepsOf(run', "scan") \cup StepsOf(run', "degraded")) \in Nat
      BY <2>2, <2>3, AtMost
    <2> QED BY <2>1, <2>3, <2>4, ScanAssumption
  <1>6. CASE kind \notin {"scan", "degraded"}
    BY <1>2, <1>3, <1>6 DEF InBudget, S, D, Workflow, Loop
  <1>7. CASE kind = "degraded" /\ ~Loop
    BY <1>2, <1>3, <1>7 DEF InBudget, S, Workflow, Loop
  <1>8. CASE kind = "scan" /\ ~Loop
    <2>1. ~Workflow => Graph
      BY <1>8 DEF Workflow, Loop, Graph, TypeInv, TypeOK, Setting
    <2> QED BY <1>3, <1>4, <1>8, <2>1 DEF InBudget, Workflow, Loop
  <1> QED BY <1>3, <1>5, <1>6, <1>7, <1>8 DEF InBudget, Workflow, Loop

LEMMA NextBudgetKept == TypeInv /\ TruthInv /\ BudgetKept /\ [Next]_vars => BudgetKept'
  <1> SUFFICES ASSUME TypeInv, TruthInv, BudgetKept, [Next]_vars
               PROVE  BudgetKept'
    OBVIOUS
  <1>1. ASSUME InBudget(run)', setting' = setting,
               saved' \in {saved, NoCheckpoint} \/ Save(run')
        PROVE  BudgetKept'
    <2>1. CASE saved' = NoCheckpoint
      <3>1. InBudget(NoCheckpoint)
        BY EmptyInBudget, NothingDone
      <3>2. InBudget(saved)'
        BY <1>1, <2>1, <3>1 DEF InBudget, Workflow, Loop
      <3> QED BY <1>1, <3>2 DEF BudgetKept
    <2>2. CASE saved' = saved
      BY <1>1, <2>2 DEF BudgetKept, InBudget, Workflow, Loop
    <2>3. CASE Save(run') /\ Graph
      <3>1. saved'.steps = run'.steps
        BY <2>3 DEF Save
      <3> QED BY <1>1, <3>1 DEF BudgetKept, InBudget, StepsOf
    <2> QED BY <1>1, <2>1, <2>2, <2>3 DEF Save
  <1>2. ASSUME NEW r \in {run, saved, NewRun, NoCheckpoint}, run'.steps = r.steps,
               setting' = setting
        PROVE  InBudget(run)'
    <2>1. InBudget(r)
      BY EmptyInBudget, NothingDone DEF BudgetKept
    <2> QED BY <1>2, <2>1 DEF InBudget, StepsOf, Workflow, Loop
  <1>3. CASE Start
    <2>1. PICK from \in {saved, NoCheckpoint} : run'.steps = from.steps
      BY StartRun, <1>3
    <2>2. Save(run') /\ setting' = setting
      BY <1>3, StartRun DEF Start
    <2> QED BY <1>1, <1>2, <2>1, <2>2
  <1>4. ASSUME NEW kind \in Kinds, NEW detail, Appends(kind, detail)
        PROVE  BudgetKept'
    BY <1>1, <1>4, AppendInBudget DEF Appends, BudgetKept
  <1>5. CASE Idles
    <2>1. run'.steps \in {run.steps, NewRun.steps}
      BY <1>5, NothingDone DEF Idles
    <2> QED BY <1>1, <1>2, <1>5, <2>1 DEF Idles
  <1> QED BY <1>3, <1>4, <1>5, NextSteps

-----------------------------------------------------------------------------
(***************************************************************************)
(* What is executed is found, recorded and paid for.                       *)
(***************************************************************************)
LEMMA InitRecordsTrue == Init => RecordsTrue
  BY DEF Init, RecordsTrue, NewRun, Running

\* What was executed is of the runs so far.
LEMMA ExecutedBefore ==
    ASSUME TypeInv, TruthInv
    PROVE  attempt \in Nat /\ \A e \in executions : e.by \in Nat /\ e.by <= attempt
  BY AttemptsAreNumbers DEF TruthInv, ExecutionsJustified, TypeInv, TypeOK, Execution, Attempts

\* A step that neither revokes nor delivers, and leaves nothing to revoke.
LEMMA RestingRecords ==
    ASSUME TypeInv, TruthInv, RecordsTrue,
           run'.todo = {}, pc' \notin {"revoke", "poll", "done"},
           \/ pc' \notin Running
           \/ attempt' = attempt + 1
           \/ attempt' = attempt /\ pc \in Running /\ run.found \subseteq run'.found,
           UNCHANGED <<executions, results>>
    PROVE  RecordsTrue'
  <1>1. ASSUME NEW e \in executions, e.by = attempt', pc' \in Running
        PROVE  e.of \in run'.found
    BY <1>1, ExecutedBefore DEF RecordsTrue
  <1> QED BY <1>1 DEF RecordsTrue

\* The run goes on with its revocations: what it has executed is in its todo.
LEMMA RevokingRecords ==
    ASSUME TypeInv, TruthInv, RecordsTrue, pc \in {"revoke", "poll"}, pc' \in {"revoke", "poll"},
           NEW a \in run.todo, executions' = executions \/ executions' = Accepted(a),
           run'.todo \subseteq run.todo, run'.found = run.found, run'.over = run.over,
           pc' = "poll" => run'.at \in run'.todo,
           UNCHANGED <<setting, attempt, results>>
    PROVE  RecordsTrue'
  <1>1. \A e \in executions' : e \in executions \/ (e.of = a /\ e.by = attempt)
    BY DEF Accepted
  <1>2. attempt # results.by /\ a \in run.found
    BY DEF TruthInv, ResultsTrue, Running, RecordsTrue
  <1> QED BY <1>1, <1>2 DEF RecordsTrue, Running, Graph

LEMMA DeliveringRecords ==
    ASSUME TypeInv, TruthInv, RecordsTrue, Delivering, results' = Stored,
           run' \in {run, NewRun}, pc' \notin Running, UNCHANGED <<attempt, executions>>
    PROVE  RecordsTrue'
  <1>1. pc \in Running /\ run.todo = {}
    BY DEF Delivering, Running, RecordsTrue
  <1>2. results'.by = attempt /\ results'.found = run.found
    BY DEF Stored
  <1>3. run'.todo = {}
    BY <1>1 DEF NewRun
  <1> QED BY <1>1, <1>2, <1>3 DEF RecordsTrue, Running

\* A transaction that ends is still the same run's, of the same approval.
LEMMA SettledRecords ==
    ASSUME TypeInv, RecordsTrue, NEW e \in executions, Complete(e) \/ Fail(e)
    PROVE  RecordsTrue'
  <1>1. \A d \in executions' : \E f \in executions : d.of = f.of /\ d.by = f.by
    BY DEF Complete, Fail, TypeInv, TypeOK, Execution
  <1>2. UNCHANGED <<setting, pc, run, attempt, results>>
    BY DEF Complete, Fail
  <1> QED BY <1>1, <1>2 DEF RecordsTrue, Graph

LEMMA NextRecordsTrue == TypeInv /\ TruthInv /\ RecordsTrue /\ [Next]_vars => RecordsTrue'
  <1> SUFFICES ASSUME TypeInv, TruthInv, RecordsTrue, [Next]_vars
               PROVE  RecordsTrue'
    OBVIOUS
  <1>1. CASE Start
    BY <1>1, StartRun, RestingRecords DEF Start
  <1>2. CASE StartFails \/ Errs \/ RefuseToDeliver \/ DeliverFails
    <2>1. run' = NewRun /\ pc' \in {"queued", "failed"}
      BY <1>2, RaiseType DEF StartFails, Errs, RefuseToDeliver, DeliverFails
    <2> QED BY <1>2, <2>1, RestingRecords
            DEF StartFails, Errs, RefuseToDeliver, DeliverFails, NewRun, Running
  <1>3. CASE Ask \/ Crash
    BY <1>3, RestingRecords DEF Ask, Crash, NewRun, Running
  <1>4. ASSUME NEW c \in Chains, Scan(c) \/ ScanFails(c)
        PROVE  RecordsTrue'
    <2>1. run'.todo = run.todo /\ run.found \subseteq run'.found
      BY <1>4, ScanStep, ScanFailsStep DEF Scanning
    <2>2. pc = "decide" /\ run.todo = {}
      BY <1>4 DEF Scan, ScanFails, MayScan, Deciding, RecordsTrue
    <2> QED BY <1>4, <2>1, <2>2, RestingRecords DEF Scan, ScanFails, Running
  <1>5. CASE Finish
    <2>1. pc = "decide" /\ run.todo = {}
      BY <1>5 DEF Finish, Deciding, RecordsTrue
    <2> QED BY <1>5, <2>1, FinishStep, RestingRecords DEF Appending, Finish, Running
  <1>6. CASE ReportDelta
    BY <1>6, ReportStep, RestingRecords DEF Appending, ReportDelta, Running
  <1>7. CASE Assess
    <2>1. /\ run'.found = run.found /\ run'.todo \subseteq run.found
          /\ ~Graph /\ run'.todo # {} => ~run'.over
      BY <1>7 DEF Assess, ToAutoRevoke, Revokes, TypeInv, TypeOK, Run
    <2>2. pc \in Running /\ pc' = "revoke" /\ UNCHANGED <<setting, attempt, executions, results>>
      BY <1>7 DEF Assess, Assessing, Running
    <2> QED BY <2>1, <2>2 DEF RecordsTrue, Graph
  <1>8. CASE ReadWallet
    <2>1. run'.found = run.found /\ run'.todo = run.todo /\ run'.over = run.over
      BY <1>8 DEF ReadWallet, TypeInv, TypeOK, Run
    <2> QED BY <1>8, <2>1 DEF ReadWallet, RecordsTrue, Running, Graph
  <1>9. ASSUME NEW a \in Approvals, Revoking(a)
        PROVE  RecordsTrue'
    <2>1. pc = "revoke" /\ a \in run.todo
      BY <1>9 DEF Revoking, Refuse, Simulate, PostFails, PostReplyLost, Post, MayExecute
    <2>2. CASE Post(a)
      <3>1. /\ run'.todo = run.todo /\ run'.found = run.found /\ run'.over = run.over
            /\ run'.at = a
        BY <2>2 DEF Post, TypeInv, TypeOK, Run
      <3> QED BY <2>1, <2>2, <3>1, RevokingRecords DEF Post
    <2>3. CASE ~Post(a)
      <3>1. PICK o \in Outcomes : Outcome(a, o)
        BY <1>9, <2>3 DEF Revoking, Refuse, Simulate, PostFails, PostReplyLost, Outcomes
      <3>2. executions' = executions \/ executions' = Accepted(a)
        BY <1>9, <2>3 DEF Revoking, Refuse, Simulate, PostFails, PostReplyLost
      <3>3. results' = results
        BY <3>1 DEF Outcome
      <3> QED BY <2>1, <3>1, <3>2, <3>3, OutcomeStep, RevokingRecords DEF Appending, Outcome
    <2> QED BY <2>2, <2>3
  <1>10. CASE PollEnds \/ PollGivesUp
    <2>1. PICK o \in Outcomes : Outcome(run.at, o) /\ pc = "poll" /\ executions' = executions
      BY <1>10 DEF PollEnds, PollGivesUp, Outcomes
    <2>2. run.at \in run.todo /\ run.at \in Approvals
      BY <2>1 DEF RecordsTrue, TruthInv, OutcomesTrue
    <2> QED BY <2>1, <2>2, OutcomeStep, RevokingRecords DEF Appending, Outcome
  <1>11. CASE Deliver
    BY <1>11, DeliveringRecords DEF Deliver, Running
  <1>12. CASE DeliverReplyLost
    BY <1>12, RaiseType, DeliveringRecords DEF DeliverReplyLost, Running
  <1>13. CASE Answer \/ LoseCheckpoint
    BY <1>13, RestingRecords DEF Answer, LoseCheckpoint, RecordsTrue, Running
  <1>14. ASSUME NEW e \in executions, Complete(e) \/ Fail(e)
         PROVE  RecordsTrue'
    BY <1>14, SettledRecords
  <1>15. CASE UNCHANGED vars
    BY <1>15 DEF vars, RecordsTrue, Graph
  <1> QED BY <1>1, <1>2, <1>3, <1>4, <1>5, <1>6, <1>7, <1>8, <1>9, <1>10, <1>11, <1>12,
             <1>13, <1>14, <1>15 DEF Next, Agent, Revoking

-----------------------------------------------------------------------------
(***************************************************************************)
(* The theorems.                                                           *)
(***************************************************************************)
LEMMA InvIsLayers ==
    ScanInv <=> TypeInv /\ TruthInv /\ CoverageTrue /\ SightTrue /\ JournalTrue /\ JournalWithin
                /\ BudgetKept /\ RecordsTrue
  BY DEF ScanInv, TypeInv, TruthInv

\* The inductive invariant always holds.
THEOREM ScanInvAlways == Spec => []ScanInv
  <1>1. Init => ScanInv
    BY InitTypeInv, InitTruthInv, InitCoverageTrue, InitSightTrue, InitJournalTrue,
       InitJournalWithin, InitBudgetKept, InitRecordsTrue, InvIsLayers
  <1>2. ScanInv /\ [Next]_vars => ScanInv'
    <2> SUFFICES ASSUME ScanInv, [Next]_vars
                 PROVE  ScanInv'
      OBVIOUS
    <2>1. /\ TypeInv /\ TruthInv /\ CoverageTrue /\ SightTrue
          /\ JournalTrue /\ JournalWithin /\ BudgetKept /\ RecordsTrue
      BY InvIsLayers
    <2>2. PollsApproval
      BY <2>1 DEF TruthInv, OutcomesTrue, PollsApproval
    <2>3. TypeInv' /\ TruthInv' /\ CoverageTrue' /\ SightTrue'
      BY <2>1, <2>2, NextTypeInv, NextTruthInv, NextCoverageTrue, NextSightTrue
    <2>4. JournalTrue' /\ JournalWithin' /\ BudgetKept' /\ RecordsTrue'
      BY <2>1, NextJournalTrue, NextJournalWithin, NextBudgetKept, NextRecordsTrue
    <2> QED BY <2>3, <2>4, InvIsLayers DEF ScanInv, TypeInv, TruthInv
  <1> QED BY <1>1, <1>2, PTL DEF Spec

\* Every variable keeps its type.
THEOREM ScanTypeCorrect == Spec => []TypeOK
  <1>1. ScanInv => TypeOK
    BY DEF ScanInv
  <1> QED BY <1>1, ScanInvAlways, PTL

\* A delivered finding that says revoked is no longer in force on chain.
THEOREM RevokedMeansCleared == Spec => []RevokedIsCleared
  <1>1. ScanInv => RevokedIsCleared
    BY DEF ScanInv, ResultsTrue
  <1> QED BY <1>1, ScanInvAlways, PTL

\* For a finding delivered as not attempted, its run had nothing executed.
THEOREM NotAttemptedMeansUntouched == Spec => []NotAttemptedIsUntouched
  <1>1. ScanInv => NotAttemptedIsUntouched
    BY DEF ScanInv, ResultsTrue
  <1> QED BY <1>1, ScanInvAlways, PTL

\* A delivery is about the chains its run covered and complete on them, over
\* pauses, retries and redeliveries.
THEOREM DeliveriesCoverTheirChains == Spec => []DeliveryIsItsCoverage
  <1>1. ScanInv => DeliveryIsItsCoverage
    BY DEF ScanInv, CoverageTrue
  <1> QED BY <1>1, ScanInvAlways, PTL

\* A delivery with a chain out of reach has looked at another one.
THEOREM DeliveriesAreNeverBlind == Spec => []NeverBlind
  <1>1. ScanInv => NeverBlind
    BY DEF ScanInv, SightTrue
  <1> QED BY <1>1, ScanInvAlways, PTL

\* The journal of a scan that needed one run, no report of it lost, is what
\* that run did, whichever way it ran: no two of its steps share a number.
THEOREM JournalsAreRuns == Spec => []JournalIsTheRun
  <1>1. ScanInv => JournalIsTheRun
    BY DEF ScanInv, JournalTrue, JournalIsTheRun, JournalOf
  <1> QED BY <1>1, ScanInvAlways, PTL

\* The journal names no chain that the delivery was not of, while no fault came
\* between and the message was not retried: coverage only drifts from what ran
\* when another run of the job has reported its steps before.
THEOREM CoverageDriftsByAnotherRun == Spec => [](faults = 0 /\ tries = 0 => CoverageIsWhatRan)
  <1>1. ScanInv /\ faults = 0 /\ tries = 0 => CoverageIsWhatRan
    <2> SUFFICES ASSUME ScanInv, faults = 0, tries = 0, pc = "done", NEW s \in journal,
                        s.kind = "scan"
                 PROVE  s.detail \in results.scanned
      BY DEF CoverageIsWhatRan, Covered
    <2>1. s \in JournalOf(run) /\ results.scanned = Scanned(run)
      BY DEF ScanInv, JournalWithin
    <2> QED BY <2>1 DEF JournalOf, Scanned, ChainsOf, StepsOf
  <1> QED BY <1>1, ScanInvAlways, PTL

\* No run scans more than its step budget, nor does a graph over its pause.
THEOREM ScansStayInBudget == Spec => []ScansBounded
  <1>1. ScanInv => ScansBounded
    BY DEF ScanInv, BudgetKept, InBudget, ScansBounded
  <1> QED BY <1>1, ScanInvAlways, PTL

\* Neither the workflow nor the hand-written loop has anything executed once it
\* is over its budget: only the graph goes on to its revocations regardless.
THEOREM OnlyTheGraphOverspends == Spec => [](~Graph => NoExecutionOverBudget)
  <1>1. ScanInv /\ ~Graph => NoExecutionOverBudget
    BY DEF ScanInv, RecordsTrue, NoExecutionOverBudget
  <1> QED BY <1>1, ScanInvAlways, PTL

\* Every transaction that the run which delivered had executed is of one of the
\* findings it delivered: what no row records was the attempt of another run.
THEOREM OnlyAnotherRunIsUnrecorded ==
    Spec => [](pc = "done" /\ (\A e \in executions : e.by = attempt) => AttemptsAreRecorded)
  <1>1. ScanInv /\ pc = "done" /\ (\A e \in executions : e.by = attempt) => AttemptsAreRecorded
    BY DEF ScanInv, RecordsTrue, AttemptsAreRecorded
  <1> QED BY <1>1, ScanInvAlways, PTL

\* A step of the agent or of its surroundings is a step of the contract, or
\* none: what is confirmed is dangerous, what is claimed was confirmed.
LEMMA NextKeepsContract ==
    ScanInv /\ [Next]_vars => [Contract!Next]_(Contract!vars)
  <1> SUFFICES ASSUME ScanInv, [Next]_vars
               PROVE  [Contract!Next]_(Contract!vars)
    OBVIOUS
  <1> USE DEF Contract!Next, Contract!vars
  <1>1. ASSUME live' = live, results' = results
        PROVE  UNCHANGED Contract!vars
    BY <1>1
  <1>2. ASSUME results' = Stored, live' = live, Delivering
        PROVE  Contract!Claim
    <2>1. \A a \in Approvals : run.outcome[a] = "revoked" => a \notin live
      BY DEF ScanInv, OutcomesTrue
    <2>2. /\ results'.found = run.found /\ results'.outcome = run.outcome
          /\ run.found \subseteq Approvals
      BY <1>2, RunFields DEF Stored, ScanInv, TypeInv
    <2> QED BY <1>2, <2>1, <2>2 DEF Contract!Claim
  <1>3. ASSUME NEW e \in executions, Complete(e)
        PROVE  Contract!Clear
    <2>1. /\ e.of \in Dangerous /\ e.of \in Approvals
          /\ live' = live \ {e.of} /\ results' = results
      BY <1>3 DEF Complete, ScanInv, ExecutionsJustified, TypeOK, Execution
    <2> QED BY <2>1 DEF Contract!Clear
  <1>4. CASE Deliver \/ DeliverReplyLost
    BY <1>2, <1>4 DEF Deliver, DeliverReplyLost
  <1>5. ASSUME NEW e \in executions, Fail(e)
        PROVE  UNCHANGED Contract!vars
    BY <1>1, <1>5 DEF Fail
  <1>6. CASE \E c \in Chains : Scan(c) \/ ScanFails(c)
    BY <1>1, <1>6 DEF Scan, ScanFails
  <1>7. CASE \E a \in Approvals : Revoking(a)
    BY <1>1, <1>7
       DEF Revoking, Refuse, Simulate, PostFails, PostReplyLost, Post, Outcome
  <1>8. CASE PollEnds \/ PollGivesUp
    BY <1>1, <1>8 DEF PollEnds, PollGivesUp, Outcome
  <1>9. CASE \/ Start \/ StartFails \/ Ask \/ Finish \/ Errs \/ RefuseToDeliver \/ Assess
             \/ ReadWallet \/ ReportDelta \/ DeliverFails \/ Crash \/ Answer
             \/ LoseCheckpoint \/ UNCHANGED vars
    BY <1>1, <1>9
       DEF Start, StartFails, Ask, Finish, Errs, RefuseToDeliver, Assess, ReadWallet,
           ReportDelta, DeliverFails, Crash, Answer, LoseCheckpoint, vars
  <1> QED BY <1>3, <1>4, <1>5, <1>6, <1>7, <1>8, <1>9 DEF Next, Agent, Revoking

\* Only dangerous allowances are cleared, and a delivery claims to have revoked
\* only what was cleared, whatever runs, retries and failures it takes.
THEOREM AgentImplementsContract == Spec => ImplementsContract
  <1>1. Init => Contract!Init
    BY DEF Init, Contract!Init, NoResults
  <1> QED BY <1>1, NextKeepsContract, ScanInvAlways, PTL
          DEF Spec, ImplementsContract, Contract!Spec
=============================================================================

---------------------------- MODULE JobContract ----------------------------
(***************************************************************************)
(* What a scan job promises to its owner, as ScanJob's comments and        *)
(* ADR-016/032 state it: each operation on a job is one atomic step on its *)
(* status.  A completed job stays completed, a failed one can only be      *)
(* completed late, a paused one waits for its owner, and a job is never    *)
(* completed before its findings are stored.                               *)
(***************************************************************************)
CONSTANT Jobs

VARIABLES status,      \* [Jobs -> status], "none" before the launch
          delivered    \* the jobs whose findings are in the table

vars == <<status, delivered>>

Init == /\ status = [j \in Jobs |-> "none"]
        /\ delivered = {}

Move(j, from, to) ==
    /\ status[j] \in from
    /\ status' = [status EXCEPT ![j] = to]
    /\ UNCHANGED delivered

Launch(j)   == Move(j, {"none"}, "pending")
Start(j)    == Move(j, {"pending"}, "running")
Ask(j)      == Move(j, {"pending", "running"}, "awaiting_input")
Answer(j)   == Move(j, {"awaiting_input"}, "pending")
Complete(j) == /\ j \in delivered
               /\ Move(j, {"pending", "running", "awaiting_input", "failed"},
                       "completed")
Fail(j)     == Move(j, {"pending", "running", "awaiting_input"}, "failed")

Deliver(j)  == /\ status[j] # "none"
               /\ delivered' = delivered \cup {j}
               /\ UNCHANGED status

Next == \E j \in Jobs :
           \/ Launch(j) \/ Start(j) \/ Ask(j) \/ Answer(j)
           \/ Complete(j) \/ Fail(j) \/ Deliver(j)

Spec == Init /\ [][Next]_vars
=============================================================================

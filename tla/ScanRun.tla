------------------------------ MODULE ScanRun ------------------------------
(***************************************************************************)
(* One run of a scan, as the agent process holds it in memory: the steps   *)
(* it took, the approvals it found and what became of those it revoked.    *)
(* The operators are the decisions the three ways of running a scan make   *)
(* from it (run_scan.py, run_agent_scan.py, langgraph_agent.py, models.py).*)
(*                                                                         *)
(* An approval is known by its key (chain, token, spender), and so already *)
(* deduplicated.  The reasons of steps, prices and tokens are left out: a  *)
(* run knows whether its cost crossed the cap.                             *)
(***************************************************************************)
EXTENDS Naturals, Sequences

CONSTANTS ChainIds,     \* the configured chains, in order
          Approvals,    \* the approvals the scanned wallet has given
          ChainOf,      \* [Approvals -> Chains]
          Dangerous,    \* the approvals classify_risk calls dangerous
          MaxSteps,     \* AGENT_MAX_STEPS
          GraphLimit,   \* decisions LangGraph's recursion limit leaves
          None          \* no chain, no approval

Chains == {ChainIds[i] : i \in DOMAIN ChainIds}

ASSUME ScanAssumption ==
    /\ ChainIds \in Seq(Chains)
    /\ ChainOf \in [Approvals -> Chains]
    /\ Dangerous \subseteq Approvals
    /\ MaxSteps \in Nat
    /\ GraphLimit \in Nat
    /\ None \notin Approvals \cup Chains

\* How a task runs: the workflow, the hand-written loop or the graph; whether a
\* model or DeterministicAgentPolicy decides; whether KeeperHub simulates and
\* executes as the scanned wallet; whether the run is a recurring one.
Setting == [orchestrator: {"workflow", "loop", "graph"},
            policy: {"model", "inorder"},
            simulate: BOOLEAN,
            delegated: BOOLEAN,
            recurring: BOOLEAN]

\* What a step is about: a chain, an approval or nothing.
Step == [seq: Nat \ {0}, kind: {"scan", "degraded"}, detail: Chains]
          \cup [seq: Nat \ {0}, kind: {"revoke"}, detail: Approvals]
          \cup [seq: Nat \ {0}, kind: {"finish", "report"}, detail: {None}]

\* RevocationStatus, without the "pending" nothing sets.
Outcomes == {"not_attempted", "simulated", "revoked", "failed"}

Run == [steps: Seq(Step),
        found: SUBSET Approvals,
        outcome: [Approvals -> Outcomes],
        over: BOOLEAN,              \* SpendGuard.exceeded
        left: 0..GraphLimit,        \* decisions before GraphRecursionError
        wallet: {"unread", "unknown", "other", "scanned"},
        todo: SUBSET Approvals,     \* still to be sent to revocation
        at: Approvals \cup {None}]  \* whose execution is being polled

NewRun == [steps |-> <<>>, found |-> {},
           outcome |-> [a \in Approvals |-> "not_attempted"],
           over |-> FALSE, left |-> GraphLimit, wallet |-> "unread",
           todo |-> {}, at |-> None]

\* The step the run takes next; every orchestrator numbers it after the last.
NextStep(run, kind, detail) ==
    [seq |-> Len(run.steps) + 1, kind |-> kind, detail |-> detail]

StepsOf(run, kind) ==
    {i \in DOMAIN run.steps : run.steps[i].kind = kind}

ChainsOf(run, kind) == {run.steps[i].detail : i \in StepsOf(run, kind)}

Scanned(run) == ChainsOf(run, "scan")
Degraded(run) == ChainsOf(run, "degraded")
Ended(steps) == \E i \in DOMAIN steps : steps[i].kind = "finish"
=============================================================================

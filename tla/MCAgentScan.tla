---------------------------- MODULE MCAgentScan ----------------------------
(***************************************************************************)
(* AgentScan for TLC: two chains and two approvals.  Refusals matter  *)
(* to a live key only, and a recurring scan takes every step that another  *)
(* takes and one more.                                                     *)
(***************************************************************************)
EXTENDS ScanInvariant

CONSTANTS c1, c2, a1, a2

MCChainIds == <<c1, c2>>
MCApprovals == {a1, a2}
MCChainOf == [a \in MCApprovals |-> IF a = a1 THEN c1 ELSE c2]
MCSameChain == [a \in MCApprovals |-> c1]

Of(orchestrator) ==
    {s \in Setting : /\ s.orchestrator = orchestrator
                     /\ s.simulate => s.delegated}
Recurring(settings) == {s \in settings : s.recurring}

AllSettings == UNION {Of(o) : o \in {"workflow", "loop", "graph"}}
LoopSettings == Recurring(Of("loop"))
GraphSettings == Recurring(Of("graph"))
WorkflowSettings == Of("workflow")
RecurringSettings == LoopSettings \cup GraphSettings
NoModel == {s \in LoopSettings : s.policy = "inorder"}
=============================================================================

---------------------------- MODULE MCAgentRouter ----------------------------
(* Small instances of AgentRouter for TLC. *)
EXTENDS AgentRouter, TLC

CONSTANTS
    m1, m2,    \* a weaker and a stronger model
    t1, t2,    \* threads
    i1, i2, a1, \* two ids of the TUI and one of App Server
    fast       \* a service tier

MCRank == [m \in Models |-> IF m = m1 THEN 0 ELSE 2]

\* One event short of a +5, and one event short of losing the 70% majority.
Zero == [kind \in FeedbackKinds |-> 0]
MCPriorCounts ==
    {[Zero EXCEPT !["underpowered"] = 2], [Zero EXCEPT !["overkill"] = 3]}
MCZeroCounts == {Zero}

Symmetry == Permutations(Threads) \cup Permutations(Ids)

\* The route inside a forwarded request is looked at while the request is
\* tracked and in the step that sends it; afterwards it cannot matter.
View ==
    <<threads, pending, resumes, decisions, feedback, prior, calibration,
      [i \in Ids |-> IF sent[i] = None \/ pending[i] # None THEN sent[i]
                     ELSE [sent[i] EXCEPT !.model = None, !.effort = None, !.tier = None]]>>
=============================================================================

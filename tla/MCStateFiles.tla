---------------------------- MODULE MCStateFiles ----------------------------
(***************************************************************************)
(* Two processes at a time and two repositories.  Earlier sessions left     *)
(* three underpowered reports in the first and none or two overkill ones in *)
(* the second, so that one more report, or the tune command, may change an  *)
(* entry.                                                                   *)
(***************************************************************************)
EXTENDS StateFiles, TLC

CONSTANTS p1, p2, a1, a2, a3, b1, b2, A, B

MCProcesses == {p1, p2}
MCPast == {a1, a2, a3, b1, b2}
MCRepos == {A, B}

Session(repo, kind, source) == [op |-> "session", repo |-> repo, kind |-> kind, source |-> source]
Tune(op, repo) == [Session(repo, "right", "local") EXCEPT !.op = op]

Earlier ==
    [p \in {a1, a2, a3} |-> Session(A, "underpowered", "local")] @@
    [p \in {b1, b2} |-> Session(B, "overkill", "local")]

\* Sessions in two repositories and in one, with reports that agree and disagree;
\* a session while the tune command applies or resets an entry.
MCWorkloads ==
    {p1 :> pair[1] @@ p2 :> pair[2] @@ Earlier : pair \in
        { <<Session(A, "underpowered", "local"), Session(B, "overkill", "local")>>,
          <<Session(B, "overkill", "local"), Session(B, "right", "explicit")>>,
          <<Session(B, "overkill", "local"), Tune("reset", A)>>,
          <<Session(A, "overkill", "native"), Tune("apply", A)>> }}

MCBeginnings == {{a1, a2, a3}, {a1, a2, a3, b1, b2}}
=============================================================================

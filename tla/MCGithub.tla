------------------------------ MODULE MCGithub ------------------------------
(***************************************************************************)
(* The three halves of the GitHub pass in one run: runners, repositories   *)
(* and approval banners.  They share no state but the instant they begin,  *)
(* so a behaviour follows the one that `part` names and the other two stay *)
(* as they began.                                                          *)
(***************************************************************************)
EXTENDS RunnerRoster, RepoPass, ApprovalWatch

CONSTANTS o1, o2, n1, a1, a2, r1, r2

VARIABLE part

MCOrg      == {o1, o2}
MCRunner   == {n1}
MCAccount  == {a1, a2}
MCRepo     == {r1}
MCGateRepo == {r1, r2}

githubVars == <<rosterVars, repoVars, approvalVars, part>>

\* What is not followed has one beginning.
MCInit ==
    /\ part \in {"runners", "repos", "gates"}
    /\ RosterInit /\ RepoInit /\ ApprovalInit
    /\ part # "repos" => account = [a \in Account |-> "on"] /\ stored = {}
    /\ part # "gates" => parked = [r \in GateRepo |-> 0] /\ approvals

RunnersPart == /\ part = "runners" /\ RosterNext
               /\ UNCHANGED <<repoVars, approvalVars, part>>
ReposPart   == /\ part = "repos" /\ RepoNext
               /\ UNCHANGED <<rosterVars, approvalVars, part>>
GatesPart   == /\ part = "gates" /\ ApprovalNext
               /\ UNCHANGED <<rosterVars, repoVars, part>>

MCSpec ==
    /\ MCInit /\ [][RunnersPart \/ ReposPart \/ GatesPart]_githubVars
    /\ WF_rosterVars(part = "runners" /\ GithubLoop)
    /\ WF_rosterVars(part = "runners" /\ ForgetRow)
=============================================================================

------------------------------ MODULE RepoPass ------------------------------
(***************************************************************************)
(* The repositories half of the GitHub pass: accounts with their tokens,   *)
(* the tracked repositories and the account each names, and what the Repos *)
(* panel says of the credentials, of every account and of every row.  Any  *)
(* edit in Settings may fall into a pass that is waiting for GitHub.       *)
(***************************************************************************)
EXTENDS Naturals, FiniteSets

CONSTANTS
    Account,    \* accounts, each made at most once
    Repo,       \* repositories
    Nobody,     \* no account: of a repository, and the identity of the v1 token
    Untracked   \* home of a repository that is not in the portfolio

ASSUME RepoPassAssumption ==
    Nobody \notin Account /\ Untracked \notin Account /\ Nobody # Untracked

VARIABLES
    account,    \* "unmade", "on", "off" or "removed"
    stored,     \* whose token the credential store holds
    home,       \* the account a tracked repository names
    hidden,     \* tracked repositories that are switched off
    rpc,        \* the pass: "asleep" or "fetch"
    plan,       \* what the pass under way decided before its first request
    rwake,      \* github_wake
    token,      \* the panel: "unknown", "absent" or "present"
    unreadable, \* the panel: the credential store would not answer
    shown,      \* the panel: NotYet, or a row per repository
    failing,    \* the panel: accounts its footer names
    orphaned    \* the panel: repositories of no account

setVars  == <<account, stored, home, hidden>>
panel    == <<token, unreadable, shown, failing, orphaned>>
repoVars == <<setVars, rpc, plan, rwake, panel>>

Identity == Account \union {Nobody}

\* No pass has said anything of any repository.
NotYet == [r \in Repo |-> "not yet"]
NoPlan == [fetched |-> {}, dark |-> {}, failed |-> {}, orphans |-> {}]
Row    == {"none", "unreachable", "read"}

RepoInit ==
    /\ account \in [Account -> {"unmade", "on"}]
    /\ stored \in {{}, {Nobody}}
    /\ home = [r \in Repo |-> Untracked] /\ hidden = {}
    /\ rpc = "asleep" /\ plan = NoPlan /\ rwake = TRUE
    /\ token = "unknown" /\ unreadable = FALSE
    /\ shown = NotYet /\ failing = {} /\ orphaned = {}

Made == {a \in Account : account[a] \in {"on", "off"}}

----------------------------------------------------------------------------
(* Settings: each edit is saved under the store's lock and wakes the loop. *)

Edit == rwake' = TRUE /\ UNCHANGED <<rpc, plan, panel>>

\* A new account, with or without a token that the credential store took.
AddAccount(a) ==
    /\ Edit /\ account[a] = "unmade"
    /\ account' = [account EXCEPT ![a] = "on"]
    /\ stored' \in {stored, stored \union {a}}
    /\ UNCHANGED <<home, hidden>>

\* A token typed into the account's form.
UpdateAccount(a) ==
    /\ Edit /\ a \in Made /\ stored' = stored \union {a}
    /\ UNCHANGED <<account, home, hidden>>

SetAccountEnabled(a) ==
    /\ Edit /\ a \in Made
    /\ account' = [account EXCEPT ![a] = IF @ = "on" THEN "off" ELSE "on"]
    /\ UNCHANGED <<stored, home, hidden>>

\* Its token goes with it, its repositories go on naming it.
RemoveAccount(a) ==
    /\ Edit /\ a \in Made
    /\ account' = [account EXCEPT ![a] = "removed"]
    /\ stored' = stored \ {a}
    /\ UNCHANGED <<home, hidden>>

\* `new_repo`: the account is deduced only when there is exactly one.
NewRepoHome == IF Cardinality(Made) = 1 THEN CHOOSE a \in Made : TRUE ELSE Nobody

AddRepo(r) ==
    /\ Edit /\ home[r] = Untracked
    /\ \E a \in Made \union {NewRepoHome} : home' = [home EXCEPT ![r] = a]
    /\ UNCHANGED <<account, stored, hidden>>

\* The discovery picker: it adds, adopts what no living account owns, and
\* removes only the account's own.
SetRepoTracked(a, r) ==
    /\ Edit /\ a \in Made
    /\ \/ home[r] \notin Made /\ home' = [home EXCEPT ![r] = a]
       \/ home[r] = a /\ home' = [home EXCEPT ![r] = Untracked]
    /\ hidden' = hidden \ {r}
    /\ home[r] \in {a, Untracked} \/ r \notin hidden
    /\ UNCHANGED <<account, stored>>

\* The portfolio row's "Fetched by".
SetRepoAccount(r) ==
    /\ Edit /\ home[r] # Untracked
    /\ \E a \in Made \union {Nobody} : home' = [home EXCEPT ![r] = a]
    /\ UNCHANGED <<account, stored, hidden>>

RemoveRepo(r) ==
    /\ Edit /\ home[r] # Untracked
    /\ home' = [home EXCEPT ![r] = Untracked] /\ hidden' = hidden \ {r}
    /\ UNCHANGED <<account, stored>>

SetRepoEnabled(r) ==
    /\ Edit /\ home[r] # Untracked
    /\ hidden' = IF r \in hidden THEN hidden \ {r} ELSE hidden \union {r}
    /\ UNCHANGED <<account, stored, home>>

----------------------------------------------------------------------------
(* The pass.                                                               *)

\* `github_identities`: the accounts, or the v1 token when there is none.
GithubIdentities == IF Made = {} THEN {Nobody} ELSE Made

Enabled(i) == i = Nobody \/ account[i] = "on"

Tracked == {r \in Repo : home[r] # Untracked /\ r \notin hidden}

\* Mutant: what belongs to nobody is read by whoever can.
Adopting(i) == {r \in Tracked : home[r] = i \/ home[r] \notin GithubIdentities}

Owned(i) == {r \in Tracked : home[r] = i}

\* Identities that poll, when the store does not answer for those in `refused`.
Fetching(refused) ==
    {i \in GithubIdentities : Enabled(i) /\ i \in stored \ refused}

\* Mutant: only an account that lost rows is worth a line in the footer.
OnlyOwners(i) == Owned(i) # {}

WorthReporting(i) == Enabled(i) \/ Owned(i) # {}

\* Mutant: the v1 token counts as an account.
AnyBlocked(refused) ==
    {i \in GithubIdentities \ Fetching(refused) : WorthReporting(i)}

Blocked(refused) ==
    {a \in Made \ Fetching(refused) : WorthReporting(a)}

\* What no identity claimed.
Orphans == {r \in Tracked : home[r] \notin GithubIdentities}

Planned(refused) ==
    [fetched |-> UNION {Owned(i) : i \in Fetching(refused)},
     dark    |-> (UNION {Owned(a) : a \in Blocked(refused)}) \union Orphans,
     failed  |-> Blocked(refused),
     orphans |-> Orphans]

\* Mutant: what could not be read counts as not there.
AbsentWins(refused) ==
    IF Fetching(refused) # {} THEN "present"
    ELSE IF \E i \in GithubIdentities : Enabled(i) THEN "absent"
    ELSE "unlooked"

\* The best news any identity brought, and unreadable outranks absent.
Verdict(refused) ==
    IF Fetching(refused) # {} THEN "present"
    ELSE IF \E i \in refused : Enabled(i) THEN "unreadable"
    ELSE IF \E i \in GithubIdentities : Enabled(i) THEN "absent"
    ELSE "unlooked"

\* `apply_pass_credential`, before the first request.
ApplyCredential(verdict) ==
    /\ token' = IF verdict \in {"present", "absent"} THEN verdict ELSE token
    /\ unreadable' = CASE verdict \in {"present", "absent"} -> FALSE
                       [] verdict = "unreadable"            -> TRUE
                       [] OTHER                             -> unreadable

\* `apply_repo_accounts`: the rows, the accounts and the orphans of this pass
\* replace those of the last one.
ApplyRepoAccounts(p, read) ==
    /\ shown' = [r \in Repo |-> IF r \in read THEN "read"
                               ELSE IF r \in p.fetched \union p.dark THEN "unreachable"
                               ELSE "none"]
    /\ failing' = p.failed /\ orphaned' = p.orphans

\* Mutant: a pass with nobody to poll with has nothing to say.
NeverReports(p) == FALSE

\* What a pass with nobody to poll with still has to say.
HasResults(p) == p.failed # {} \/ p.orphans # {}

\* Nobody to poll with: the pass records what it found out and is over.
EndEarly(p, verdict) ==
    /\ UNCHANGED <<rpc, plan>>
    /\ IF HasResults(p) THEN ApplyRepoAccounts(p, {})
       ELSE IF verdict = "absent" THEN shown' = NotYet /\ failing' = {} /\ orphaned' = {}
       ELSE UNCHANGED <<shown, failing, orphaned>>

\* The store is read and right after it every credential; for some of them
\* the credential store may not answer.
StartRepos ==
    /\ rpc = "asleep"
    /\ \E refused \in SUBSET GithubIdentities :
          /\ ApplyCredential(Verdict(refused))
          /\ IF Fetching(refused) = {}
             THEN EndEarly(Planned(refused), Verdict(refused))
             ELSE /\ rpc' = "fetch" /\ plan' = Planned(refused)
                  /\ UNCHANGED <<shown, failing, orphaned>>
    /\ UNCHANGED setVars

ReposWoken   == StartRepos /\ rwake /\ rwake' = FALSE
ReposCadence == StartRepos /\ UNCHANGED rwake

\* Every request is answered; a repository GitHub would not answer for is a
\* row that is unreachable.
FinishRepos ==
    /\ rpc = "fetch" /\ rpc' = "asleep" /\ plan' = NoPlan
    /\ token' = "present" /\ unreadable' = FALSE
    /\ \E read \in SUBSET plan.fetched : ApplyRepoAccounts(plan, read)
    /\ UNCHANGED <<setVars, rwake>>

RepoEdit ==
    \/ \E a \in Account : AddAccount(a) \/ UpdateAccount(a)
                          \/ SetAccountEnabled(a) \/ RemoveAccount(a)
    \/ \E r \in Repo : AddRepo(r) \/ SetRepoAccount(r) \/ RemoveRepo(r)
                       \/ SetRepoEnabled(r)
    \/ \E a \in Account, r \in Repo : SetRepoTracked(a, r)

RepoNext == RepoEdit \/ ReposWoken \/ ReposCadence \/ FinishRepos

RepoSpec == RepoInit /\ [][RepoNext]_repoVars

----------------------------------------------------------------------------
(* Properties.  At rest every edit has had a pass of its own.              *)

AtRest == rpc = "asleep" /\ ~rwake

RepoTypeOK ==
    /\ account \in [Account -> {"unmade", "on", "off", "removed"}]
    /\ stored \subseteq Identity
    /\ home \in [Repo -> Identity \union {Untracked}] /\ hidden \subseteq Repo
    /\ rpc \in {"asleep", "fetch"} /\ rwake \in BOOLEAN
    /\ plan \in [fetched : SUBSET Repo, dark : SUBSET Repo,
                 failed : SUBSET Account, orphans : SUBSET Repo]
    /\ token \in {"unknown", "absent", "present"} /\ unreadable \in BOOLEAN
    /\ shown = NotYet \/ shown \in [Repo -> Row]
    /\ failing \subseteq Account /\ orphaned \subseteq Repo

\* "A tracked repo that quietly stops being fetched is the failure this
\* replaces": with any account at all, every tracked repository has a row,
\* and one without a living account is named, whatever was edited in the
\* middle of whichever pass (`plan_github_pass`, `apply_repo_accounts`).
EveryTrackedRepoHasARow ==
    AtRest /\ Made # {} => \A r \in Tracked :
        /\ shown # NotYet /\ shown[r] # "none"
        /\ home[r] \notin Made => r \in orphaned

\* "There is no token" is said only of a store that was asked and holds none
\* for any account that is on; and a token that is there is not denied
\* because another account's is missing (`apply_pass_credential`).
AbsentIsTrue ==
    AtRest /\ token = "absent" /\ ~unreadable
        => \A i \in GithubIdentities : Enabled(i) => i \notin stored

\* An account that is on and has no token is named in the footer, also when
\* it owns no repository and no other account can poll (`worth_reporting`,
\* the early return of `poll_github`).
BlockedIsNamed ==
    AtRest => \A a \in Made : Enabled(a) /\ a \notin stored => a \in failing

\* A row read from GitHub was read with the token of the account the
\* repository named when the pass began: nothing that belongs to nobody, or
\* to an account that is off, is read by another (`new_repo`, `Owned`).
ReadByItsOwner ==
    [][\A r \in Repo :
        rpc' = "fetch" /\ rpc = "asleep" /\ r \in plan'.fetched
            => home[r] \in stored /\ Enabled(home[r])]_repoVars

\* No tracked repository and no blocked account goes unmentioned, and the
\* panel's verdict on the tokens is true of them all.
NothingUnmentioned ==
    RepoTypeOK /\ EveryTrackedRepoHasARow /\ AbsentIsTrue /\ BlockedIsNamed
=============================================================================

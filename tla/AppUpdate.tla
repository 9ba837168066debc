----------------------------- MODULE AppUpdate -----------------------------
(***************************************************************************)
(* The app's own updater: the check of every launch, checks and installs   *)
(* the operator starts, each a task with a request or two, against a feed  *)
(* that may move on or back in between.  On macOS the bundle on disk is    *)
(* replaced under the running app; on Windows the app ends and comes back  *)
(* on the new version.                                                     *)
(***************************************************************************)
EXTENDS Naturals

CONSTANTS
    Newest,     \* versions are 1..Newest
    Tasks       \* how many tasks of each kind may be under way

ASSUME AppUpdateAssumption == Newest \in Nat /\ Tasks \in Nat

VARIABLES
    windows,    \* the platform
    thisApp,    \* the version that runs
    bundle,     \* the version on disk
    feed,       \* the version the release feed offers
    check,      \* Check: "unknown", "uptodate", "available" or "failed"
    install,    \* Install: "idle", "running", "applied" or "failed"
    announced,  \* the version the last banner was about, or 0
    checks,     \* check tasks: "none", "asking", or the answer of the feed
    jobs        \* install tasks: "none", "asking", or what is downloaded

appVars == <<windows, thisApp, bundle, feed, check, install, announced, checks, jobs>>

None == [at |-> "none", ver |-> 0]
Asking == [at |-> "asking", ver |-> 0]
Answered(v) == [at |-> "answered", ver |-> v]
Task == {None, Asking} \union {Answered(v) : v \in 0..Newest}

\* A launch: the state is the process's own, and one check is started.
LaunchedOn(v) ==
    /\ thisApp' = v /\ check' = "unknown" /\ install' = "idle" /\ announced' = 0
    /\ checks' = [t \in 1..Tasks |-> IF t = 1 THEN Asking ELSE None]
    /\ jobs' = [t \in 1..Tasks |-> None]

AppInit ==
    /\ windows \in BOOLEAN /\ thisApp = 1 /\ bundle = 1 /\ feed \in 1..Newest
    /\ check = "unknown" /\ install = "idle" /\ announced = 0
    /\ checks = [t \in 1..Tasks |-> IF t = 1 THEN Asking ELSE None]
    /\ jobs = [t \in 1..Tasks |-> None]

\* A release is published or withdrawn.
MoveFeed ==
    /\ feed' \in (1..Newest) \ {feed}
    /\ UNCHANGED <<windows, thisApp, bundle, check, install, announced, checks, jobs>>

Relaunch == LaunchedOn(bundle) /\ UNCHANGED <<windows, bundle, feed>>

----------------------------------------------------------------------------
(* Checks.                                                                 *)

\* `update_check`: the command asks no guard, whatever button was drawn.
UpdateCheck(t) ==
    /\ checks[t] = None /\ checks' = [checks EXCEPT ![t] = Asking]
    /\ check' = "unknown"
    /\ UNCHANGED <<windows, thisApp, bundle, feed, install, announced, jobs>>

\* The plugin asks the feed; 0 is nothing newer than the app that runs, by the
\* comparator the app hands it.
Offered == IF feed > thisApp THEN feed ELSE 0

FeedAnswers(t) ==
    /\ checks[t] = Asking /\ checks' = [checks EXCEPT ![t] = Answered(Offered)]
    /\ UNCHANGED <<windows, thisApp, bundle, feed, check, install, announced, jobs>>

\* `up_to_date` clears an applied install.
Cleared == IF install = "applied" THEN "idle" ELSE install

\* The end of `run_update_check`, under the lock: the answer, or a failure.
CheckEnds(t) ==
    /\ checks[t].at = "answered" /\ checks' = [checks EXCEPT ![t] = None]
    /\ \/ /\ checks[t].ver > 0 /\ check' = "available" /\ announced' = checks[t].ver
          /\ UNCHANGED install
       \/ /\ checks[t].ver = 0 /\ check' = "uptodate" /\ install' = Cleared
          /\ UNCHANGED announced
       \/ check' = "failed" /\ UNCHANGED <<install, announced>>
    /\ UNCHANGED <<windows, thisApp, bundle, feed, jobs>>

----------------------------------------------------------------------------
(* Installs.                                                               *)

\* Mutant: the guard is left to the button.
AsDrawn == check = "available"

\* `can_install`, asked again by the command.
CanInstall == check = "available" /\ install \in {"idle", "failed"}

UpdateInstall(t) ==
    /\ CanInstall /\ jobs[t] = None
    /\ jobs' = [jobs EXCEPT ![t] = Asking] /\ install' = "running"
    /\ UNCHANGED <<windows, thisApp, bundle, feed, check, announced, checks>>

\* Mutant: a feed that offers nothing any more is nothing to complain about.
NothingToDo == "applied"

\* "the update is no longer offered".
NoLongerOffered == "failed"

\* The feed is asked again: what it offers now is what is downloaded.
InstallAsks(t) ==
    /\ jobs[t] = Asking
    /\ \/ Offered > 0 /\ jobs' = [jobs EXCEPT ![t] = Answered(Offered)] /\ UNCHANGED install
       \/ Offered = 0 /\ jobs' = [jobs EXCEPT ![t] = None] /\ install' = NoLongerOffered
       \/ jobs' = [jobs EXCEPT ![t] = None] /\ install' = "failed"
    /\ UNCHANGED <<windows, thisApp, bundle, feed, check, announced, checks>>

\* `download_and_install`: it fails and leaves the bundle, or replaces it; on
\* Windows the process is over then and comes back on the new version.
InstallEnds(t) ==
    /\ jobs[t].at = "answered"
    /\ \/ /\ jobs' = [jobs EXCEPT ![t] = None] /\ install' = "failed"
          /\ UNCHANGED <<thisApp, bundle, check, announced, checks>>
       \/ /\ ~windows /\ bundle' = jobs[t].ver
          /\ jobs' = [jobs EXCEPT ![t] = None] /\ install' = "applied"
          /\ UNCHANGED <<thisApp, check, announced, checks>>
       \/ windows /\ bundle' = jobs[t].ver /\ LaunchedOn(jobs[t].ver)
    /\ UNCHANGED <<windows, feed>>

AppNext ==
    \/ MoveFeed \/ Relaunch
    \/ \E t \in 1..Tasks : \/ UpdateCheck(t) \/ FeedAnswers(t) \/ CheckEnds(t)
                           \/ UpdateInstall(t) \/ InstallAsks(t) \/ InstallEnds(t)

AppSpec == AppInit /\ [][AppNext]_appVars

----------------------------------------------------------------------------
(* Properties.                                                             *)

AppTypeOK ==
    /\ check \in {"unknown", "uptodate", "available", "failed"}
    /\ install \in {"idle", "running", "applied", "failed"}
    /\ {thisApp, bundle, feed} \subseteq 1..Newest /\ announced \in 0..Newest
    /\ checks \in [1..Tasks -> Task] /\ jobs \in [1..Tasks -> Task]
    /\ \A t \in 1..Tasks : jobs[t].at = "answered" => jobs[t].ver > thisApp

\* "two clicks landing together must not start two downloads over the same
\* bundle": the panel says an install is running exactly while one is, and
\* no check that ends meanwhile makes room for a second.
OneInstall ==
    /\ \A s, t \in 1..Tasks : jobs[s] # None /\ jobs[t] # None => s = t
    /\ install = "running" <=> \E t \in 1..Tasks : jobs[t] # None

\* "installed" is never "a claim about a file that was never written": while
\* the panel says so, the bundle on disk is newer than the app that runs.
AppliedIsTrue == install = "applied" => bundle > thisApp

\* One install at a time, and what the panel says of it is true.
AppInv == AppTypeOK /\ OneInstall /\ AppliedIsTrue
=============================================================================

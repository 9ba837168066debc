----------------------------- MODULE HostWatch -----------------------------
(***************************************************************************)
(* The cards of the watched hosts and the banners about them: the poll of  *)
(* each host with its failure streak, and the watch that compares what the *)
(* cards say with what they said before.                                   *)
(*                                                                         *)
(* HostRoster models which hosts have a task and with which token; here a  *)
(* host is in the poll set or not, and its task has a token or none.  One  *)
(* pass of the watch is three steps, since Settings, the polls and a       *)
(* resume run between its locks.                                           *)
(***************************************************************************)
EXTENDS Naturals, FiniteSets

CONSTANTS
    Host,       \* hosts, by their id in the store
    Threshold   \* FAILURE_THRESHOLD: failed polls before a card turns

ASSUME HostWatchAssumption == Threshold \in Nat \ {0}

VARIABLES
    task,       \* the poll set: "none", "blocked" (no token) or "polls"
    asking,     \* the hosts with a request under way
    latest,     \* the hosts whose card holds a snapshot
    streak,     \* back-to-back failed polls, saturated at the threshold
    error,      \* what the card says is wrong
    notify,     \* the setting notify_on_service_change
    wpc,        \* the watch: "idle", "flag" (setting read) or "compare"
    loud,       \* its copy of the setting
    readings,   \* its copy of the cards
    seen,       \* HostWatch::seen
    missed,     \* history: failures of this task in a row, saturated
    sight       \* history: what the last pass saw, if it saw the host

cardVars  == <<task, asking, latest, streak, error, missed>>
watchVars == <<wpc, loud, readings, seen, sight>>
hostVars  == <<cardVars, watchVars, notify>>

Reached == {"reachable", "unreachable"}

HostInit ==
    /\ task = [h \in Host |-> "none"] /\ asking = {} /\ latest = {}
    /\ streak = [h \in Host |-> 0] /\ missed = [h \in Host |-> 0]
    /\ error = [h \in Host |-> "none"]
    /\ notify = TRUE
    /\ wpc = "idle" /\ loud = TRUE
    /\ readings = [h \in Host |-> "absent"]
    /\ seen = [h \in Host |-> "never"] /\ sight = [h \in Host |-> "never"]

----------------------------------------------------------------------------
(* The poll set.                                                           *)

\* The host is added or enabled, or its connection or token was edited: nothing
\* of the card before is carried over.
SpawnHost(h) ==
    /\ task[h] = "none"
    /\ \E token \in {"polls", "blocked"} : task' = [task EXCEPT ![h] = token]
    /\ latest' = latest \ {h}
    /\ streak' = [streak EXCEPT ![h] = 0] /\ missed' = [missed EXCEPT ![h] = 0]
    /\ error' = [error EXCEPT ![h] = "none"]
    /\ UNCHANGED <<asking, watchVars, notify>>

\* The host is removed or disabled, or edited: its task is aborted with the
\* request it is waiting for, and a reload spawns it anew if it is still wanted.
DropHost(h) ==
    /\ task[h] # "none"
    /\ task' = [task EXCEPT ![h] = "none"] /\ asking' = asking \ {h}
    /\ UNCHANGED <<latest, streak, error, missed, watchVars, notify>>

ToggleNotify == notify' = ~notify /\ UNCHANGED <<cardVars, watchVars>>

----------------------------------------------------------------------------
(* The polls.                                                              *)

Counted(n) == IF n < Threshold THEN n + 1 ELSE Threshold

\* Mutant: a success leaves the streak standing.
StreakKept(h) == streak

StreakCleared(h) == [streak EXCEPT ![h] = 0]

\* A tick: the request is sent, and awaited before the next tick is.
Ask(h) ==
    /\ task[h] = "polls" /\ h \notin asking
    /\ asking' = asking \union {h}
    /\ UNCHANGED <<task, latest, streak, error, missed, watchVars, notify>>

PollOk(h) ==
    /\ h \in asking /\ asking' = asking \ {h}
    /\ latest' = latest \union {h}
    /\ streak' = StreakCleared(h)
    /\ missed' = [missed EXCEPT ![h] = 0]
    /\ error' = [error EXCEPT ![h] = "none"]
    /\ UNCHANGED <<task, watchVars, notify>>

\* The last snapshot is kept; the card turns only at the threshold.  Which
\* failure it was decides the card's words and colour.
PollFails(h) ==
    /\ h \in asking /\ asking' = asking \ {h}
    /\ streak' = [streak EXCEPT ![h] = Counted(@)]
    /\ missed' = [missed EXCEPT ![h] = Counted(@)]
    /\ error' = IF streak'[h] >= Threshold
                THEN [error EXCEPT ![h] = "failed"] ELSE error
    /\ UNCHANGED <<task, latest, watchVars, notify>>

\* No token, no request: the cause is on the card at the first tick.
TokenUnavailable(h) ==
    /\ task[h] = "blocked"
    /\ streak' = [streak EXCEPT ![h] = Threshold]
    /\ error' = [error EXCEPT ![h] = "token"]
    /\ UNCHANGED <<task, asking, latest, missed, watchVars, notify>>

----------------------------------------------------------------------------
(* The watch.                                                              *)

ReadNotify ==
    /\ wpc = "idle" /\ wpc' = "flag" /\ loud' = notify
    /\ UNCHANGED <<cardVars, readings, seen, sight, notify>>

\* Mutant: a card that has a snapshot is shown as good.
SnapshotWins(h) ==
    IF h \in latest THEN "reachable"
    ELSE IF error[h] # "none" THEN "unreachable" ELSE "unsettled"

\* What the card of a watched host says; "unsettled" before its first poll is decided.
Verdict(h) ==
    IF error[h] # "none" THEN "unreachable"
    ELSE IF h \in latest THEN "reachable" ELSE "unsettled"

\* The snapshot of every card, under the lock of the poll set.
ReadCards ==
    /\ wpc = "flag" /\ wpc' = "compare"
    /\ readings' = [h \in Host |-> IF task[h] = "none" THEN "absent" ELSE Verdict(h)]
    /\ UNCHANGED <<cardVars, loud, seen, sight, notify>>

\* A host that is not in the pass, or not settled, is forgotten; the rest is
\* the new baseline, announced or not.
Baseline == [h \in Host |-> IF readings[h] \in Reached THEN readings[h] ELSE "never"]

\* Mutant: only the bad news is told.
OnlyDown == {h \in Host : loud /\ readings[h] = "unreachable" /\ seen[h] = "reachable"}

\* The hosts a pass banners about.
Banners == {h \in Host : /\ loud
                         /\ readings[h] \in Reached
                         /\ seen[h] \notin {"never", readings[h]}}

Observe ==
    /\ wpc = "compare" /\ wpc' = "idle"
    /\ seen' = Baseline
    /\ sight' = [h \in Host |-> IF readings[h] \in Reached THEN readings[h] ELSE "never"]
    /\ loud' = TRUE /\ readings' = [h \in Host |-> "absent"]
    /\ UNCHANGED <<cardVars, notify>>

\* Mutant: a resume leaves the baseline.
NotForgotten == seen

Forgotten == [h \in Host |-> "never"]

\* The machine is back from sleep: `HostWatch::reset`.  The cards still say
\* what they said before the sleep, and the next pass may seed from them.
Resume ==
    /\ seen' = Forgotten
    /\ sight' = [h \in Host |-> "never"]
    /\ UNCHANGED <<cardVars, wpc, loud, readings, notify>>

----------------------------------------------------------------------------

WatchStep == ReadNotify \/ ReadCards \/ Observe

Poll(h) == Ask(h) \/ PollOk(h) \/ PollFails(h) \/ TokenUnavailable(h)

HostNext ==
    \/ WatchStep
    \/ \E h \in Host : Poll(h) \/ SpawnHost(h) \/ DropHost(h)
    \/ ToggleNotify
    \/ Resume

\* Timers fire and no lock is held for long: the watch and every poll go on.
HostFairness == WF_hostVars(WatchStep) /\ \A h \in Host : WF_hostVars(Poll(h))

HostSpec == HostInit /\ [][HostNext]_hostVars /\ HostFairness

----------------------------------------------------------------------------
(* Properties.                                                             *)

\* The types; and the streak `record_poll` keeps is that of the present task.
HostTypeOK ==
    /\ task \in [Host -> {"none", "blocked", "polls"}]
    /\ asking \subseteq {h \in Host : task[h] = "polls"} /\ latest \subseteq Host
    /\ streak \in [Host -> 0..Threshold] /\ missed \in [Host -> 0..Threshold]
    /\ error \in [Host -> {"none", "failed", "token"}]
    /\ notify \in BOOLEAN /\ loud \in BOOLEAN
    /\ wpc \in {"idle", "flag", "compare"}
    /\ readings \in [Host -> Reached \union {"absent", "unsettled"}]
    /\ seen \in [Host -> Reached \union {"never"}]
    /\ sight \in [Host -> Reached \union {"never"}]
    /\ \A h \in Host : task[h] = "polls" => streak[h] = missed[h]

\* "A single dropped packet on a flappy tailnet never reaches the OS": a card
\* says a host cannot be reached only after as many polls of its present task
\* in a row have failed as the debounce asks for (`record_poll`), whatever
\* edits, blocked tasks and successes came before.
Debounced ==
    \A h \in Host :
        task[h] = "polls" /\ error[h] # "none" => missed[h] = Threshold

\* A banner is news: the pass before saw the host, in the other state, and
\* nothing has made the watch forget it since.  So there is none for a host
\* just added, back from being disabled, edited into a new card the watch has
\* seen unsettled, or not seen since a resume; none twice; and none for what
\* happened while banners were off (`HostWatch::observe`, `HostWatch::reset`).
BannerIsNews ==
    [][Observe => \A h \in Banners : sight[h] \notin {"never", readings[h]}]_hostVars

\* No change between two passes is swallowed either while banners are on.
NewsIsBannered ==
    [][Observe /\ loud =>
          \A h \in Host : readings[h] \in Reached /\ sight[h] \notin {"never", readings[h]}
                              => h \in Banners]_hostVars

\* A host that stays in the poll set and never answers again is, again and
\* again, known to the watch as unreachable, however often the machine sleeps
\* and the setting flips (`hosts_watch_loop`, `poll_loop`).
DownIsNoticed ==
    \A h \in Host :
        (<>[](task[h] = "polls") /\ <>[][~PollOk(h)]_hostVars)
            => []<>(seen[h] = "unreachable")

\* The types, and with them what the cards may say after however many polls,
\* edits and respawns.
CardsAreDebounced == HostTypeOK /\ Debounced

\* What is said of the hosts is news, all the news, and in the end the truth
\* about a host that is gone.
HostsAreTold == BannerIsNews /\ NewsIsBannered /\ DownIsNoticed
=============================================================================

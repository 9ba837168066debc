---------------------------- MODULE RunnerRoster ----------------------------
(***************************************************************************)
(* The runners half of the GitHub pass: the organisations selected in      *)
(* Settings, the remembered runners with the time each was last seen, the  *)
(* panel's rows, and "Forget", which may fall anywhere in a pass.          *)
(*                                                                         *)
(* Times are ages in ticks, saturated.  A pass reads the roster once, at   *)
(* its start, stamps what it sees with that time, and stores its own copy  *)
(* at its end: what it holds are ages at its start.                        *)
(***************************************************************************)
EXTENDS Naturals, FiniteSets

CONSTANTS
    Org,        \* organisations
    Runner,     \* runner names, which two organisations may share
    Grace,      \* DEFAULT_GRACE_SECS: an absence before it is an alarm
    AgeOut,     \* AGE_OUT_SECS: an absence before it is forgotten
    Longest,    \* bound: ticks a pass may take
    Gone        \* no age: the roster does not hold the runner

ASSUME RunnerRosterAssumption ==
    /\ Grace \in Nat /\ AgeOut \in Nat /\ Longest \in Nat /\ Grace < AgeOut
    /\ Gone \notin Nat

VARIABLES
    chosen,     \* the organisations selected on an account
    roster,     \* the store's runner_roster, as ages
    rows,       \* the panel, per organisation: Nothing or its rows
    gpc,        \* the pass: "asleep", "select", "fetch", "persist"
    selection,  \* the organisations of the pass under way
    blocked,    \* those whose account cannot authenticate
    records,    \* its copy of the roster
    outcome,    \* what each organisation's fetch came to
    since,      \* ticks since its start
    gwake,      \* github_wake
    forgetting, \* a Forget between its two locks: <<>> or <<org, runner>>
    lastSight,  \* history: age of the last sighting a pass delivered
    dropped     \* history: forgotten with no pass under way, unseen since

passVars   == <<gpc, selection, blocked, records, outcome, since>>
rosterVars == <<chosen, roster, rows, passVars, gwake, forgetting, lastSight, dropped>>

Age == 0..AgeOut

Nothing  == [shown |-> "no"]
Untried  == [came |-> "no"]
Failed   == [came |-> "failed"]

\* One organisation's rows: `registered`, and the absences by whether their
\* grace is over.
Shown == [shown : {"rows"}, registered : SUBSET Runner, recycling : SUBSET Runner,
          missing : SUBSET Runner]

RosterInit ==
    /\ chosen = Org
    /\ roster = [o \in Org |-> [r \in Runner |-> Gone]]
    /\ rows = [o \in Org |-> Nothing]
    /\ gpc = "asleep" /\ selection = {} /\ blocked = {}
    /\ records = [o \in Org |-> [r \in Runner |-> Gone]]
    /\ outcome = [o \in Org |-> Untried] /\ since = 0
    /\ gwake = TRUE /\ forgetting = <<>>
    /\ lastSight = [o \in Org |-> [r \in Runner |-> Gone]]
    /\ dropped = {}

----------------------------------------------------------------------------
(* Settings.                                                               *)

\* Mutant: `notify_waiters`, which is lost on a loop that is not waiting.
WakesWaiter == gwake' = (gwake \/ gpc = "asleep")

WakeGithub == gwake' = TRUE

\* An organisation is selected on an account or taken off: the save and then
\* the wake, which a pass in between makes one wake more than needed.
SetAccountOrg(o) ==
    /\ chosen' = IF o \in chosen THEN chosen \ {o} ELSE chosen \union {o}
    /\ WakeGithub
    /\ UNCHANGED <<roster, rows, passVars, forgetting, lastSight, dropped>>

\* Mutant: only the row is forgotten.
StillRemembered(o, r) == roster

ForgetRunnerRecord(o, r) == [roster EXCEPT ![o][r] = Gone]

\* "Forget" on a row of an absent runner: the store's record first, the
\* panel's row under its own lock.
ForgetRecord(o, r) ==
    /\ forgetting = <<>> /\ rows[o].shown = "rows"
    /\ r \in rows[o].recycling \union rows[o].missing
    /\ roster' = ForgetRunnerRecord(o, r)
    /\ forgetting' = <<o, r>>
    /\ dropped' = IF gpc = "asleep" THEN dropped \union {<<o, r>>} ELSE dropped
    /\ UNCHANGED <<chosen, rows, passVars, gwake, lastSight>>

WithoutRow(row, r) == [row EXCEPT !.recycling = @ \ {r}, !.missing = @ \ {r}]

ForgetRow ==
    /\ forgetting # <<>> /\ forgetting' = <<>>
    /\ LET o == forgetting[1] r == forgetting[2] IN
       rows' = IF rows[o].shown = "no" THEN rows
               ELSE [rows EXCEPT ![o] = WithoutRow(@, r)]
    /\ UNCHANGED <<chosen, roster, passVars, gwake, lastSight, dropped>>

----------------------------------------------------------------------------
(* The pass.                                                               *)

\* The accounts and the roster are read together, then the credentials.  That
\* only some organisations have none comes to the same as their fetches failing,
\* so here it is all or none.
StartPass ==
    /\ gpc = "asleep" /\ gpc' = "select"
    /\ selection' = chosen /\ records' = roster
    /\ blocked' \in {{}, chosen}
    /\ UNCHANGED <<chosen, roster, rows, outcome, since, forgetting, lastSight, dropped>>

\* A permit or the cadence ends the sleep.
GithubWoken   == StartPass /\ gwake /\ gwake' = FALSE
GithubCadence == StartPass /\ UNCHANGED gwake

Empty == [shown |-> "rows", registered |-> {}, recycling |-> {}, missing |-> {}]

Kept(o) == o \in selection

PassOver ==
    /\ gpc' = "asleep" /\ selection' = {} /\ blocked' = {}
    /\ records' = [o \in Org |-> [r \in Runner |-> Gone]]
    /\ outcome' = [o \in Org |-> Untried] /\ since' = 0

\* The panel is told of the selection before the first request: rows of what
\* is not selected any more are pruned, and every selected organisation has
\* an entry.  With nobody to poll with, the pass ends here; when that is
\* because no token is stored, every row goes first (`apply_unauthenticated`).
Select ==
    /\ gpc = "select"
    /\ IF selection \subseteq blocked THEN PassOver
       ELSE gpc' = "fetch" /\ UNCHANGED <<selection, blocked, records, outcome, since>>
    /\ \E noToken \in BOOLEAN :
          /\ noToken => selection \subseteq blocked
          /\ rows' = [o \in Org |-> IF ~Kept(o) THEN Nothing
                                 ELSE IF rows[o] = Nothing \/ noToken THEN Empty
                                 ELSE rows[o]]
    /\ UNCHANGED <<chosen, roster, gwake, forgetting, lastSight, dropped>>

\* `roster_for_org`: this organisation's slice of what the pass read.
RosterForOrg(o) == records[o]

\* `updated`: what is registered is seen now, the rest keeps its age, and what
\* is too old is let go.
Updated(o, reg) ==
    [r \in Runner |-> IF r \in reg THEN 0
                      ELSE IF RosterForOrg(o)[r] \in 0..AgeOut-1 THEN RosterForOrg(o)[r]
                      ELSE Gone]

\* Mutant: an absence is judged by the age before this fetch.
StaleAbsent(o, reg) == {r \in Runner : RosterForOrg(o)[r] # Gone}

\* `absences`: remembered, and not registered now.
Absent(o, reg) == {r \in Runner : Updated(o, reg)[r] # Gone /\ r \notin reg}

\* `apply_fetch`; `presence::state` decides which absence is an alarm.
Answer(o, reg) ==
    [came       |-> "rows",
     new        |-> Updated(o, reg),
     registered |-> reg,
     recycling  |-> {r \in Absent(o, reg) : RosterForOrg(o)[r] < Grace},
     missing    |-> {r \in Absent(o, reg) : RosterForOrg(o)[r] >= Grace}]

\* One organisation's fetch, with its own account's token: the runners that
\* are registered, or a failure.
FetchOrg(o) ==
    /\ gpc = "fetch" /\ o \in selection \ blocked /\ outcome[o] = Untried
    /\ \/ \E reg \in SUBSET Runner : outcome' = [outcome EXCEPT ![o] = Answer(o, reg)]
       \/ outcome' = [outcome EXCEPT ![o] = Failed]
    /\ UNCHANGED <<chosen, roster, rows, gpc, selection, blocked, records, since,
                   gwake, forgetting, lastSight, dropped>>

Delivered(o) == outcome[o].came = "rows"

\* Ages saturate.
Older(age, n) == IF age = Gone THEN Gone ELSE IF age + n > AgeOut THEN AgeOut ELSE age + n

\* Every answer is in; the panel takes the successful ones, and a failed one
\* leaves its organisation's rows as they are.
ApplyRows ==
    /\ gpc = "fetch" /\ \A o \in selection \ blocked : outcome[o] # Untried
    /\ gpc' = "persist"
    /\ rows' = [o \in Org |->
          IF ~Delivered(o) THEN rows[o]
          ELSE [shown |-> "rows", registered |-> outcome[o].registered,
                recycling |-> outcome[o].recycling, missing |-> outcome[o].missing]]
    /\ lastSight' = [o \in Org |-> [r \in Runner |->
          IF Delivered(o) /\ r \in outcome[o].registered THEN Older(0, since)
          ELSE lastSight[o][r]]]
    /\ dropped' = {f \in dropped : ~(Delivered(f[1]) /\ f[2] \in outcome[f[1]].registered)}
    /\ UNCHANGED <<chosen, roster, selection, blocked, records, outcome, since,
                   gwake, forgetting>>

\* What the pass stores for an organisation, as it is by now.
Stored(o) == [r \in Runner |-> Older(outcome[o].new[r], since)]

\* Mutant: a failed organisation's records are written back as read.
WriteBack == [o \in Org |-> IF Delivered(o) THEN Stored(o)
                            ELSE IF o \in selection THEN records[o] ELSE roster[o]]

\* `set_runner_roster_for_org`, per successful organisation.
NewRoster == [o \in Org |-> IF Delivered(o) THEN Stored(o) ELSE roster[o]]

Persist ==
    /\ gpc = "persist" /\ PassOver
    /\ roster' = NewRoster
    /\ UNCHANGED <<chosen, rows, gwake, forgetting, lastSight, dropped>>

----------------------------------------------------------------------------

Tick ==
    /\ gpc \in {"fetch", "persist"} => since < Longest
    /\ since' = IF gpc \in {"fetch", "persist"} THEN since + 1 ELSE since
    /\ roster' = [o \in Org |-> [r \in Runner |-> Older(roster[o][r], 1)]]
    /\ lastSight' = [o \in Org |-> [r \in Runner |-> Older(lastSight[o][r], 1)]]
    /\ gpc # "select"
    /\ UNCHANGED <<chosen, rows, gpc, selection, blocked, records, outcome,
                   gwake, forgetting, dropped>>

GithubLoop ==
    \/ GithubWoken \/ Select \/ ApplyRows \/ Persist
    \/ \E o \in Org : FetchOrg(o)

RosterNext ==
    \/ GithubLoop \/ GithubCadence
    \/ \E o \in Org : SetAccountOrg(o)
    \/ ForgetRow
    \/ \E o \in Org, r \in Runner : ForgetRecord(o, r)
    \/ Tick

\* Requests have timeouts, a command begun is finished, a permit ends the sleep.
RosterFairness ==
    WF_rosterVars(GithubLoop) /\ WF_rosterVars(ForgetRow)

RosterSpec == RosterInit /\ [][RosterNext]_rosterVars /\ RosterFairness

----------------------------------------------------------------------------
(* Properties.                                                             *)

RosterTypeOK ==
    /\ chosen \subseteq Org /\ selection \subseteq Org /\ blocked \subseteq selection
    /\ roster \in [Org -> [Runner -> Age \union {Gone}]]
    /\ records \in [Org -> [Runner -> Age \union {Gone}]]
    /\ lastSight \in [Org -> [Runner -> Age \union {Gone}]]
    /\ \A o \in Org : rows[o] = Nothing \/ rows[o] \in Shown
    /\ gpc \in {"asleep", "select", "fetch", "persist"}
    /\ since \in 0..Longest /\ gwake \in BOOLEAN
    /\ forgetting = <<>> \/ forgetting \in Org \X Runner
    /\ dropped \subseteq Org \X Runner

\* A remembered runner's clock is the age of the last sighting of that runner
\* in that organisation, whatever passes failed, were blocked, or delivered
\* another organisation since: no failure and no neighbour moves it
\* (`roster_for_org`, `apply_fetch`, `set_runner_roster_for_org`).
LastSeenIsTrue ==
    gpc # "persist" =>
        \A o \in Org, r \in Runner : roster[o][r] # Gone => roster[o][r] = lastSight[o][r]

\* A red "missing" row is of a runner that GitHub has not reported for the
\* whole grace, and is not reporting at the last success (`presence::state`).
AlarmIsEarned ==
    \A o \in Org : rows[o].shown = "rows" =>
        /\ rows[o].missing \intersect rows[o].registered = {}
        /\ \A r \in rows[o].missing : lastSight[o][r] # Gone /\ lastSight[o][r] >= Grace

\* "The window is one fetch": what is forgotten while no pass is under way is
\* neither in the store nor on the panel again before GitHub reports it
\* (`runners_forget`).
ForgetSticks ==
    \A f \in dropped :
        /\ roster[f[1]][f[2]] = Gone
        /\ rows[f[1]].shown = "rows" /\ forgetting # f =>
               f[2] \notin rows[f[1]].recycling \union rows[f[1]].missing

\* An organisation taken off in Settings loses its rows and one selected gets
\* its place without waiting for the cadence, even when the edit falls into a
\* pass that is about to deliver (`apply_runner_selection`, `wake_github`).
RowsFollowSelection ==
    <>[][\A o \in Org : ~SetAccountOrg(o)]_rosterVars /\ <>(gpc # "asleep")
        => <>[](\A o \in Org : o \in chosen <=> rows[o] # Nothing)

\* No edit of the selection is left to the cadence: when no pass runs and no wake
\* is stored, the panel has the organisations that are selected, wherever in the
\* passes before an edit fell.
SelectionIsShown ==
    gpc = "asleep" /\ ~gwake => \A o \in Org : o \in chosen <=> rows[o] # Nothing

\* What is remembered of the runners is what GitHub said of them, in the store
\* and on the panel: their clocks, their alarms and what was forgotten; and it is
\* shown of the organisations that are selected.
RosterIsTrue ==
    RosterTypeOK /\ LastSeenIsTrue /\ AlarmIsEarned /\ ForgetSticks /\ SelectionIsShown
=============================================================================

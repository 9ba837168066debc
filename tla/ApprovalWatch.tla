--------------------------- MODULE ApprovalWatch ---------------------------
(***************************************************************************)
(* Banners for runs parked at an approval gate: the GitHub pass reads the  *)
(* repositories one after the other, then the preference, and only then    *)
(* compares with the pass before.  At most one run of a repository is      *)
(* parked at a time; a run that leaves its gate and is back before any     *)
(* pass looked has not left it.                                            *)
(***************************************************************************)
EXTENDS Naturals

CONSTANTS
    GateRepo,   \* repositories
    MaxRun      \* bound: run ids are reused after this many

ASSUME ApprovalWatchAssumption == MaxRun \in Nat /\ MaxRun >= 3

VARIABLES
    parked,     \* the run at a gate of the repository, or 0
    approvals,  \* notify_on_approval_needed
    apc,        \* the pass: "asleep", "read", "observe"
    reading,    \* what the pass has read: Unasked, 0 or a run
    asked,      \* the preference as the pass read it
    seen,       \* the runs of the last pass
    seeded,     \* some pass has been compared
    told,       \* history: banners of the parked run, saturated at 2
    blind,      \* history: a pass could not read the repository since it parked
    quiet,      \* history: it parked before the seeding, or with the preference
                \* off or changed since
    silenced    \* history: untold, it was read by a pass that announces nothing

watchVars    == <<apc, reading, asked, seen, seeded>>
approvalVars == <<parked, approvals, watchVars, told, blind, quiet, silenced>>

Unasked == MaxRun + 1
Run     == 0..MaxRun

ApprovalInit ==
    /\ parked \in [GateRepo -> {0, 1}] /\ approvals \in BOOLEAN
    /\ apc = "asleep" /\ asked = FALSE /\ seeded = FALSE
    /\ reading = [r \in GateRepo |-> Unasked] /\ seen = [r \in GateRepo |-> 0]
    /\ told = [r \in GateRepo |-> 0] /\ blind = [r \in GateRepo |-> FALSE]
    /\ quiet = [r \in GateRepo |-> TRUE] /\ silenced = [r \in GateRepo |-> FALSE]

\* A run reaches a gate, with an id nobody remembers; which one is no matter.
Park(r) ==
    /\ parked[r] = 0
    /\ parked' = [parked EXCEPT ![r] =
          CHOOSE run \in 1..MaxRun : run \notin {seen[r], reading[r]}]
    /\ quiet' = [quiet EXCEPT ![r] = ~(seeded /\ approvals)]
    /\ UNCHANGED <<approvals, watchVars, told, blind, silenced>>

\* It is approved or cancelled.
Unpark(r) ==
    /\ parked[r] # 0 /\ parked' = [parked EXCEPT ![r] = 0]
    /\ told' = [told EXCEPT ![r] = 0] /\ blind' = [blind EXCEPT ![r] = FALSE]
    /\ quiet' = [quiet EXCEPT ![r] = TRUE] /\ silenced' = [silenced EXCEPT ![r] = FALSE]
    /\ UNCHANGED <<approvals, watchVars>>

ToggleApprovals ==
    /\ approvals' = ~approvals /\ quiet' = [r \in GateRepo |-> TRUE]
    /\ UNCHANGED <<parked, watchVars, told, blind, silenced>>

BeginReading ==
    /\ apc = "asleep" /\ apc' = "read"
    /\ UNCHANGED <<parked, approvals, reading, asked, seen, seeded, told, blind, quiet, silenced>>

\* One repository: its parked run, or nothing when it cannot be read.
ReadRepo(r) ==
    /\ apc = "read" /\ reading[r] = Unasked
    /\ \/ /\ reading' = [reading EXCEPT ![r] = parked[r]] /\ UNCHANGED blind
       \/ /\ reading' = [reading EXCEPT ![r] = 0]
          /\ blind' = [blind EXCEPT ![r] = parked[r] # 0]
    /\ UNCHANGED <<parked, approvals, apc, asked, seen, seeded, told, quiet, silenced>>

ReadApprovals ==
    /\ apc = "read" /\ \A r \in GateRepo : reading[r] # Unasked
    /\ apc' = "observe" /\ asked' = approvals
    /\ UNCHANGED <<parked, approvals, reading, seen, seeded, told, blind, quiet, silenced>>

\* Mutant: a baseline is kept only of what was announced.
OnlyAnnounced == IF seeded /\ ~asked THEN seen ELSE reading

\* Mutant: the runs ever seen are not kept, only those that were new.
OnlyNew == [r \in GateRepo |-> IF reading[r] = seen[r] THEN 0 ELSE reading[r]]

\* The baseline moves on whether or not banners are wanted.
NextSeen == reading

\* Mutant: a repository that has a parked run is not looked at again.
PerRepo == IF seeded /\ asked THEN {r \in GateRepo : reading[r] # 0 /\ seen[r] = 0} ELSE {}

\* `ApprovalWatch::observe`, and the banners it asks for.
Notices ==
    IF seeded /\ asked THEN {r \in GateRepo : reading[r] \notin {0, seen[r]}} ELSE {}

ObserveGates ==
    /\ apc = "observe" /\ apc' = "asleep"
    /\ reading' = [r \in GateRepo |-> Unasked] /\ asked' = FALSE
    /\ seen' = NextSeen /\ seeded' = TRUE
    /\ told' = [r \in GateRepo |-> IF r \in Notices /\ reading[r] = parked[r] /\ told[r] < 2
                                   THEN told[r] + 1 ELSE told[r]]
    /\ silenced' = [r \in GateRepo |->
          \/ silenced[r]
          \/ told[r] = 0 /\ ~(seeded /\ asked) /\ reading[r] = parked[r] /\ parked[r] # 0]
    /\ UNCHANGED <<parked, approvals, blind, quiet>>

ApprovalNext ==
    \/ \E r \in GateRepo : Park(r) \/ Unpark(r) \/ ReadRepo(r)
    \/ ToggleApprovals \/ BeginReading \/ ReadApprovals \/ ObserveGates

ApprovalSpec == ApprovalInit /\ [][ApprovalNext]_approvalVars

----------------------------------------------------------------------------
(* Properties.                                                             *)

ApprovalTypeOK ==
    /\ parked \in [GateRepo -> Run] /\ seen \in [GateRepo -> Run]
    /\ reading \in [GateRepo -> Run \union {Unasked}]
    /\ apc \in {"asleep", "read", "observe"}
    /\ approvals \in BOOLEAN /\ asked \in BOOLEAN /\ seeded \in BOOLEAN
    /\ told \in [GateRepo -> 0..2]
    /\ blind \in [GateRepo -> BOOLEAN] /\ quiet \in [GateRepo -> BOOLEAN]
    /\ silenced \in [GateRepo -> BOOLEAN]

\* One parked run is one banner, unless its repository could not be read in
\* between ("an extra banner for a gate that is genuinely still open beats
\* silence"), and however often the preference is switched (`observe`).
NeverToldTwice == \A r \in GateRepo : told[r] = 2 => blind[r]

\* What the first pass found parked, or a pass with banners off, is not
\* announced later: the preference drops banners, it does not queue them
\* ("it suppresses the notices, not the bookkeeping").
QuietStaysQuiet == \A r \in GateRepo : silenced[r] /\ told[r] > 0 => blind[r]

\* A run that parks while banners are on is told by the first pass that has
\* read it: once a pass is over, it is told or that pass read it too early.
NeverSilent ==
    [][ObserveGates => \A r \in GateRepo :
        parked[r] # 0 /\ reading[r] = parked[r] /\ ~quiet[r] => told'[r] > 0]_approvalVars

\* A waiting run is announced once, and not at all if it was silenced.
ToldOnceAtMost == ApprovalTypeOK /\ NeverToldTwice /\ QuietStaysQuiet
=============================================================================

---------------------------- MODULE UpdateGuard ----------------------------
(***************************************************************************)
(* What stands in front of the unattended update of an agent: the guard of *)
(* the systemd oneshot (update-guard.sh) and the update mode of the        *)
(* launchd launcher (run-agent.sh).  Daily, no catch-up: a firing soon     *)
(* after a wake or a boot, or within an interval of the last attempt, is   *)
(* discarded.  Firings come at any time or never: one that the host sleeps *)
(* through is missed.  The clock may be stepped, the host sleeps and       *)
(* restarts.                                                               *)
(***************************************************************************)
EXTENDS Integers

CONSTANTS
    Interval,   \* MIN_INTERVAL_SECS, in ticks
    Settle      \* WAKE_SETTLE_SECS, in ticks

ASSUME GuardAssumption == Interval \in Nat /\ Settle \in 1..Interval

VARIABLES
    platform,   \* "systemd" or "launchd"
    counter,    \* the kernel keeps a count of suspends
    stamp,      \* "none", "unreadable" or "there"
    age,        \* when there: the clock less the stamp, -Furthest..Interval
    awake,      \* ticks since the last wake or boot, 0..Settle
    up,         \* ticks since the boot, 0..Settle
    slept,      \* the host has slept since the boot
    kept,       \* the system manager has not forgotten the last resume
    outcome,    \* of the last firing since a disturbance: "none", "run",
                \* "hold", or a discard, by the settle rule ("settling") or by
                \* the interval rule ("discard")
    sinceTry,   \* history: ticks since the last attempt, 0..Interval
    meddled,    \* history: the clock or the stamp was changed since then
    calm        \* history: ticks since the first of the discards by the second
                \* rule that came after a disturbance

bootVars    == <<up, slept, kept>>
historyVars == <<sinceTry, meddled, calm>>
guardVars   == <<platform, counter, stamp, age, awake, bootVars, outcome, historyVars>>

\* How far ahead of the clock a stamp may be.
Furthest == 3 * Interval

Upto(n, limit) == IF n > limit THEN limit ELSE n

GuardInit ==
    /\ platform \in {"systemd", "launchd"} /\ counter \in BOOLEAN
    /\ stamp \in {"none", "unreadable"} /\ age = 0
    /\ awake = 0 /\ up = 0 /\ slept = FALSE /\ kept = FALSE
    /\ outcome = "none" /\ sinceTry = Interval /\ meddled = FALSE /\ calm = 0

----------------------------------------------------------------------------
(* The host.                                                               *)

GuardTick ==
    /\ age' = Upto(age + 1, Interval) /\ awake' = Upto(awake + 1, Settle)
    /\ up' = Upto(up + 1, Settle) /\ sinceTry' = Upto(sinceTry + 1, Interval)
    /\ calm' = IF outcome = "discard" THEN Upto(calm + 1, 2 * Interval) ELSE 0
    /\ UNCHANGED <<platform, counter, stamp, slept, kept, outcome, meddled>>

Disturbed == outcome' = "none" /\ calm' = 0

\* The monotonic clock stops while the host sleeps, the wall clock goes on.
SleepAndWake ==
    /\ \E d \in 1..Interval :
          age' = Upto(age + d, Interval) /\ sinceTry' = Upto(sinceTry + d, Interval)
    /\ awake' = 0 /\ slept' = TRUE /\ kept' = TRUE /\ Disturbed
    /\ UNCHANGED <<platform, counter, stamp, up, meddled>>

Reboot ==
    /\ awake' = 0 /\ up' = 0 /\ slept' = FALSE /\ kept' = FALSE /\ Disturbed
    /\ UNCHANGED <<platform, counter, stamp, age, sinceTry, meddled>>

\* The system manager collects sleep.target once the sleep cycle has ended.
ForgetResume ==
    /\ kept /\ kept' = FALSE
    /\ UNCHANGED <<platform, counter, stamp, age, awake, up, slept, outcome, historyVars>>

\* The clock is set, by the network or a restored snapshot, and with it how
\* long ago the launcher takes the last wake to be; or somebody damages or
\* removes the stamp.
Meddle ==
    /\ \/ stamp = "there" /\ age' \in -Furthest..Interval /\ UNCHANGED stamp
       \/ stamp' \in {"none", "unreadable"} \ {stamp} /\ age' = 0
    /\ awake' \in IF platform = "launchd" THEN 0..Settle ELSE {awake}
    /\ meddled' = TRUE /\ Disturbed
    /\ UNCHANGED <<platform, counter, bootVars, sinceTry>>

----------------------------------------------------------------------------
(* A firing.                                                               *)

\* Mutant: a resume nobody can place in time is taken to be just now.
UnknownIsNow(asked) ==
    IF platform = "launchd" \/ (asked /\ kept) THEN awake < Settle
    ELSE IF asked /\ ~(counter /\ slept) THEN up < Settle ELSE TRUE

\* The settle rule.  The launcher reads the kernel's wake time.  The guard
\* asks the system manager: a zero is a boot that has not slept, unless the
\* kernel has counted suspends; then, or unasked, the rule does not apply.
TooSoonAfterWake(asked) ==
    IF platform = "launchd" \/ (asked /\ kept) THEN awake < Settle
    ELSE asked /\ ~(counter /\ slept) /\ up < Settle

\* Mutant: a stamp ahead of the clock is discarded, however far.
NeverTooFar == FALSE

\* A stamp more than an interval ahead of the clock holds the guard; the
\* launcher knows no such rule.
TooFarAhead == platform = "systemd" /\ age < -Interval

\* The interval rule; a stamp ahead of the clock is a clock that went back.
StampRule ==
    CASE stamp = "none" -> "run"
      [] stamp = "unreadable" -> "hold"
      [] stamp = "there" /\ TooFarAhead -> "hold"
      [] stamp = "there" /\ ~TooFarAhead -> IF age < Interval THEN "discard" ELSE "run"

\* Mutant: the stamp is left to an update that succeeds.
StampedAfter(succeeds) ==
    [stamp |-> IF succeeds THEN "there" ELSE stamp, age |-> IF succeeds THEN 0 ELSE age]

\* Stamped before the attempt, whatever comes of that.
Stamped(succeeds) == [stamp |-> "there", age |-> 0]

\* A firing that cannot be placed in time (the clock, the activation, the
\* count of suspends, or the launcher's wake and boot times cannot be read) is
\* held, and so is an attempt that cannot be recorded.
Fire(placed, asked, recorded, succeeds) ==
    LET said == IF ~placed THEN "hold"
                ELSE IF TooSoonAfterWake(asked) THEN "settling" ELSE StampRule
        verdict == IF said = "run" /\ ~recorded THEN "hold" ELSE said
    IN  /\ outcome' = verdict
        /\ IF verdict = "run"
           THEN /\ stamp' = Stamped(succeeds).stamp /\ age' = Stamped(succeeds).age
                /\ sinceTry' = 0 /\ meddled' = FALSE /\ calm' = 0
           ELSE /\ calm' = IF verdict = "discard" THEN calm ELSE 0
                /\ UNCHANGED <<stamp, age, sinceTry, meddled>>
        /\ UNCHANGED <<platform, counter, awake, bootVars>>

GuardFiring ==
    \E placed, asked, recorded, succeeds \in BOOLEAN : Fire(placed, asked, recorded, succeeds)

GuardNext ==
    GuardTick \/ SleepAndWake \/ Reboot \/ ForgetResume \/ Meddle \/ GuardFiring

\* Time goes on while the host is awake.  Nothing is assumed of the timer: a
\* sleep may take every firing, or a wake come shortly before each.
GuardFairness == WF_guardVars(GuardTick)

GuardSpec == GuardInit /\ [][GuardNext]_guardVars /\ GuardFairness

----------------------------------------------------------------------------
(* Properties.                                                             *)

GuardTypeOK ==
    /\ stamp \in {"none", "unreadable", "there"} /\ age \in -Furthest..Interval
    /\ awake \in 0..Settle /\ up \in 0..Settle /\ sinceTry \in 0..Interval
    /\ kept => slept
    /\ outcome \in {"none", "run", "discard", "settling", "hold"} /\ calm \in 0..2 * Interval
    /\ stamp = "there" /\ ~meddled => age = sinceTry

\* Two attempts are an interval apart by any clock, failed ones included,
\* unless somebody changed the clock or the stamp between them.
AttemptsApart ==
    [][GuardFiring /\ outcome' = "run" /\ ~meddled => sinceTry >= Interval]_guardVars

WouldDiscard == \E asked \in BOOLEAN : TooSoonAfterWake(asked) \/ StampRule = "discard"

\* A discard resolves itself: two intervals after the first one, whatever the
\* clock did before, none is left; what would not resolve itself is held.
GuardDiscardsEnd == platform = "systemd" /\ calm = 2 * Interval => ~WouldDiscard

\* A firing that can be placed, on a host that has been awake for the settling
\* time.
SettledFiring ==
    /\ awake = Settle
    /\ \E asked, recorded, succeeds \in BOOLEAN : Fire(TRUE, asked, recorded, succeeds)

\* What the host has to grant, for nothing else does: it stays awake for the
\* settling time again and again, and the firings do not for ever miss those
\* moments.
HostAllows == []<>(awake = Settle) /\ SF_guardVars(SettledFiring)

\* On a host that grants it the job is attempted or held again and again,
\* whatever else the host and the system manager do in between (sleeps, boots,
\* resumes forgotten), once nobody meddles any more.  A host that does not, one
\* that goes to sleep before each firing or wakes just before it, may never be
\* updated: the cadence is without catch-up.
NeverStarves ==
    HostAllows /\ <>[][~Meddle]_guardVars => []<>(outcome \in {"run", "hold"})

\* A discarded firing is followed by one that is not.
GuardInv == GuardTypeOK /\ GuardDiscardsEnd

\* Unattended updates are not repeated, nor given up on a host that is awake
\* for long enough now and then.
AttemptsArePaced == AttemptsApart /\ NeverStarves
=============================================================================

----------------------------- MODULE PlanUsage -----------------------------
(***************************************************************************)
(* The plan rows of the Usage panel (app/src-tauri/src/plan_usage.rs and   *)
(* main.rs): one loop reads the operator's Claude and then Codex sign-in,  *)
(* each behind its own opt-in and on one cadence, while Settings turns     *)
(* them on and off.                                                        *)
(*                                                                         *)
(* The loop runs on the async runtime and the Settings command on the      *)
(* window's thread.  They share the store (under one lock), the two plan   *)
(* sources (under another) and a Notify that holds one permit.  Neither    *)
(* takes one lock while it holds the other, so each lock region is a step. *)
(*                                                                         *)
(* Time is relative: due[p] is how long until provider p's due time, alarm *)
(* how long the loop still sleeps, elapsed how old the timestamp is that   *)
(* the loop took when it began on a provider.  A tick is any unit.  A due  *)
(* time further back than Longest cannot be told from one Longest back.    *)
(***************************************************************************)
EXTENDS Integers, FiniteSetsExt

CONSTANTS
    Cadence,   \* the interval of PanelInterval::PlanUsage
    Longest,   \* bound: the longest that one provider's turn takes
    Retry,     \* the waits a Retry-After may ask for
    MaxRetry   \* bound: the longest of them

ASSUME ConstantsAssumption ==
    /\ Cadence \in Nat \ {0}
    /\ Longest \in Nat
    /\ MaxRetry \in Nat /\ Retry \subseteq 0..MaxRetry

Claude   == 1
Codex    == 2
Provider == {Claude, Codex}    \* in the order of a pass

Larger(a, b) == IF a >= b THEN a ELSE b

VARIABLES
    on,        \* each opt-in in memory
    disk,      \* ... and in store.json
    reading,   \* whether there is a reading; history: whether it was begun
               \* since the opt-in was last flipped
    parked,    \* the keychain refused
    due,       \* how long until the next read may start
    denied,    \* history: a refusal was recorded, and no flip has begun or
               \* ended since
    owed,      \* history: what is left of the Retry-After, 0 after a flip
    pc, turn,  \* where the loop is, and at which provider
    asked,     \* the opt-ins as the loop last read them
    elapsed,   \* how old the loop's timestamp is
    matching,  \* the generation has not moved since the read began
    fresh,     \* history: nor has the opt-in been flipped since
    alarm,     \* how long the loop still sleeps
    wake,      \* `plan_usage_wake` holds a permit
    ui, edited \* where the Settings command is, and whose opt-in it flips

vars == <<on, disk, reading, parked, due, denied, owed, pc, turn, asked,
          elapsed, matching, fresh, alarm, wake, ui, edited>>
store   == <<on, disk>>
sources == <<reading, parked, due, denied, owed>>
loop    == <<pc, turn, asked, elapsed, matching, fresh, alarm>>
command == <<ui, edited>>

AllOff == [p \in Provider |-> FALSE]

----------------------------------------------------------------------------
\* The state the app starts in: the opt-ins are what store.json holds.
Launched(saved) ==
    /\ on = saved /\ disk = saved
    /\ reading = [p \in Provider |-> "none"]
    /\ parked = AllOff /\ denied = AllOff
    /\ due = [p \in Provider |-> -Longest] /\ owed = [p \in Provider |-> 0]
    /\ pc = "ask" /\ turn = Claude /\ asked = AllOff /\ elapsed = 0
    /\ matching = FALSE /\ fresh = FALSE /\ alarm = 0
    /\ wake = FALSE /\ ui = "idle" /\ edited = Claude

Init == \E saved \in [Provider -> BOOLEAN] : Launched(saved)

\* Quitting and launching again, at any point.
Relaunch ==
    /\ on' = disk /\ disk' = disk
    /\ reading' = [p \in Provider |-> "none"]
    /\ parked' = AllOff /\ denied' = AllOff
    /\ due' = [p \in Provider |-> -Longest] /\ owed' = [p \in Provider |-> 0]
    /\ pc' = "ask" /\ turn' = Claude /\ asked' = AllOff /\ elapsed' = 0
    /\ matching' = FALSE /\ fresh' = FALSE /\ alarm' = 0
    /\ wake' = FALSE /\ ui' = "idle" /\ edited' = Claude

----------------------------------------------------------------------------
(* The loop: `plan_usage_loop`, and `poll_logged` at each provider's turn. *)

\* The loop takes the time, then reads the opt-in under the store's lock.
Ask ==
    /\ pc = "ask"
    /\ asked' = on /\ elapsed' = 0 /\ pc' = "gate"
    /\ UNCHANGED <<store, sources, turn, matching, fresh, alarm, wake, command>>

\* On to Codex, or to the end of the pass.
NextTurn ==
    /\ IF turn = Claude THEN turn' = Codex /\ pc' = "ask"
                        ELSE turn' = Claude /\ pc' = "inputs"
    /\ asked' = AllOff /\ elapsed' = 0 /\ matching' = FALSE /\ fresh' = FALSE

\* Mutant: a provider that is off ends the pass.
EndPass ==
    /\ turn' = Claude /\ pc' = "inputs"
    /\ asked' = AllOff /\ elapsed' = 0 /\ matching' = FALSE /\ fresh' = FALSE

\* `PlanSource::reset`, but for the generation.
Cleared(p) ==
    /\ reading' = [reading EXCEPT ![p] = "none"]
    /\ parked' = [parked EXCEPT ![p] = FALSE]
    /\ due' = [due EXCEPT ![p] = -Longest]

\* Whether `gate` finds p's due time at or before the loop's timestamp.
IsDue(p) == due[p] <= -elapsed

\* Mutant: what an earlier "on" left stays.
GateOffKeeps ==
    /\ pc = "gate" /\ ~asked[turn]
    /\ NextTurn
    /\ UNCHANGED <<store, sources, alarm, wake, command>>

\* Mutant: a provider that is off ends the pass.
GateOffEnds ==
    /\ pc = "gate" /\ ~asked[turn]
    /\ Cleared(turn) /\ EndPass
    /\ UNCHANGED <<store, denied, owed, alarm, wake, command>>

\* `Gate::Off`: what an earlier "on" left is dropped.
GateOff ==
    /\ pc = "gate" /\ ~asked[turn]
    /\ Cleared(turn) /\ NextTurn
    /\ UNCHANGED <<store, denied, owed, alarm, wake, command>>

\* `Gate::Parked` and `Gate::Wait`.
GateSkip ==
    /\ pc = "gate" /\ asked[turn] /\ (parked[turn] \/ ~IsDue(turn))
    /\ NextTurn
    /\ UNCHANGED <<store, sources, alarm, wake, command>>

\* Mutant: the cadence alone decides.
StartReadParked ==
    /\ pc = "gate" /\ asked[turn] /\ IsDue(turn)
    /\ due' = [due EXCEPT ![turn] = Cadence - elapsed]
    /\ pc' = "reading" /\ matching' = TRUE /\ fresh' = TRUE
    /\ UNCHANGED <<store, reading, parked, denied, owed, turn, asked, elapsed,
                   alarm, wake, command>>

\* `Gate::Due`: the sign-in of this turn's provider is about to be read.  The
\* next read is a cadence after the timestamp.
StartRead ==
    /\ pc = "gate" /\ asked[turn] /\ ~parked[turn] /\ IsDue(turn)
    /\ due' = [due EXCEPT ![turn] = Cadence - elapsed]
    /\ pc' = "reading" /\ matching' = TRUE /\ fresh' = TRUE
    /\ UNCHANGED <<store, reading, parked, denied, owed, turn, asked, elapsed,
                   alarm, wake, command>>

\* A reading that is recorded.
Recorded ==
    /\ reading' = [reading EXCEPT ![turn] = IF fresh THEN "current" ELSE "older"]
    /\ UNCHANGED <<parked, due, denied, owed>>

\* Mutant: the Retry-After is forgotten.
RecordedFailureAtCadence(r) ==
    /\ due' = [due EXCEPT ![turn] = Cadence - elapsed]
    /\ owed' = [owed EXCEPT ![turn] = r]
    /\ UNCHANGED <<reading, parked, denied>>

\* A failure that is recorded: a Retry-After of r (0 when there is none) is
\* counted from the timestamp, and what was read before stays.
RecordedFailure(r) ==
    /\ due' = [due EXCEPT ![turn] = Larger(Cadence, r) - elapsed]
    /\ owed' = [owed EXCEPT ![turn] = r]
    /\ UNCHANGED <<reading, parked, denied>>

\* The keychain refused.  Only Claude's sign-in is in it; Codex's is a file.
RecordedRefusal ==
    /\ turn = Claude
    /\ parked' = [parked EXCEPT ![turn] = TRUE]
    /\ denied' = [denied EXCEPT ![turn] = TRUE]
    /\ UNCHANGED <<reading, due, owed>>

\* Mutant: the answer lands whatever happened meanwhile.
LandAnyway ==
    /\ pc = "reading"
    /\ Recorded \/ RecordedRefusal \/ \E r \in Retry \union {0} : RecordedFailure(r)
    /\ NextTurn
    /\ UNCHANGED <<store, alarm, wake, command>>

\* The answer.  One that comes after a reset is dropped.
Land ==
    /\ pc = "reading"
    /\ \/ /\ matching
          /\ \/ Recorded
             \/ RecordedRefusal
             \/ \E r \in Retry \union {0} : RecordedFailure(r)
       \/ ~matching /\ UNCHANGED sources
    /\ NextTurn
    /\ UNCHANGED <<store, alarm, wake, command>>

\* The end of a pass: the opt-ins once more, under the store's lock.
Inputs ==
    /\ pc = "inputs"
    /\ asked' = on /\ pc' = "sleep"
    /\ UNCHANGED <<store, sources, turn, elapsed, matching, fresh, alarm, wake, command>>

\* Mutant: the loop sleeps a whole cadence.
WholeCadence == Cadence

\* `next_wake`: until the first provider that is on and not parked is due, at
\* least one unit and at most a cadence.
NextWake ==
    LET waits == {due[p] : p \in {q \in Provider : asked[q] /\ ~parked[q]}}
    IN  IF waits = {} \/ Min(waits) > Cadence THEN Cadence
        ELSE Larger(Min(waits), 1)

Sleep ==
    /\ pc = "sleep"
    /\ alarm' = NextWake /\ pc' = "asleep" /\ asked' = AllOff
    /\ UNCHANGED <<store, sources, turn, elapsed, matching, fresh, wake, command>>

\* `tokio::select!`: the timer, or the permit, which is taken.
Wake ==
    /\ pc = "asleep"
    /\ \/ wake /\ wake' = FALSE
       \/ alarm = 0 /\ UNCHANGED wake
    /\ pc' = "ask" /\ alarm' = 0
    /\ UNCHANGED <<store, sources, turn, asked, elapsed, matching, fresh, command>>

----------------------------------------------------------------------------
(* Settings: `settings_set_plan_usage`, and everything else that saves the *)
(* store or wakes the loop.                                                *)

\* Mutant: a failed save leaves the opt-in on.
FlippedAnyway(p, v, saved) ==
    /\ on' = [on EXCEPT ![p] = v]
    /\ disk' = IF saved THEN [on EXCEPT ![p] = v] ELSE disk

\* Under the store's lock: the opt-in is set, the store is saved whole, and
\* "on" is taken back if the save failed.
Flipped(p, v, saved) ==
    /\ on' = [on EXCEPT ![p] = v /\ saved]
    /\ disk' = IF saved THEN [on EXCEPT ![p] = v] ELSE disk

Flip(p, v, saved) ==
    /\ ui = "idle" /\ ui' = "reset" /\ edited' = p
    /\ Flipped(p, v, saved)
    /\ reading' = [reading EXCEPT ![p] = IF @ = "current" THEN "older" ELSE @]
    /\ denied' = [denied EXCEPT ![p] = FALSE] /\ owed' = [owed EXCEPT ![p] = 0]
    /\ fresh' = (fresh /\ turn # p)
    /\ UNCHANGED <<parked, due, pc, turn, asked, elapsed, matching,
                   alarm, wake>>

\* Under the sources' lock: the reset.
Reset ==
    /\ ui = "reset" /\ ui' = "notify"
    /\ Cleared(edited)
    /\ denied' = [denied EXCEPT ![edited] = FALSE]
    /\ owed' = [owed EXCEPT ![edited] = 0]
    /\ matching' = (matching /\ turn # edited)
    /\ UNCHANGED <<store, pc, turn, asked, elapsed, fresh, alarm, wake, edited>>

\* Mutant: the command ends without waking the loop.
NoNotify ==
    /\ ui = "notify" /\ ui' = "idle" /\ edited' = Claude
    /\ UNCHANGED <<store, sources, loop, wake>>

Notify ==
    /\ ui = "notify" /\ ui' = "idle" /\ edited' = Claude
    /\ wake' = TRUE
    /\ UNCHANGED <<store, sources, loop>>

\* Any other command that saves the store, or a pass of the containers panel,
\* which may do so between the two locks of a command.
SaveOther ==
    /\ disk' = on
    /\ UNCHANGED <<on, sources, loop, wake, command>>

\* A resume from sleep, or a cadence saved in Settings.
WakeOther ==
    /\ ~wake /\ wake' = TRUE
    /\ UNCHANGED <<store, sources, loop, command>>

Tick ==
    /\ pc \in {"gate", "reading"} => elapsed < Longest
    /\ elapsed' = IF pc \in {"gate", "reading"} THEN elapsed + 1 ELSE elapsed
    /\ due' = [p \in Provider |-> Larger(due[p] - 1, -Longest)]
    /\ owed' = [p \in Provider |-> Larger(owed[p] - 1, 0)]
    /\ alarm' = Larger(alarm - 1, 0)
    /\ UNCHANGED <<store, reading, parked, denied, pc, turn, asked, matching,
                   fresh, wake, command>>

----------------------------------------------------------------------------
LoopStep == \/ Ask \/ GateOff \/ GateSkip \/ StartRead \/ Land
            \/ Inputs \/ Sleep \/ Wake
Settings == \/ \E p \in Provider, v, saved \in BOOLEAN : Flip(p, v, saved)
            \/ Reset \/ Notify \/ SaveOther

\* What one launch of the app does.
Session == LoopStep \/ Settings \/ WakeOther \/ Tick
Next    == Session \/ Relaunch

Spec == Init /\ [][Next]_vars

\* The runtime and the window's thread keep running what they have begun, and
\* time passes.
FairSpec ==
    /\ Spec
    /\ WF_vars(LoopStep) /\ WF_vars(Reset) /\ WF_vars(Notify) /\ WF_vars(Tick)

----------------------------------------------------------------------------
(* Properties.                                                             *)

TypeOK ==
    /\ on \in [Provider -> BOOLEAN] /\ disk \in [Provider -> BOOLEAN]
    /\ reading \in [Provider -> {"none", "current", "older"}]
    /\ parked \in [Provider -> BOOLEAN] /\ denied \in [Provider -> BOOLEAN]
    /\ due \in [Provider -> -Longest..Larger(Cadence, MaxRetry)]
    /\ owed \in [Provider -> 0..MaxRetry]
    /\ pc \in {"ask", "gate", "reading", "inputs", "sleep", "asleep"}
    /\ turn \in Provider /\ asked \in [Provider -> BOOLEAN]
    /\ elapsed \in 0..Longest
    /\ matching \in BOOLEAN /\ fresh \in BOOLEAN
    /\ alarm \in 0..Cadence
    /\ wake \in BOOLEAN /\ ui \in {"idle", "reset", "notify"} /\ edited \in Provider

\* No command is under way and the loop has taken the last permit.
Settled == ui = "idle" /\ ~wake

\* A read that was in flight when the operator flipped the opt-in cannot land
\* its result afterwards (`PlanSource::generation`): the only reading from
\* before a flip is the one the flip is just about to drop.
ReadingIsCurrent ==
    \A p \in Provider : reading[p] = "older" => ui = "reset" /\ edited = p

\* Once the loop sleeps after a flip, a provider that is off has no reading
\* (`PlanSource::state`: absent when the provider is off), whatever was in
\* flight at the flip.
OffShowsNothing ==
    \A p \in Provider :
        Settled /\ pc = "asleep" /\ ~on[p] => reading[p] = "none"

\* "On is kept only if it persisted": what this session reads, the next launch
\* would read too.
OnIsPersisted == \A p \in Provider : on[p] => disk[p]

\* What is shown and read follows the opt-ins, whatever was in flight when one
\* was flipped and whatever failed to be saved.
ReadingsFollowOptIns == ReadingIsCurrent /\ OffShowsNothing /\ OnIsPersisted

\* The loop never sleeps past the time a provider that is on is due.
AlarmInTime ==
    \A p \in Provider :
        Settled /\ pc = "asleep" /\ on[p] /\ ~parked[p] => alarm <= Larger(due[p], 1)

Starts(p) == StartRead /\ turn = p

\* A "Deny" is not asked again until the toggle is flipped, whatever resets
\* and passes happen in between.
DeniedOnce == [][\A p \in Provider : Starts(p) => ~denied[p]]_vars

\* "No read before this instant: the service's `Retry-After`"
\* (plan_usage.rs:111), whatever passes, wakes and resets of the other provider
\* come in between: what a read cuts off the wait is at most the length of the
\* turn that was told to wait, since the wait is counted from its timestamp.
RetryAfterHonoured == [][\A p \in Provider : Starts(p) => owed[p] <= Longest]_vars

\* A provider is not asked again before it may be: not after a refusal, and not
\* before the time it told.
NotAskedTooSoon == DeniedOnce /\ RetryAfterHonoured

\* In a launch that runs on, every provider that is on is read in the end,
\* unless it parks or is turned off first.
DueIsRead ==
    <>[][Session]_vars => \A p \in Provider :
        on[p] ~> \/ pc = "reading" /\ turn = p
                 \/ parked[p] \/ ~on[p]

\* "A provider switched off is never read again in this session" (main.rs:4624)
\* and Codex turned off during Claude's read "must not be read after it"
\* (main.rs:3547).  Refuted: the opt-in is read before the sources' lock is
\* taken, and the flip and the reset may both fall in between.
OffNeverRead == [][\A p \in Provider : Starts(p) => on[p]]_vars

----------------------------------------------------------------------------
(* The inductive invariant: what each part of the loop has left to do about *)
(* what a flip may have left behind.                                        *)

\* The loop's copy of the opt-ins is out of date only while a command is under
\* way or has left a permit.
AskedIsCurrent ==
    Settled => /\ pc \in {"gate", "sleep"} => asked = on
               /\ pc = "reading" => on[turn]

\* A read flipped since it began still matches only until the reset.
FreshInv ==
    /\ pc # "reading" => ~matching /\ ~fresh
    /\ matching /\ ~fresh => ui = "reset" /\ edited = turn

\* A pass begins with Claude.
TurnInv == pc \in {"inputs", "sleep", "asleep"} => turn = Claude

\* The loop has p's turn ahead of it in this pass.
Ahead(p) ==
    \/ pc \in {"ask", "gate"} /\ turn <= p
    \/ pc = "reading" /\ turn < p

OffInv ==
    \A p \in Provider :
        ~on[p] /\ reading[p] # "none" => ~Settled \/ Ahead(p)

\* A refusal stays parked until the reset that ends a flip, unless the loop
\* finds the provider off first; then it is not read before the next flip.
DeniedInv ==
    \A p \in Provider :
        denied[p] =>
            /\ on[p] => parked[p]
            /\ pc = "gate" /\ turn = p => IF asked[p] THEN parked[p] ELSE ~on[p]

PlanInv ==
    TypeOK /\ ReadingIsCurrent /\ OnIsPersisted /\ AskedIsCurrent /\ FreshInv
    /\ TurnInv /\ OffInv /\ DeniedInv
=============================================================================

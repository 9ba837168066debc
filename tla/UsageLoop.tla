----------------------------- MODULE UsageLoop -----------------------------
(***************************************************************************)
(* The usage loop of the app: two halves on one loop, the walk of the      *)
(* Claude logs and the metered providers, each on its own cadence, with    *)
(* wakes that force a half and cadence edits that force none.  A pass      *)
(* takes time.  The wake is a notification that keeps one permit.          *)
(***************************************************************************)
EXTENDS Naturals, FiniteSets, Sequences

CONSTANTS Cadence     \* the cadences an operator may choose, in ticks

ASSUME CadenceAssumption == Cadence \subseteq Nat \ {0} /\ Cadence # {} /\ IsFiniteSet(Cadence)

Half == {"rollups", "providers"}

VARIABLES
    every,      \* the store: each half's cadence
    forced,     \* the halves whose `usage_*_due` flag is set
    permit,     \* the notification holds a permit
    waker,      \* what a wake has left to do, in order: halves, then "notify"
    editing,    \* a cadence is stored and its notification has yet to come
    upc,        \* the loop: "top", "swapped", "pass" or "asleep"
    took,       \* the halves whose flag this turn took
    turn,       \* the halves this turn still has to run
    since,      \* ticks since each half finished, 0..Longest, or Never
    deadline    \* ticks the loop will still sleep

usageVars == <<every, forced, permit, waker, editing, upc, took, turn, since, deadline>>

Longest == CHOOSE c \in Cadence : \A d \in Cadence : d <= c

\* Longer ago than any cadence.
Never == Longest + 1

UsageInit ==
    /\ every \in [Half -> Cadence]
    /\ forced = {} /\ permit = FALSE /\ waker = <<>> /\ editing = FALSE
    /\ upc = "top" /\ took = {} /\ turn = {}
    /\ since = [h \in Half |-> Never] /\ deadline = 0

----------------------------------------------------------------------------
(* Wakes, one at a time.                                                   *)

\* Mutant: the loop is woken before it can see what it was woken for.
NotifiesFirst(all) == IF all THEN <<"notify", "providers", "rollups">> ELSE <<"notify", "providers">>

\* `wake_usage`: the providers' flag, for Everything the rollups' flag, and
\* only then the notification.
WakeOrder(all) == IF all THEN <<"providers", "rollups", "notify">> ELSE <<"providers", "notify">>

BeginWake ==
    /\ waker = <<>> /\ \E all \in BOOLEAN : waker' = WakeOrder(all)
    /\ UNCHANGED <<every, forced, permit, editing, upc, took, turn, since, deadline>>

WakeUsage ==
    /\ waker # <<>> /\ waker' = Tail(waker)
    /\ IF waker[1] = "notify" THEN permit' = TRUE /\ UNCHANGED forced
       ELSE forced' = forced \union {waker[1]} /\ UNCHANGED permit
    /\ UNCHANGED <<every, editing, upc, took, turn, since, deadline>>

\* `panel_interval_save`: the store first, then the loop's notification.
SaveCadence ==
    /\ ~editing /\ editing' = TRUE
    /\ \E h \in Half, c \in Cadence : c # every[h] /\ every' = [every EXCEPT ![h] = c]
    /\ UNCHANGED <<forced, permit, waker, upc, took, turn, since, deadline>>

WakePanel ==
    /\ editing /\ editing' = FALSE /\ permit' = TRUE
    /\ UNCHANGED <<every, forced, waker, upc, took, turn, since, deadline>>

----------------------------------------------------------------------------
(* The loop.                                                               *)

Due(h) == since[h] >= every[h]

\* Mutant: one half rides on the other's turn.
Together(f) == IF f # {} \/ \E h \in Half : Due(h) THEN Half ELSE {}

\* Mutant: a forced half takes the turn for itself.
ForcedOnly(f) == IF f # {} THEN f ELSE {h \in Half : Due(h)}

\* `UsageClocks::turn`: a half is run that is due or was forced.
TurnOf(f) == f \union {h \in Half : Due(h)}

\* The two flags are taken one after the other, whatever they say.
TakeRollups ==
    /\ upc = "top" /\ upc' = "swapped"
    /\ took' = forced \intersect {"rollups"} /\ forced' = forced \ {"rollups"}
    /\ UNCHANGED <<every, permit, waker, editing, turn, since, deadline>>

TakeProviders ==
    /\ upc = "swapped" /\ upc' = "pass"
    /\ LET f == took \union (forced \intersect {"providers"})
       IN  took' = f /\ turn' = TurnOf(f)
    /\ forced' = forced \ {"providers"}
    /\ UNCHANGED <<every, permit, waker, editing, since, deadline>>

\* A half's clock is taken when it finishes; the rollups come first.
FinishHalf ==
    /\ upc = "pass" /\ turn # {}
    /\ LET h == IF "rollups" \in turn THEN "rollups" ELSE "providers"
       IN  turn' = turn \ {h} /\ since' = [since EXCEPT ![h] = 0]
    /\ UNCHANGED <<every, forced, permit, waker, editing, upc, took, deadline>>

Remaining(h) ==
    IF Due(h) THEN 0 ELSE every[h] - since[h]

\* Mutant: the loop sleeps until both halves are due.
Later == IF Remaining("rollups") < Remaining("providers") THEN Remaining("providers")
         ELSE Remaining("rollups")

\* `UsageClocks::sleep`: the shorter of the two remainders.
Sooner == IF Remaining("rollups") < Remaining("providers") THEN Remaining("rollups")
          ELSE Remaining("providers")

FallAsleep ==
    /\ upc = "pass" /\ turn = {} /\ upc' = "asleep" /\ took' = {}
    /\ deadline' = Sooner
    /\ UNCHANGED <<every, forced, permit, waker, editing, turn, since>>

\* The select is over when the sleep is or a permit is there.
UsageWoken ==
    /\ upc = "asleep" /\ permit /\ permit' = FALSE /\ upc' = "top" /\ deadline' = 0
    /\ UNCHANGED <<every, forced, waker, editing, took, turn, since>>

SleepOver ==
    /\ upc = "asleep" /\ deadline = 0 /\ upc' = "top"
    /\ UNCHANGED <<every, forced, permit, waker, editing, took, turn, since, deadline>>

\* Time passes in a pass, and in a sleep until it is over.
UsageTick ==
    /\ \/ upc = "pass" /\ turn # {}
       \/ upc = "asleep" /\ deadline > 0
    /\ since' = [h \in Half |-> IF since[h] >= Longest THEN since[h] ELSE since[h] + 1]
    /\ deadline' = IF upc = "asleep" THEN deadline - 1 ELSE deadline
    /\ UNCHANGED <<every, forced, permit, waker, editing, upc, took, turn>>

UsageStep == TakeRollups \/ TakeProviders \/ FinishHalf \/ FallAsleep \/ UsageWoken \/ SleepOver

UsageNext ==
    \/ BeginWake \/ WakeUsage \/ SaveCadence \/ WakePanel
    \/ UsageStep \/ UsageTick

\* The loop is scheduled, its requests have timeouts, a command that began
\* runs to its end, and time goes on: however many wakes cut its sleeps short,
\* the passes and the sleeps take time (strong, as it stops between them).
UsageFairness ==
    /\ WF_usageVars(UsageStep) /\ SF_usageVars(UsageTick)
    /\ WF_usageVars(WakeUsage) /\ WF_usageVars(WakePanel)

UsageSpec == UsageInit /\ [][UsageNext]_usageVars /\ UsageFairness

----------------------------------------------------------------------------
(* Properties.                                                             *)

UsageTypeOK ==
    /\ every \in [Half -> Cadence] /\ forced \subseteq Half /\ permit \in BOOLEAN
    /\ upc \in {"top", "swapped", "pass", "asleep"}
    /\ took \subseteq Half /\ turn \subseteq Half
    /\ since \in [Half -> 0..Never] /\ deadline \in 0..Longest
    /\ upc = "asleep" => turn = {} /\ took = {} /\ \A h \in Half : since[h] # Never

\* The loop never sleeps on a half it was woken for: while it sleeps with a
\* flag set, its notification is there or is still to come.
NeverSleepsOnAForce ==
    upc = "asleep" /\ forced # {} => permit \/ \E i \in DOMAIN waker : waker[i] = "notify"

\* It never sleeps past a half that is due by the cadence now stored, unless
\* the notification of that edit is there or to come.
NeverOversleeps ==
    upc = "asleep" => permit \/ editing \/ \A h \in Half : deadline <= Remaining(h)

\* A half that was not forced is never read sooner than its cadence after it
\* last finished: neither half rides on the other's turn.  (A cadence that is
\* shortened during a turn was read before.)
OwnCadence == [][\A h \in turn' \ turn : h \in took' \/ Due(h)]_usageVars

\* Unless somebody edits the cadences for ever, both halves are read again
\* and again, however often one of them is forced.
BothAreRead ==
    <>(upc # "top") /\ <>[]~editing => \A h \in Half : []<>(upc = "pass" /\ h \in turn)

\* Asleep, the usage loop misses neither a wake nor a cadence.
UsageInv == UsageTypeOK /\ NeverSleepsOnAForce /\ NeverOversleeps

\* Each half is read when it is due, not sooner, and for ever.
HalvesKeepTheirOwnTime == OwnCadence /\ BothAreRead
=============================================================================

------------------------------ MODULE Sampler ------------------------------
(***************************************************************************)
(* What an agent serves: the sampler's loop, the supervisor that restarts  *)
(* it, the GPU probe on a task of its own, and what /v1/health says of     *)
(* them (agent/src/metrics.rs, gpu.rs, server.rs).  Of a reading only the  *)
(* windows it was measured over are kept.  A tick is SAMPLE_INTERVAL; any  *)
(* number may pass between two steps of the loop (a mount that hangs, a    *)
(* lock), but for the write and its mark, which stand next to each other   *)
(* with nothing to wait for; the probe's own timers fire on time.          *)
(***************************************************************************)
EXTENDS Integers

CONSTANTS
    ProcessTicks,   \* PROCESS_SAMPLE_TICKS
    StaleIntervals, \* STALE_INTERVALS
    ProbeInterval,  \* PROBE_INTERVAL, in ticks
    ProbeTimeout,   \* PROBE_TIMEOUT, in ticks
    MaxPanics,      \* bound: panics of the loop
    Placeholder,    \* empty_snapshot
    NoRows          \* no processes enumerated yet

ASSUME SamplerAssumption ==
    /\ {ProcessTicks, StaleIntervals, ProbeInterval, ProbeTimeout} \subseteq Nat \ {0}
    /\ MaxPanics \in Nat

VARIABLES
    loopAt,     \* the loop: "priming", "asleep", "disks", "writing" or
                \* "marking"; "down" while the supervisor backs off
    napping,    \* its sleep, or the supervisor's, has a tick to go
    round,      \* tick, modulo ProcessTicks
    panics,     \* how often the loop panicked
    window,     \* ticks since each counter was last refreshed: those of every
                \* tick (CPU, network, disks), the `processes` handle's
                \* processes and that handle's own CPU counters
    cached,     \* cached_processes: the windows of the last enumeration
    reading,    \* the snapshot being computed
    served,     \* MetricsState.inner
    markAge,    \* last_sample, as an age
    writeAge,   \* history: the age of the last write to `served`
    mac,        \* the host is a Mac: the probe's first arm is IOKit
    card,       \* its GPU is there
    goneFor,    \* ticks since it is not, on a host that is not a Mac
    probeAt,    \* the probe: "iokit", "nvidia" or "asleep"
    probeFor,   \* ticks since it got there, where a timer runs
    gpu         \* GpuState: a reading, or Gpu::unknown

taskVars    == <<loopAt, napping, round, panics>>
dataVars    == <<window, cached, reading, served, markAge, writeAge>>
probeVars   == <<probeAt, probeFor, gpu>>
gpuVars    == <<mac, card, goneFor>>
samplerVars == <<taskVars, dataVars, probeVars, gpuVars>>

\* Ages and windows stop here, where nothing tells them apart any more.
Oldest == ProcessTicks
Stale  == StaleIntervals + 1

\* How long a reading may outlive its card: the probe that saw it, a sleep
\* and the probe that does not.
Outlives == ProbeInterval + 2 * ProbeTimeout

Older(age, limit) == IF age < limit THEN age + 1 ELSE limit

Window == [machine : 0..Oldest, procs : 0..Oldest, procCpu : 0..Oldest]

\* A row's CPU figure is a quotient: what was spent, over which window.
Rows       == [spent : 0..Oldest, over : 0..Oldest]

ASSUME NoRowsAssumption == NoRows \notin Rows

Snapshot   == [cpu : 0..Oldest, procs : Rows \cup {NoRows}]
Unmeasured == [cpu |-> 0, procs |-> NoRows]

FirstArm == IF mac THEN "iokit" ELSE "nvidia"

SamplerInit ==
    /\ loopAt = "priming" /\ napping = FALSE /\ round = 0 /\ panics = 0
    /\ window = [machine |-> 0, procs |-> 0, procCpu |-> 0]
    /\ cached = NoRows /\ reading = Unmeasured /\ served = Placeholder
    /\ markAge = 0 /\ writeAge = 0
    /\ mac \in BOOLEAN /\ card \in BOOLEAN /\ goneFor = 0
    /\ probeAt = FirstArm /\ probeFor = 0 /\ gpu = "unknown"

-----------------------------------------------------------------------------
(* The clock and the card                                                  *)

\* When a timer of the probe is due, it fires before the clock goes on.
ProbeIsDue ==
    \/ probeAt = "nvidia" /\ probeFor = ProbeTimeout
    \/ probeAt = "asleep" /\ probeFor = ProbeInterval

SamplerTick ==
    /\ ~ProbeIsDue /\ loopAt # "marking"
    /\ napping' = FALSE
    /\ window' = [w \in DOMAIN window |-> Older(window[w], Oldest)]
    /\ markAge' = Older(markAge, Stale)
    /\ writeAge' = Older(writeAge, Stale)
    /\ goneFor' = IF card \/ mac THEN 0 ELSE Older(goneFor, Outlives + 1)
    /\ probeFor' = IF probeAt = "iokit" THEN 0 ELSE probeFor + 1
    /\ UNCHANGED <<loopAt, round, panics, cached, reading, served, mac, card, probeAt, gpu>>

\* A driver is reloaded, the card is passed through to a machine and back.
CardMoves ==
    /\ card' = ~card /\ goneFor' = 0
    /\ UNCHANGED <<mac, taskVars, dataVars, probeVars>>

-----------------------------------------------------------------------------
(* The loop and its supervisor                                             *)

\* SamplerSystems::new refreshes both handles, so that the first reading is a
\* difference; then the loop sleeps an interval.
Prime ==
    /\ loopAt = "priming"
    /\ window' = [w \in DOMAIN window |-> 0]
    /\ cached' = NoRows /\ reading' = Unmeasured /\ round' = 0
    /\ loopAt' = "asleep" /\ napping' = TRUE
    /\ UNCHANGED <<panics, served, markAge, writeAge, probeVars, gpuVars>>

\* The counters that a tick refreshes: the processes' handle is not among them.
EveryTick   == {"machine"}
OneHandle   == {"machine", "procCpu"}
EachRefresh == EveryTick

\* The figures of a tick, each over the window since its last refresh.
RefreshMachine ==
    /\ loopAt = "asleep" /\ ~napping
    /\ reading' = [reading EXCEPT !.cpu = window.machine]
    /\ window' = [w \in DOMAIN window |-> IF w \in EachRefresh THEN 0 ELSE window[w]]
    /\ loopAt' = "disks"
    /\ UNCHANGED <<napping, round, panics, cached, served, markAge, writeAge, probeVars, gpuVars>>

\* The sampler waits for nothing that the probe does.
NoWait     == TRUE
ProbeRests == probeAt = "asleep"
MayCompute == NoWait

\* The disks, on every ProcessTicks-th tick the processes, and compute_snapshot.
\* It takes what the probe last stored, whatever that is, without waiting.
Compute ==
    /\ loopAt = "disks" /\ MayCompute
    /\ IF round = 0
       THEN /\ cached' = [spent |-> window.procs, over |-> window.procCpu]
            /\ window' = [window EXCEPT !.procs = 0, !.procCpu = 0]
       ELSE UNCHANGED <<cached, window>>
    /\ reading' = [reading EXCEPT !.procs = cached']
    /\ loopAt' = "writing"
    /\ UNCHANGED <<napping, round, panics, served, markAge, writeAge, probeVars, gpuVars>>

WriteSnapshot ==
    /\ loopAt = "writing"
    /\ served' = reading /\ reading' = Unmeasured /\ writeAge' = 0
    /\ loopAt' = "marking"
    /\ UNCHANGED <<napping, round, panics, window, cached, markAge, probeVars, gpuVars>>

\* mark_sampled, the next tick and its sleep.
MarkSampled ==
    /\ loopAt = "marking"
    /\ markAge' = 0
    /\ round' = (round + 1) % ProcessTicks
    /\ loopAt' = "asleep" /\ napping' = TRUE
    /\ UNCHANGED <<panics, window, cached, reading, served, writeAge, probeVars, gpuVars>>

\* A panic ends the inner task and nothing else; the supervisor sleeps.
SamplerPanics ==
    /\ panics < MaxPanics
    /\ loopAt \in {"priming", "asleep", "disks", "writing"} /\ ~napping
    /\ loopAt' = "down" /\ napping' = TRUE /\ panics' = panics + 1
    /\ UNCHANGED <<round, dataVars, probeVars, gpuVars>>

\* The loop starts over; what was served and marked stays.
KeepsMark   == markAge
Optimistic  == 0
MarkOfStart == KeepsMark

Respawn ==
    /\ loopAt = "down" /\ ~napping
    /\ loopAt' = "priming" /\ markAge' = MarkOfStart
    /\ UNCHANGED <<napping, round, panics, window, cached, reading, served, writeAge, probeVars, gpuVars>>

-----------------------------------------------------------------------------
(* The GPU probe                                                           *)

ProbeStarts ==
    /\ probeAt = "asleep" /\ probeFor = ProbeInterval
    /\ probeAt' = FirstArm /\ probeFor' = 0
    /\ UNCHANGED <<gpu, taskVars, dataVars, gpuVars>>

Probed(answer) ==
    /\ gpu' = answer /\ probeAt' = "asleep" /\ probeFor' = 0
    /\ UNCHANGED <<taskVars, dataVars, gpuVars>>

\* The registry is read on a blocking thread with no timeout: it may never
\* answer.  With nothing to say it leaves the turn to the next arm.
IokitReads    == probeAt = "iokit" /\ card /\ Probed("read")
IokitDeclines ==
    /\ probeAt = "iokit"
    /\ probeAt' = "nvidia" /\ probeFor' = 0
    /\ UNCHANGED <<gpu, taskVars, dataVars, gpuVars>>

\* The card was there at some moment since nvidia-smi was started.
NvidiaReads ==
    /\ probeAt = "nvidia" /\ ~mac /\ (card \/ goneFor <= probeFor)
    /\ Probed("read")

\* What each failure of the last arm stores, the timeout's included.
Unknown   == "unknown"
LastKnown == gpu
OnFailure == Unknown

\* No binary, an exit status, output nobody knows, or a run killed at its cap.
NvidiaFails == probeAt = "nvidia" /\ Probed(OnFailure)

-----------------------------------------------------------------------------
SamplerLoop == Prime \/ RefreshMachine \/ Compute \/ WriteSnapshot \/ MarkSampled \/ Respawn
GpuProbe    == ProbeStarts \/ IokitReads \/ IokitDeclines \/ NvidiaReads \/ NvidiaFails

SamplerNext == SamplerTick \/ CardMoves \/ SamplerLoop \/ SamplerPanics \/ GpuProbe

\* Both tasks run and the clock goes on; nothing makes IOKit answer.
SamplerFairness ==
    /\ WF_samplerVars(SamplerTick)
    /\ WF_samplerVars(SamplerLoop)
    /\ WF_samplerVars(ProbeStarts) /\ WF_samplerVars(NvidiaReads \/ NvidiaFails)

SamplerSpec == SamplerInit /\ [][SamplerNext]_samplerVars /\ SamplerFairness

-----------------------------------------------------------------------------
\* Ages and windows stay within their bounds, the loop and the probe where
\* their code has a place for them.
SamplerTypeOK ==
    /\ loopAt \in {"priming", "asleep", "disks", "writing", "marking", "down"}
    /\ napping \in BOOLEAN /\ round \in 0..ProcessTicks - 1 /\ panics \in 0..MaxPanics
    /\ window \in Window /\ cached \in Rows \cup {NoRows}
    /\ reading \in Snapshot /\ served \in Snapshot \cup {Placeholder}
    /\ markAge \in 0..Stale /\ writeAge \in 0..Stale
    /\ mac \in BOOLEAN /\ card \in BOOLEAN /\ goneFor \in 0..Outlives + 1
    /\ probeAt \in {"iokit", "nvidia", "asleep"} /\ gpu \in {"read", "unknown"}
    /\ probeFor \in 0..ProbeInterval \cup 0..ProbeTimeout

\* is_stale, and the status /v1/health answers with.
IsStale == markAge > StaleIntervals
Status  == IF IsStale THEN "degraded" ELSE "ok"

\* Every served figure is a difference over at least one interval, and a
\* process's CPU time is divided by the window it was spent in (the two
\* handles of SamplerSystems; with one, a busy minute over a second).
OwnWindows ==
    served # Placeholder =>
        /\ served.cpu >= 1
        /\ served.procs # NoRows /\ served.procs.spent >= 1
        /\ served.procs.over = served.procs.spent

\* A health check that says "ok" stands for numbers written in the last few
\* intervals, whatever panicked, hung or was restarted since: the exception
\* is an agent that has just begun and has none yet.
OkIsEarned == Status = "ok" => writeAge <= StaleIntervals

\* A card that is gone is unknown after two probes at most: its last reading
\* is not frozen.  The registry of a Mac may hang, and then it is.
GoneIsUnknown == ~mac /\ goneFor > Outlives => gpu = "unknown"

\* What is served is true: every figure over its own window, "ok" only of
\* fresh numbers, a card that is gone forgotten.
SamplerInv == SamplerTypeOK /\ OwnWindows /\ OkIsEarned /\ GoneIsUnknown

\* A sampler that was begun serves fresh numbers again and again once its
\* panics stop, though the probe may hang for good.
FreshAgain ==
    <>(loopAt # "priming") => []<>(served # Placeholder /\ markAge = 0 /\ Status = "ok")
=============================================================================

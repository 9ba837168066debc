--------------------------- MODULE WatchesProofs ---------------------------
(***************************************************************************)
(* Proofs about the parts of MCWatches: the watch of the hosts, the watch  *)
(* of the vendors' status pages and the sampler of an agent, for any hosts *)
(* and vendors, any debounce and any intervals.                            *)
(***************************************************************************)
EXTENDS HostWatch, VendorWatch, Sampler, TLAPS

----------------------------------------------------------------------------
(* HostWatch: the streak a card goes by is that of its present task, for   *)
(* every spawn starts it again.                                            *)

LEMMA CountedIs ==
    ASSUME NEW n \in 0..Threshold
    PROVE  /\ Counted(n) \in 0..Threshold
           /\ n = Threshold => Counted(n) = Threshold
  BY HostWatchAssumption DEF Counted

LEMMA HostInitInv == HostInit => CardsAreDebounced
  BY HostWatchAssumption DEF HostInit, CardsAreDebounced, HostTypeOK, Debounced

\* The steps of the poll set.
LEMMA TasksKeepCards ==
    ASSUME CardsAreDebounced, NEW h \in Host, SpawnHost(h) \/ DropHost(h) \/ Ask(h)
    PROVE  CardsAreDebounced'
<1> USE DEF CardsAreDebounced
<1>1. UNCHANGED <<wpc, loud, readings, seen, sight, notify>>
  BY DEF SpawnHost, DropHost, Ask, watchVars
<1>2. CASE SpawnHost(h)
  <2>1. PICK token \in {"polls", "blocked"} : task' = [task EXCEPT ![h] = token]
    BY <1>2 DEF SpawnHost
  <2>2. HostTypeOK'
    BY <1>1, <1>2, <2>1, HostWatchAssumption DEF SpawnHost, HostTypeOK
  <2>3. Debounced'
    BY <1>2, <2>1 DEF SpawnHost, HostTypeOK, Debounced
  <2> QED
    BY <2>2, <2>3
<1>3. CASE DropHost(h)
  <2>1. HostTypeOK'
    BY <1>1, <1>3 DEF DropHost, HostTypeOK
  <2>2. Debounced'
    BY <1>3 DEF DropHost, HostTypeOK, Debounced
  <2> QED
    BY <2>1, <2>2
<1>4. CASE Ask(h)
  BY <1>1, <1>4 DEF Ask, HostTypeOK, Debounced
<1> QED
  BY <1>2, <1>3, <1>4

\* What a poll comes to: a failure counts on the streak and on its history
\* alike, and the card turns when both are at the threshold.
LEMMA PollsKeepCards ==
    ASSUME CardsAreDebounced, NEW h \in Host,
           PollOk(h) \/ PollFails(h) \/ TokenUnavailable(h)
    PROVE  CardsAreDebounced'
<1> USE DEF CardsAreDebounced
<1>1. UNCHANGED <<task, wpc, loud, readings, seen, sight, notify>>
  BY DEF PollOk, PollFails, TokenUnavailable, watchVars
<1>2. CASE PollOk(h)
  <2>1. HostTypeOK'
    BY <1>1, <1>2, HostWatchAssumption DEF PollOk, StreakCleared, HostTypeOK
  <2>2. Debounced'
    BY <1>1, <1>2 DEF PollOk, HostTypeOK, Debounced
  <2> QED
    BY <2>1, <2>2
<1>3. CASE PollFails(h)
  <2>1. /\ streak[h] \in 0..Threshold /\ missed[h] = streak[h] /\ task[h] = "polls"
        /\ Threshold \in Nat \ {0}
    BY <1>3, HostWatchAssumption DEF PollFails, HostTypeOK
  <2>2. /\ streak' = [streak EXCEPT ![h] = Counted(streak[h])]
        /\ missed' = [missed EXCEPT ![h] = Counted(streak[h])]
        /\ Counted(streak[h]) \in 0..Threshold
    BY <1>3, <2>1, CountedIs DEF PollFails
  <2>3. /\ error' = IF Counted(streak[h]) >= Threshold
                    THEN [error EXCEPT ![h] = "failed"] ELSE error
        /\ UNCHANGED latest /\ asking' = asking \ {h}
    BY <1>3, <2>2 DEF PollFails, HostTypeOK
  <2>4. HostTypeOK'
    BY <1>1, <2>1, <2>2, <2>3 DEF HostTypeOK
  <2>5. Debounced'
    <3> SUFFICES ASSUME NEW g \in Host, task[g] = "polls", error'[g] # "none"
                 PROVE  missed'[g] = Threshold
      BY <1>1 DEF Debounced
    <3>1. CASE g # h
      BY <2>2, <2>3, <3>1 DEF HostTypeOK, Debounced
    <3>2. CASE g = h
      BY <2>1, <2>2, <2>3, <3>2, CountedIs DEF HostTypeOK, Debounced
    <3> QED
      BY <3>1, <3>2
  <2> QED
    BY <2>4, <2>5
<1>4. CASE TokenUnavailable(h)
  <2>1. HostTypeOK'
    BY <1>1, <1>4, HostWatchAssumption DEF TokenUnavailable, HostTypeOK
  <2>2. Debounced'
    BY <1>1, <1>4 DEF TokenUnavailable, HostTypeOK, Debounced
  <2> QED
    BY <2>1, <2>2
<1> QED
  BY <1>2, <1>3, <1>4

\* The watch, the setting and a resume leave the cards alone.
LEMMA WatchKeepsCards ==
    ASSUME CardsAreDebounced, WatchStep \/ ToggleNotify \/ Resume
    PROVE  CardsAreDebounced'
<1> USE DEF CardsAreDebounced
<1>1. UNCHANGED <<task, asking, latest, streak, error, missed>>
  BY DEF WatchStep, ReadNotify, ReadCards, Observe, ToggleNotify, Resume, cardVars
<1>2. Debounced'
  BY <1>1 DEF Debounced
<1>3. readings' \in [Host -> Reached \union {"absent", "unsettled"}]
  <2>1. CASE ReadCards
    BY <2>1 DEF ReadCards, Verdict, Reached
  <2>2. CASE ~ReadCards
    BY <2>2 DEF WatchStep, ReadNotify, Observe, ToggleNotify, Resume, HostTypeOK, watchVars
  <2> QED
    BY <2>1, <2>2
<1>4. /\ seen' \in [Host -> Reached \union {"never"}]
      /\ sight' \in [Host -> Reached \union {"never"}]
  <2>1. CASE Observe
    BY <2>1 DEF Observe, Baseline
  <2>2. CASE Resume
    BY <2>2 DEF Resume, Forgotten
  <2>3. CASE ~Observe /\ ~Resume
    BY <2>3 DEF WatchStep, ReadNotify, ReadCards, ToggleNotify, HostTypeOK, watchVars
  <2> QED
    BY <2>1, <2>2, <2>3
<1>5. wpc' \in {"idle", "flag", "compare"}
  BY DEF WatchStep, ReadNotify, ReadCards, Observe, ToggleNotify, Resume, HostTypeOK, watchVars
<1>6. notify' \in BOOLEAN /\ loud' \in BOOLEAN
  <2>1. /\ notify' = notify \/ notify' = ~notify
        /\ loud' = loud \/ loud' = notify \/ loud' = TRUE
    BY DEF WatchStep, ReadNotify, ReadCards, Observe, ToggleNotify, Resume, watchVars
  <2> QED
    BY <2>1, Zenon DEF HostTypeOK
<1>7. HostTypeOK'
  BY <1>1, <1>3, <1>4, <1>5, <1>6 DEF HostTypeOK
<1> QED
  BY <1>2, <1>7

\* A card says a host cannot be reached only after as many polls of its present
\* task in a row have failed as the debounce asks for (poller.rs, `record_poll`).
THEOREM CardsOnlyTurnWhenDue == HostSpec => []CardsAreDebounced
<1>1. CardsAreDebounced /\ [HostNext]_hostVars => CardsAreDebounced'
  <2> SUFFICES ASSUME CardsAreDebounced, [HostNext]_hostVars
               PROVE  CardsAreDebounced'
    OBVIOUS
  <2>1. CASE UNCHANGED hostVars
    BY <2>1 DEF hostVars, cardVars, watchVars, CardsAreDebounced, HostTypeOK, Debounced
  <2> QED
    BY <2>1, TasksKeepCards, PollsKeepCards, WatchKeepsCards DEF HostNext, Poll
<1> QED
  BY <1>1, HostInitInv, PTL DEF HostSpec

\* The baseline of the watch is what its last pass saw since it last forgot.
BaselineIsSight == seen = sight

LEMMA SeenIsSight == HostSpec => []BaselineIsSight
<1>1. HostInit => BaselineIsSight
  BY DEF HostInit, BaselineIsSight
<1>2. BaselineIsSight /\ [HostNext]_hostVars => BaselineIsSight'
  <2> SUFFICES ASSUME BaselineIsSight, [HostNext]_hostVars
               PROVE  seen' = sight'
    BY DEF BaselineIsSight
  <2>1. CASE Observe
    BY <2>1 DEF Observe, Baseline
  <2>2. CASE Resume
    BY <2>2 DEF Resume, Forgotten
  <2>3. CASE ~Observe /\ ~Resume
    <3>1. UNCHANGED <<seen, sight>>
      BY <2>3 DEF HostNext, WatchStep, ReadNotify, ReadCards, Poll, Ask, PollOk, PollFails,
                  TokenUnavailable, SpawnHost, DropHost, ToggleNotify, hostVars, watchVars
    <3> QED
      BY <3>1 DEF BaselineIsSight
  <2> QED
    BY <2>1, <2>2, <2>3
<1> QED
  BY <1>1, <1>2, PTL DEF HostSpec

\* A banner about a host is news, and no change between two passes that saw it
\* is swallowed while banners are on (`HostWatch::observe`, `HostWatch::reset`).
THEOREM BannersAreTheNews == HostSpec => BannerIsNews /\ NewsIsBannered
<1>1. BaselineIsSight =>
        [Observe => \A h \in Banners : sight[h] \notin {"never", readings[h]}]_hostVars
  BY DEF BaselineIsSight, Banners
<1>2. BaselineIsSight =>
        [Observe /\ loud =>
           \A h \in Host : readings[h] \in Reached /\ sight[h] \notin {"never", readings[h]}
                               => h \in Banners]_hostVars
  BY DEF BaselineIsSight, Banners
<1> QED
  BY <1>1, <1>2, SeenIsSight, PTL DEF BannerIsNews, NewsIsBannered

----------------------------------------------------------------------------
(* VendorWatch: nothing but the fold of a pass touches what the panel      *)
(* holds, and it replaces the list, the entries and the verdict together.  *)

\* The parts that only the fold of a pass touches.
PanelHolds == VendorTypeOK /\ HeldIsWatched /\ FooterAgreesWithRows

LEMMA VendorInitInv == VendorInit => PanelHolds
<1> SUFFICES ASSUME VendorInit
             PROVE  PanelHolds
  OBVIOUS
<1>1. VendorTypeOK
  <2>1. /\ permit \in BOOLEAN /\ passError \in BOOLEAN /\ alerting \in BOOLEAN
        /\ heard \in BOOLEAN /\ declared \in BOOLEAN
    BY DEF VendorInit
  <2>2. /\ held \in [Vendor -> Word \union {"none", "odd"}]
        /\ baseline \in [Vendor -> Word \union {"none"}]
        /\ belief \in [Vendor -> Word \union {"none"}]
    BY DEF VendorInit
  <2>3. /\ configured \subseteq Vendor /\ watched \subseteq Vendor /\ batch \subseteq Vendor
        /\ failing \subseteq watched /\ gone \subseteq Vendor
        /\ command \in {"idle", "wake"} /\ lpc \in {"fetch", "flag", "fold", "asleep"}
    BY DEF VendorInit
  <2> QED
    BY <2>1, <2>2, <2>3 DEF VendorTypeOK
<1>2. HeldIsWatched /\ FooterAgreesWithRows
  BY DEF VendorInit, HeldIsWatched, FooterAgreesWithRows
<1> QED
  BY <1>1, <1>2 DEF PanelHolds

LEMMA FoldKeepsPanel ==
    ASSUME PanelHolds, Fold
    PROVE  PanelHolds'
<1> USE DEF PanelHolds
<1> PICK ans \in [Vendor -> Answer] : FoldWith(ans)
  BY DEF Fold
<1>1. /\ lpc' = "asleep" /\ batch' = {} /\ heard' = TRUE
      /\ UNCHANGED <<configured, alerting, command, permit>>
  BY DEF Fold
<1>2. /\ declared' = TRUE /\ watched' = batch /\ held' = Entries(ans)
      /\ failing' = {v \in batch : ans[v] = "failed"}
      /\ passError' = NobodyRead(ans) /\ baseline' = NewBaseline(ans)
      /\ belief' = [v \in Vendor |-> CASE v \notin batch -> "none"
                                       [] Fresh(v, ans)  -> ans[v]
                                       [] OTHER          -> belief[v]]
      /\ gone' = {v \in Vendor : /\ held'[v] # "none"
                                 /\ v \notin batch \/ (v \in gone /\ ans[v] = "failed")}
  BY DEF FoldWith
<1>3. batch \subseteq Vendor
  BY DEF VendorTypeOK
<1>4. \A v \in Vendor : held'[v] = IF v \notin batch THEN "none"
                                   ELSE IF ans[v] = "failed" THEN held[v] ELSE ans[v]
  BY <1>2 DEF Entries
<1>5. held' \in [Vendor -> Word \union {"none", "odd"}]
  <2>1. \A v \in Vendor : held[v] \in Word \union {"none", "odd"} /\ ans[v] \in Answer
    BY DEF VendorTypeOK
  <2>2. held' = [v \in Vendor |-> IF v \notin batch THEN "none"
                                  ELSE IF ans[v] = "failed" THEN held[v] ELSE ans[v]]
    BY <1>2 DEF Entries
  <2> QED
    BY <2>1, <2>2 DEF Answer
<1>6. /\ baseline' \in [Vendor -> Word \union {"none"}]
      /\ belief' \in [Vendor -> Word \union {"none"}]
  BY <1>2 DEF NewBaseline, Fresh, VendorTypeOK
<1>7. passError' \in BOOLEAN
  BY <1>2 DEF NobodyRead
<1>8. VendorTypeOK'
  <2>1. failing' \subseteq watched' /\ watched' \subseteq Vendor /\ gone' \subseteq Vendor
    BY <1>2, <1>3
  <2> QED
    BY <1>1, <1>2, <1>5, <1>6, <1>7, <2>1 DEF VendorTypeOK
<1>9. HeldIsWatched'
  BY <1>2, <1>4 DEF HeldIsWatched
<1>10. FooterAgreesWithRows'
  BY <1>2 DEF FooterAgreesWithRows, NobodyRead
<1> QED
  BY <1>8, <1>9, <1>10

LEMMA RestKeepsPanel ==
    ASSUME PanelHolds,
           \/ Derive \/ ReadAlerting \/ Woken \/ CadenceOver
           \/ EditVendor \/ WakeServices \/ WakeOtherwise \/ ToggleAlerting
    PROVE  PanelHolds'
<1> USE DEF PanelHolds
<1>1. UNCHANGED <<declared, watched, held, failing, passError, baseline, gone, belief>>
  BY DEF Derive, ReadAlerting, Woken, CadenceOver, EditVendor, WakeServices, WakeOtherwise,
         ToggleAlerting, panelVars
<1>2. configured' \subseteq Vendor /\ batch' \subseteq Vendor
  <2>1. CASE EditVendor
    BY <2>1 DEF EditVendor, loopVars, VendorTypeOK
  <2>2. CASE Derive
    BY <2>2 DEF Derive, VendorTypeOK
  <2>3. CASE ~EditVendor /\ ~Derive
    BY <2>3 DEF ReadAlerting, Woken, CadenceOver, WakeServices, WakeOtherwise, ToggleAlerting,
                loopVars, VendorTypeOK
  <2> QED
    BY <2>1, <2>2, <2>3
<1>3. /\ lpc' \in {"fetch", "flag", "fold", "asleep"} /\ command' \in {"idle", "wake"}
  BY DEF Derive, ReadAlerting, Woken, CadenceOver, EditVendor, WakeServices, WakeOtherwise,
         ToggleAlerting, loopVars, VendorTypeOK
<1>4. /\ alerting' = alerting \/ alerting' = ~alerting
      /\ heard' = heard \/ heard' = alerting
      /\ permit' = permit \/ permit' = TRUE \/ permit' = FALSE
  BY DEF Derive, ReadAlerting, Woken, CadenceOver, EditVendor, WakeServices, WakeOtherwise,
         ToggleAlerting, NotifyOne, loopVars
<1>5. /\ alerting' \in BOOLEAN /\ heard' \in BOOLEAN /\ permit' \in BOOLEAN
      /\ declared' \in BOOLEAN /\ passError' \in BOOLEAN
  BY <1>1, <1>4, Zenon DEF VendorTypeOK
<1>6. VendorTypeOK'
  BY <1>1, <1>2, <1>3, <1>5 DEF VendorTypeOK
<1> QED
  BY <1>1, <1>6 DEF HeldIsWatched, FooterAgreesWithRows

\* A list is the one asked for, but for vendors whose credential was not read.
IsTheList(list) == list \subseteq configured /\ configured \ list \subseteq Credentialed

\* With no wake stored and none to come, the pass under way has the list as
\* edited, and so has the panel when the loop sleeps.
NoWakeIsDue ==
    ~permit /\ command = "idle" =>
        /\ lpc \in {"flag", "fold"} => IsTheList(batch)
        /\ lpc = "asleep" => IsTheList(watched)

LEMMA NoWakeStep == NoWakeIsDue /\ [VendorNext]_vendorVars => NoWakeIsDue'
<1> SUFFICES ASSUME NoWakeIsDue, [VendorNext]_vendorVars,
                    ~permit', command' = "idle"
             PROVE  /\ lpc' \in {"flag", "fold"} => IsTheList(batch)'
                    /\ lpc' = "asleep" => IsTheList(watched)'
  BY DEF NoWakeIsDue
<1>1. CASE Derive
  BY <1>1 DEF Derive, IsTheList
<1>2. CASE ReadAlerting
  BY <1>2 DEF ReadAlerting, panelVars, NoWakeIsDue, IsTheList
<1>3. CASE Fold
  BY <1>3 DEF Fold, FoldWith, NoWakeIsDue, IsTheList
<1>4. CASE Woken \/ CadenceOver
  BY <1>4 DEF Woken, CadenceOver
<1>5. CASE EditVendor \/ WakeServices \/ WakeOtherwise
  BY <1>5 DEF EditVendor, WakeServices, WakeOtherwise, NotifyOne
<1>6. CASE ToggleAlerting \/ UNCHANGED vendorVars
  BY <1>6 DEF ToggleAlerting, vendorVars, loopVars, panelVars, NoWakeIsDue, IsTheList
<1> QED
  BY <1>1, <1>2, <1>3, <1>4, <1>5, <1>6 DEF VendorNext, ServicesLoop

\* The panel holds no status that was read before the vendor last left the
\* list, its footer agrees with its rows, and no edit of the list is left to
\* the cadence (services.rs, `ServiceStatuses::watching` and `pass_finished`;
\* main.rs, `wake_services`).
THEOREM PanelFollowsTheList == VendorSpec => []PanelIsOfTheList
<1>1. PanelHolds /\ [VendorNext]_vendorVars => PanelHolds'
  <2> SUFFICES ASSUME PanelHolds, [VendorNext]_vendorVars
               PROVE  PanelHolds'
    OBVIOUS
  <2>1. CASE UNCHANGED vendorVars
    BY <2>1 DEF vendorVars, loopVars, panelVars, PanelHolds, VendorTypeOK,
                HeldIsWatched, FooterAgreesWithRows
  <2> QED
    BY <2>1, FoldKeepsPanel, RestKeepsPanel DEF VendorNext, ServicesLoop
<1>2. VendorInit => NoWakeIsDue
  BY DEF VendorInit, NoWakeIsDue
<1>3. PanelHolds /\ NoWakeIsDue => PanelIsOfTheList
  BY DEF PanelHolds, PanelIsOfTheList, NoWakeIsDue, NoEditMissed, IsTheList
<1> QED
  BY <1>1, <1>2, <1>3, VendorInitInv, NoWakeStep, PTL DEF VendorSpec

\* The baseline is the last word read since the vendor came onto the list.
BaselineIsBelief == baseline = belief

LEMMA BelievedSince == VendorSpec => []BaselineIsBelief
<1>1. VendorInit => BaselineIsBelief
  BY DEF VendorInit, BaselineIsBelief
<1>2. BaselineIsBelief /\ [VendorNext]_vendorVars => BaselineIsBelief'
  <2> SUFFICES ASSUME BaselineIsBelief, [VendorNext]_vendorVars
               PROVE  baseline' = belief'
    BY DEF BaselineIsBelief
  <2>1. CASE Fold
    BY <2>1 DEF Fold, FoldWith, NewBaseline, BaselineIsBelief
  <2>2. CASE ~Fold
    <3>1. UNCHANGED <<baseline, belief>>
      BY <2>2 DEF VendorNext, ServicesLoop, Derive, ReadAlerting, Woken, CadenceOver, EditVendor,
                  WakeServices, WakeOtherwise, ToggleAlerting, panelVars, vendorVars
    <3> QED
      BY <3>1 DEF BaselineIsBelief
  <2> QED
    BY <2>1, <2>2
<1> QED
  BY <1>1, <1>2, PTL DEF VendorSpec

\* A vendor is bannered about when, and only when, a pass reads a word other
\* than the last one read since the vendor came onto the list
\* (`StatusWatch::observe`).
THEOREM BannersAreTheChanges == VendorSpec => BannerIsChange
<1>1. BaselineIsBelief =>
        [\A ans \in [Vendor -> Answer] :
           lpc = "fold" /\ lpc' = "asleep" /\ FoldWith(ans) =>
             Bannered(ans) = {v \in batch : /\ heard /\ ans[v] \in Word
                                            /\ belief[v] \notin {"none", ans[v]}}]_vendorVars
  BY DEF BaselineIsBelief, Bannered, Fresh
<1> QED
  BY <1>1, BelievedSince, PTL DEF BannerIsChange

----------------------------------------------------------------------------
(* Sampler: where each figure comes from, what the mark stands for, and    *)
(* how long the probe takes to notice that a card is gone.                 *)

\* Rows that were enumerated, each with its time over its own window.
Measured(rows) == rows # NoRows /\ rows.spent >= 1 /\ rows.over = rows.spent

\* The two counters of the `processes` handle are refreshed together, no tick
\* comes sooner than an interval after the one before, and the first one after
\* a priming enumerates.
FigureInv ==
    /\ window.procs = window.procCpu
    /\ loopAt = "asleep" /\ ~napping => window.machine >= 1 /\ window.procs >= 1
    /\ loopAt = "disks" => reading.cpu >= 1 /\ window.procs >= 1
    /\ loopAt = "writing" => reading.cpu >= 1 /\ Measured(reading.procs)
    /\ loopAt \in {"asleep", "disks"} /\ round # 0 => Measured(cached)
    /\ loopAt \in {"writing", "marking"} => Measured(cached)

\* The mark is never younger than the write.
MarkInv == writeAge <= markAge /\ (loopAt = "marking" => writeAge = 0)

\* A reading outlives its card by the probe that saw it, the sleep after it
\* and the probe that is under way.
ProbeInv ==
    /\ ~mac => probeAt # "iokit"
    /\ card => goneFor = 0
    /\ probeAt = "asleep" => probeFor <= ProbeInterval
    /\ probeAt = "nvidia" => probeFor <= ProbeTimeout
    /\ ~mac /\ gpu = "read" /\ probeAt = "asleep" => goneFor <= ProbeTimeout + probeFor
    /\ ~mac /\ gpu = "read" /\ probeAt = "nvidia" =>
          goneFor <= ProbeTimeout + ProbeInterval + probeFor

ServingInv == SamplerTypeOK /\ OwnWindows /\ FigureInv /\ MarkInv /\ ProbeInv

WindowNames == {"machine", "procs", "procCpu"}

\* A window is a function on its names.
LEMMA WindowIs ==
    /\ \A w \in Window : /\ DOMAIN w = WindowNames
                         /\ w.machine \in 0..Oldest /\ w.procs \in 0..Oldest
                         /\ w.procCpu \in 0..Oldest
    /\ \A w \in [WindowNames -> 0..Oldest] : w \in Window
  BY DEF Window, WindowNames

LEMMA SamplerConstants ==
    /\ ProcessTicks \in Nat \ {0} /\ StaleIntervals \in Nat \ {0}
    /\ ProbeInterval \in Nat \ {0} /\ ProbeTimeout \in Nat \ {0} /\ MaxPanics \in Nat
    /\ Oldest = ProcessTicks /\ Stale = StaleIntervals + 1
    /\ Outlives = ProbeInterval + 2 * ProbeTimeout
  BY SamplerAssumption DEF Oldest, Stale, Outlives

LEMMA OlderIs ==
    ASSUME NEW limit \in Nat, NEW age \in 0..limit
    PROVE  /\ Older(age, limit) \in 0..limit /\ Older(age, limit) <= age + 1
           /\ Older(age, limit) >= age
           /\ limit >= 1 => Older(age, limit) >= 1
  BY DEF Older

LEMMA SamplerInitInv == SamplerInit => ServingInv
<1> SUFFICES ASSUME SamplerInit
             PROVE  ServingInv
  OBVIOUS
<1>1. window \in Window /\ reading \in Snapshot /\ reading.cpu = 0
  BY SamplerConstants DEF SamplerInit, Window, Snapshot, Unmeasured
<1>2. /\ loopAt = "priming" /\ napping = FALSE /\ round = 0 /\ panics = 0
      /\ cached = NoRows /\ served = Placeholder /\ markAge = 0 /\ writeAge = 0
      /\ goneFor = 0 /\ probeFor = 0 /\ gpu = "unknown" /\ probeAt \in {"iokit", "nvidia"}
      /\ ~mac => probeAt = "nvidia"
      /\ window.procs = window.procCpu
  BY DEF SamplerInit, FirstArm
<1>3. mac \in BOOLEAN /\ card \in BOOLEAN /\ napping \in BOOLEAN
  BY DEF SamplerInit
<1>4. SamplerTypeOK
  BY <1>1, <1>2, <1>3, SamplerConstants DEF SamplerTypeOK
<1>5. OwnWindows /\ FigureInv /\ MarkInv /\ ProbeInv
  BY <1>2, SamplerConstants DEF OwnWindows, FigureInv, MarkInv, ProbeInv
<1> QED
  BY <1>4, <1>5 DEF ServingInv

\* The figures go by the task's variables, the mark by its age, the probe by
\* its own: a step that leaves a part's variables alone keeps that part.
LEMMA FigureSame ==
    ASSUME OwnWindows /\ FigureInv, UNCHANGED <<loopAt, napping, round, window, cached, reading, served>>
    PROVE  (OwnWindows /\ FigureInv)'
  BY DEF OwnWindows, FigureInv, Measured

LEMMA ProbeSame ==
    ASSUME ProbeInv, UNCHANGED <<probeAt, probeFor, gpu, mac, card, goneFor>>
    PROVE  ProbeInv'
  BY DEF ProbeInv

LEMMA ClockKeepsServing ==
    ASSUME ServingInv, SamplerTick
    PROVE  ServingInv'
<1> USE DEF ServingInv
<1>1. /\ ~ProbeIsDue /\ loopAt # "marking" /\ napping' = FALSE
      /\ window' = [w \in DOMAIN window |-> Older(window[w], Oldest)]
      /\ markAge' = Older(markAge, Stale) /\ writeAge' = Older(writeAge, Stale)
      /\ goneFor' = IF card \/ mac THEN 0 ELSE Older(goneFor, Outlives + 1)
      /\ probeFor' = IF probeAt = "iokit" THEN 0 ELSE probeFor + 1
      /\ UNCHANGED <<loopAt, round, panics, cached, reading, served, mac, card, probeAt, gpu>>
  BY DEF SamplerTick
<1>2. /\ window' \in Window
      /\ window'.machine >= 1 /\ window'.procs >= 1 /\ window'.procs = window'.procCpu
  <2>1. /\ window \in Window /\ window.procs = window.procCpu
        /\ DOMAIN window = WindowNames
        /\ window.machine \in 0..Oldest /\ window.procs \in 0..Oldest
        /\ window.procCpu \in 0..Oldest
    BY WindowIs DEF SamplerTypeOK, FigureInv
  <2>2. /\ window' = [w \in WindowNames |-> Older(window[w], Oldest)]
        /\ window'.machine = Older(window.machine, Oldest)
        /\ window'.procs = Older(window.procs, Oldest)
        /\ window'.procCpu = Older(window.procCpu, Oldest)
    BY <1>1, <2>1 DEF WindowNames
  <2>3. /\ Oldest \in Nat /\ Oldest >= 1
    BY SamplerConstants
  <2>4. /\ Older(window.machine, Oldest) \in 0..Oldest /\ Older(window.machine, Oldest) >= 1
        /\ Older(window.procs, Oldest) \in 0..Oldest /\ Older(window.procs, Oldest) >= 1
        /\ Older(window.procCpu, Oldest) \in 0..Oldest
    BY <2>1, <2>3, OlderIs
  <2>5. window' \in [WindowNames -> 0..Oldest]
    BY <2>2, <2>4 DEF WindowNames
  <2> QED
    BY <2>1, <2>2, <2>4, <2>5, WindowIs
<1>3. /\ markAge' \in 0..Stale /\ writeAge' \in 0..Stale /\ writeAge' <= markAge'
  BY <1>1, SamplerConstants DEF SamplerTypeOK, MarkInv, Older
<1>4. goneFor' \in 0..Outlives + 1 /\ (goneFor' <= goneFor + 1)
  BY <1>1, SamplerConstants DEF SamplerTypeOK, Older
<1>5. /\ probeFor' \in Nat
      /\ probeAt = "asleep" => probeFor' <= ProbeInterval /\ probeFor' = probeFor + 1
      /\ probeAt = "nvidia" => probeFor' <= ProbeTimeout /\ probeFor' = probeFor + 1
      /\ probeAt = "iokit" => probeFor' = 0
  BY <1>1, SamplerConstants DEF ProbeIsDue, SamplerTypeOK, ProbeInv
<1>6. probeFor' \in 0..ProbeInterval \cup 0..ProbeTimeout
  BY <1>5, SamplerConstants DEF SamplerTypeOK
<1>7. napping' \in BOOLEAN /\ mac' \in BOOLEAN /\ card' \in BOOLEAN
  BY <1>1 DEF SamplerTypeOK
<1>8. SamplerTypeOK'
  BY <1>1, <1>2, <1>3, <1>4, <1>6, <1>7 DEF SamplerTypeOK
<1>9. OwnWindows' /\ FigureInv'
  BY <1>1, <1>2 DEF OwnWindows, FigureInv, Measured
<1>10. MarkInv'
  BY <1>1, <1>3 DEF MarkInv
<1>11. ProbeInv'
  <2>1. goneFor \in Int /\ probeFor \in Int /\ goneFor' \in Int
    BY <1>4 DEF SamplerTypeOK
  <2>2. card => goneFor' = 0
    BY <1>1
  <2>3. ~mac /\ gpu = "read" /\ probeAt = "asleep" => goneFor' <= ProbeTimeout + probeFor'
    BY <1>1, <1>4, <1>5, <2>1, SamplerConstants DEF ProbeInv
  <2>4. ~mac /\ gpu = "read" /\ probeAt = "nvidia" =>
          goneFor' <= ProbeTimeout + ProbeInterval + probeFor'
    BY <1>1, <1>4, <1>5, <2>1, SamplerConstants DEF ProbeInv
  <2> QED
    BY <1>1, <1>5, <2>2, <2>3, <2>4 DEF ProbeInv
<1> QED
  BY <1>8, <1>9, <1>10, <1>11

\* The loop primes, refreshes, computes, writes and marks, panics and is
\* started again: the probe and the card are not its own.
LEMMA PrimeKeepsServing ==
    ASSUME ServingInv, Prime \/ Respawn \/ SamplerPanics
    PROVE  ServingInv'
<1> USE DEF ServingInv
<1>1. UNCHANGED <<served, writeAge, markAge, probeAt, probeFor, gpu, mac, card, goneFor>>
  BY DEF Prime, Respawn, SamplerPanics, MarkOfStart, KeepsMark, dataVars, probeVars, gpuVars
<1>2. loopAt' \in {"asleep", "priming", "down"}
  BY DEF Prime, Respawn, SamplerPanics
<1>3. CASE Prime
  <2>1. /\ window' = [w \in DOMAIN window |-> 0] /\ cached' = NoRows /\ reading' = Unmeasured
        /\ round' = 0 /\ loopAt' = "asleep" /\ napping' = TRUE /\ UNCHANGED panics
    BY <1>3 DEF Prime
  <2>2. window' \in Window /\ window'.procs = window'.procCpu
    <3>1. window' = [w \in WindowNames |-> 0]
      BY <2>1, WindowIs DEF SamplerTypeOK
    <3> QED
      BY <3>1, WindowIs, SamplerConstants DEF WindowNames
  <2>3. Unmeasured \in Snapshot /\ 0 \in 0..ProcessTicks - 1
    BY SamplerConstants DEF Unmeasured, Snapshot
  <2>4. SamplerTypeOK'
    BY <1>1, <2>1, <2>2, <2>3 DEF SamplerTypeOK
  <2>5. OwnWindows' /\ FigureInv' /\ MarkInv'
    BY <1>1, <2>1, <2>2 DEF OwnWindows, FigureInv, MarkInv
  <2> QED
    BY <1>1, <2>4, <2>5, ProbeSame
<1>4. CASE Respawn \/ SamplerPanics
  <2>1. UNCHANGED <<round, window, cached, reading>> /\ loopAt' \in {"priming", "down"}
    BY <1>4 DEF Respawn, SamplerPanics, dataVars
  <2>2. panics' \in 0..MaxPanics
    BY <1>4, SamplerConstants DEF Respawn, SamplerPanics, SamplerTypeOK
  <2>3. napping' \in BOOLEAN
    BY <1>4 DEF Respawn, SamplerPanics, SamplerTypeOK
  <2>4. SamplerTypeOK'
    BY <1>1, <2>1, <2>2, <2>3 DEF SamplerTypeOK
  <2>5. OwnWindows' /\ FigureInv' /\ MarkInv'
    BY <1>1, <2>1 DEF OwnWindows, FigureInv, MarkInv
  <2> QED
    BY <1>1, <2>4, <2>5, ProbeSame
<1> QED
  BY <1>3, <1>4

LEMMA RefreshKeepsServing ==
    ASSUME ServingInv, RefreshMachine
    PROVE  ServingInv'
<1> USE DEF ServingInv
<1>1. /\ loopAt = "asleep" /\ ~napping
      /\ reading' = [reading EXCEPT !.cpu = window.machine]
      /\ window' = [w \in DOMAIN window |-> IF w \in EachRefresh THEN 0 ELSE window[w]]
      /\ loopAt' = "disks"
      /\ UNCHANGED <<napping, round, panics, cached, served, markAge, writeAge, probeAt,
                     probeFor, gpu, mac, card, goneFor>>
  BY DEF RefreshMachine, probeVars, gpuVars
<1>2. /\ window \in Window /\ DOMAIN window = WindowNames
      /\ window.machine \in 0..Oldest /\ window.procs \in 0..Oldest /\ window.procCpu \in 0..Oldest
  BY WindowIs DEF SamplerTypeOK
<1>3. /\ window' \in Window
      /\ window'.procs = window.procs /\ window'.procCpu = window.procCpu
  <2>1. window' = [w \in WindowNames |-> IF w = "machine" THEN 0 ELSE window[w]]
    BY <1>1, <1>2 DEF EachRefresh, EveryTick
  <2>2. /\ window'.procs = window.procs /\ window'.procCpu = window.procCpu
        /\ window'.machine = 0
    BY <2>1 DEF WindowNames
  <2>3. window' \in [WindowNames -> 0..Oldest]
    BY <1>2, <2>1, SamplerConstants DEF WindowNames
  <2> QED
    BY <2>2, <2>3, WindowIs
<1>4. reading' \in Snapshot /\ reading'.cpu = window.machine
  BY <1>1, <1>2 DEF SamplerTypeOK, Snapshot
<1>5. SamplerTypeOK'
  BY <1>1, <1>3, <1>4 DEF SamplerTypeOK
<1>6. OwnWindows' /\ FigureInv' /\ MarkInv'
  BY <1>1, <1>3, <1>4 DEF OwnWindows, FigureInv, MarkInv, Measured
<1> QED
  BY <1>1, <1>5, <1>6, ProbeSame

LEMMA ComputeKeepsServing ==
    ASSUME ServingInv, Compute
    PROVE  ServingInv'
<1> USE DEF ServingInv
<1>1. /\ loopAt = "disks" /\ loopAt' = "writing"
      /\ reading' = [reading EXCEPT !.procs = cached']
      /\ UNCHANGED <<napping, round, panics, served, markAge, writeAge, probeAt, probeFor, gpu,
                     mac, card, goneFor>>
  BY DEF Compute, probeVars, gpuVars
<1>2. /\ window \in Window /\ window.procs = window.procCpu /\ window.procs >= 1
      /\ reading.cpu >= 1
  BY <1>1 DEF SamplerTypeOK, FigureInv
<1>3. /\ window.machine \in 0..Oldest /\ window.procs \in 0..Oldest /\ window.procCpu \in 0..Oldest
  BY <1>2, WindowIs
<1>4. /\ cached' \in Rows /\ Measured(cached')
      /\ window' \in Window /\ window'.procs = window'.procCpu
  <2>1. CASE round = 0
    <3>1. /\ cached' = [spent |-> window.procs, over |-> window.procCpu]
          /\ window' = [window EXCEPT !.procs = 0, !.procCpu = 0]
      BY <2>1 DEF Compute
    <3>2. cached' \in Rows
      BY <1>3, <3>1 DEF Rows
    <3>3. cached' # NoRows
      BY <3>2, NoRowsAssumption
    <3>4. window' \in Window /\ window'.procs = window'.procCpu
      <4>1. 0 \in 0..Oldest
        BY SamplerConstants
      <4>2. PICK once : once = [window EXCEPT !.procs = 0]
        OBVIOUS
      <4>3. once \in Window /\ once.procs = 0
        BY <1>2, <4>1, <4>2 DEF Window
      <4>4. window' = [once EXCEPT !.procCpu = 0]
        BY <3>1, <4>2
      <4> QED
        BY <4>1, <4>3, <4>4 DEF Window
    <3> QED
      BY <1>2, <3>1, <3>2, <3>3, <3>4 DEF Measured
  <2>2. CASE round # 0
    BY <1>1, <1>2, <2>2 DEF Compute, FigureInv, Measured, SamplerTypeOK
  <2> QED
    BY <2>1, <2>2
<1>5. reading' \in Snapshot /\ reading'.procs = cached' /\ reading'.cpu = reading.cpu
  BY <1>1, <1>4 DEF SamplerTypeOK, Snapshot
<1>6. SamplerTypeOK'
  BY <1>1, <1>4, <1>5 DEF SamplerTypeOK
<1>7. OwnWindows' /\ FigureInv' /\ MarkInv'
  BY <1>1, <1>2, <1>4, <1>5 DEF OwnWindows, FigureInv, MarkInv
<1> QED
  BY <1>1, <1>6, <1>7, ProbeSame

LEMMA WritingKeepsServing ==
    ASSUME ServingInv, WriteSnapshot \/ MarkSampled
    PROVE  ServingInv'
<1> USE DEF ServingInv
<1>1. UNCHANGED <<panics, window, cached, probeAt, probeFor, gpu, mac, card, goneFor>>
  BY DEF WriteSnapshot, MarkSampled, probeVars, gpuVars
<1>2. CASE WriteSnapshot
  <2>1. /\ loopAt = "writing" /\ served' = reading /\ reading' = Unmeasured /\ writeAge' = 0
        /\ loopAt' = "marking" /\ UNCHANGED <<napping, round, markAge>>
    BY <1>2 DEF WriteSnapshot
  <2>2. Unmeasured \in Snapshot /\ 0 \in 0..Stale
    BY SamplerConstants DEF Unmeasured, Snapshot
  <2>3. SamplerTypeOK'
    BY <1>1, <2>1, <2>2 DEF SamplerTypeOK
  <2>4. OwnWindows'
    BY <2>1 DEF OwnWindows, FigureInv, Measured
  <2>5. FigureInv' /\ MarkInv'
    BY <1>1, <2>1 DEF FigureInv, MarkInv, SamplerTypeOK
  <2> QED
    BY <1>1, <2>3, <2>4, <2>5, ProbeSame
<1>3. CASE MarkSampled
  <2>1. /\ loopAt = "marking" /\ markAge' = 0 /\ round' = (round + 1) % ProcessTicks
        /\ loopAt' = "asleep" /\ napping' = TRUE /\ UNCHANGED <<reading, served, writeAge>>
    BY <1>3 DEF MarkSampled
  <2>2. round' \in 0..ProcessTicks - 1 /\ 0 \in 0..Stale
    BY <2>1, SamplerConstants DEF SamplerTypeOK
  <2>3. SamplerTypeOK'
    BY <1>1, <2>1, <2>2 DEF SamplerTypeOK
  <2>4. OwnWindows' /\ FigureInv' /\ MarkInv'
    BY <1>1, <2>1 DEF OwnWindows, FigureInv, MarkInv, Measured
  <2> QED
    BY <1>1, <2>3, <2>4, ProbeSame
<1> QED
  BY <1>2, <1>3

\* The card and the probe: a reading is stored while the card is there, or was
\* there since nvidia-smi was started.
LEMMA ProbeKeepsServing ==
    ASSUME ServingInv, CardMoves \/ GpuProbe
    PROVE  ServingInv'
<1> USE DEF ServingInv
<1>1. UNCHANGED <<loopAt, napping, round, panics, window, cached, reading, served, markAge,
                  writeAge, mac>>
  BY DEF CardMoves, GpuProbe, ProbeStarts, IokitReads, IokitDeclines, NvidiaReads, NvidiaFails,
         Probed, taskVars, dataVars, gpuVars
<1>2. ASSUME SamplerTypeOK', ProbeInv'
      PROVE  ServingInv'
  BY <1>1, <1>2, FigureSame DEF MarkInv
<1>3. ASSUME gpu' \in {"read", "unknown"}, probeAt' \in {"iokit", "nvidia", "asleep"},
             probeFor' = 0, UNCHANGED <<card, goneFor>>
      PROVE  SamplerTypeOK'
  BY <1>1, <1>3, SamplerConstants DEF SamplerTypeOK
<1>4. CASE CardMoves
  <2>1. goneFor' = 0 /\ card' \in BOOLEAN /\ UNCHANGED <<probeAt, probeFor, gpu>>
    BY <1>4 DEF CardMoves, probeVars, SamplerTypeOK
  <2>2. SamplerTypeOK'
    BY <1>1, <2>1, SamplerConstants DEF SamplerTypeOK
  <2>3. probeFor \in Nat
    BY SamplerConstants DEF SamplerTypeOK
  <2>4. ProbeInv'
    BY <1>1, <2>1, <2>3, SamplerConstants DEF ProbeInv
  <2> QED
    BY <1>2, <2>2, <2>4
<1>5. CASE ProbeStarts
  <2>1. /\ probeAt = "asleep" /\ probeFor = ProbeInterval /\ probeFor' = 0
        /\ probeAt' \in {"iokit", "nvidia"} /\ (~mac => probeAt' = "nvidia")
        /\ UNCHANGED <<gpu, card, goneFor>>
    BY <1>5 DEF ProbeStarts, FirstArm, gpuVars
  <2>2. SamplerTypeOK'
    BY <1>3, <2>1 DEF SamplerTypeOK
  <2>3. ProbeInv'
    BY <1>1, <2>1, SamplerConstants DEF ProbeInv, SamplerTypeOK
  <2> QED
    BY <1>2, <2>2, <2>3
<1>6. CASE IokitReads \/ IokitDeclines
  <2>1. /\ probeAt = "iokit" /\ probeFor' = 0 /\ probeAt' \in {"asleep", "nvidia"}
        /\ gpu' \in {"read", "unknown"} /\ UNCHANGED <<card, goneFor>>
    BY <1>6 DEF IokitReads, IokitDeclines, Probed, gpuVars, SamplerTypeOK
  <2>2. SamplerTypeOK'
    BY <1>3, <2>1
  <2>3. ProbeInv'
    BY <1>1, <2>1, SamplerConstants DEF ProbeInv
  <2> QED
    BY <1>2, <2>2, <2>3
<1>7. CASE NvidiaReads \/ NvidiaFails
  <2>1. /\ probeAt = "nvidia" /\ probeFor' = 0 /\ probeAt' = "asleep"
        /\ gpu' \in {"read", "unknown"} /\ UNCHANGED <<card, goneFor>>
        /\ gpu' = "read" => card \/ goneFor <= probeFor
    BY <1>7 DEF NvidiaReads, NvidiaFails, Probed, OnFailure, Unknown, gpuVars
  <2>2. SamplerTypeOK'
    BY <1>3, <2>1
  <2>3. gpu' = "read" => goneFor <= ProbeTimeout
    BY <2>1, SamplerConstants DEF ProbeInv, SamplerTypeOK
  <2>4. ProbeInv'
    BY <1>1, <2>1, <2>3, SamplerConstants DEF ProbeInv
  <2> QED
    BY <1>2, <2>2, <2>4
<1> QED
  BY <1>4, <1>5, <1>6, <1>7 DEF GpuProbe

THEOREM ServingIsInductive == SamplerSpec => []ServingInv
<1>1. ServingInv /\ [SamplerNext]_samplerVars => ServingInv'
  <2> SUFFICES ASSUME ServingInv, [SamplerNext]_samplerVars
               PROVE  ServingInv'
    OBVIOUS
  <2>1. CASE UNCHANGED samplerVars
    <3>1. UNCHANGED <<loopAt, napping, round, panics, window, cached, reading, served, markAge,
                      writeAge, probeAt, probeFor, gpu, mac, card, goneFor>>
      BY <2>1 DEF samplerVars, taskVars, dataVars, probeVars, gpuVars
    <3>2. SamplerTypeOK'
      BY <3>1 DEF ServingInv, SamplerTypeOK
    <3> QED
      BY <3>1, <3>2, FigureSame, ProbeSame DEF ServingInv, MarkInv
  <2> QED
    BY <2>1, ClockKeepsServing, PrimeKeepsServing, RefreshKeepsServing, ComputeKeepsServing,
       WritingKeepsServing, ProbeKeepsServing DEF SamplerNext, SamplerLoop
<1> QED
  BY <1>1, SamplerInitInv, PTL DEF SamplerSpec

\* What an agent serves is true, for any tick, any staleness and any probe:
\* every figure is a difference over its own window, "ok" stands for numbers
\* written in the last few intervals through any panics and restarts, and a
\* card that is gone is unknown after two probes at most (metrics.rs, gpu.rs).
THEOREM ServedIsTrue == SamplerSpec => []SamplerInv
<1>1. ServingInv => SamplerInv
  <2> SUFFICES ASSUME ServingInv
               PROVE  SamplerInv
    OBVIOUS
  <2> USE DEF ServingInv
  <2>1. OkIsEarned
    BY SamplerConstants DEF OkIsEarned, Status, IsStale, MarkInv, SamplerTypeOK
  <2>2. GoneIsUnknown
    <3> SUFFICES ASSUME ~mac, gpu = "read"
                 PROVE  ~(goneFor > Outlives)
      BY DEF GoneIsUnknown, SamplerTypeOK
    <3>1. goneFor \in Int /\ probeFor \in Int /\ probeAt \in {"nvidia", "asleep"}
      BY DEF SamplerTypeOK, ProbeInv
    <3>2. CASE probeAt = "asleep"
      BY <3>1, <3>2, SamplerConstants DEF ProbeInv
    <3>3. CASE probeAt = "nvidia"
      BY <3>1, <3>3, SamplerConstants DEF ProbeInv
    <3> QED
      BY <3>1, <3>2, <3>3
  <2> QED
    BY <2>1, <2>2 DEF SamplerInv
<1> QED
  BY <1>1, ServingIsInductive, PTL
=============================================================================

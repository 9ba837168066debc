---------------------------- MODULE LoopsProofs ----------------------------
(***************************************************************************)
(* Proofs about the parts of MCLoops: the app's own updater, the guard of  *)
(* unattended updates, the usage loop and the OpenClaw panel, for any      *)
(* number of versions, tasks, gateways and cadences and any intervals.     *)
(***************************************************************************)
EXTENDS OpenClaw, UsageLoop, UpdateGuard, AppUpdate,
        FiniteSetTheorems, WellFoundedInduction, TLAPS

----------------------------------------------------------------------------
(* AppUpdate: its invariant is inductive as it stands.  The panel says     *)
(* "running" exactly while a job is under way, so no second job begins,    *)
(* and nothing but that job replaces the bundle.                           *)

\* What the tasks of a launch are, and what the feed may answer.
LEMMA TaskKinds ==
    /\ None \in Task /\ Asking \in Task /\ None # Asking
    /\ \A v \in 0..Newest : /\ Answered(v) \in Task /\ Answered(v) # None
                            /\ Answered(v).at = "answered" /\ Answered(v).ver = v
    /\ None.at # "answered" /\ Asking.at # "answered"
    /\ \A k \in Task : /\ k.at = "answered" => k # None /\ k.ver \in 0..Newest
<1>1. \A v \in 0..Newest : Answered(v) \in Task
  BY DEF Task
<1>2. \A k \in Task : k = None \/ k = Asking \/ \E v \in 0..Newest : k = Answered(v)
  BY DEF Task
<1>3. /\ None \in Task /\ Asking \in Task /\ None # Asking
      /\ \A v \in 0..Newest : /\ Answered(v) # None
                              /\ Answered(v).at = "answered" /\ Answered(v).ver = v
      /\ None.at # "answered" /\ Asking.at # "answered"
  BY DEF Task, None, Asking, Answered
<1> QED
  BY <1>1, <1>2, <1>3

\* The feed offers what is newer than the app, or nothing.
LEMMA OfferedIsNewer ==
    ASSUME AppTypeOK
    PROVE  Offered \in 0..Newest /\ (Offered > 0 => Offered > thisApp)
  BY AppUpdateAssumption DEF AppTypeOK, Offered

\* A launch on a version of the feed satisfies the invariant.
LEMMA LaunchedInv ==
    ASSUME NEW v \in 1..Newest, LaunchedOn(v), bundle' \in 1..Newest, feed' \in 1..Newest
    PROVE  AppInv'
<1>1. /\ checks' \in [1..Tasks -> Task] /\ jobs' \in [1..Tasks -> Task]
      /\ \A t \in 1..Tasks : jobs'[t] = None
  BY TaskKinds DEF LaunchedOn
<1>2. AppTypeOK'
  BY <1>1, TaskKinds, AppUpdateAssumption DEF LaunchedOn, AppTypeOK
<1>3. OneInstall' /\ AppliedIsTrue'
  BY <1>1 DEF LaunchedOn, OneInstall, AppliedIsTrue
<1> QED
  BY <1>2, <1>3 DEF AppInv

LEMMA AppInitInv == AppInit => AppInv
<1> SUFFICES ASSUME AppInit
             PROVE  AppInv
  OBVIOUS
<1>1. /\ checks \in [1..Tasks -> Task] /\ jobs \in [1..Tasks -> Task]
      /\ \A t \in 1..Tasks : jobs[t] = None
  BY TaskKinds DEF AppInit
<1>2. AppTypeOK
  BY <1>1, TaskKinds, AppUpdateAssumption DEF AppInit, AppTypeOK
<1>3. OneInstall /\ AppliedIsTrue
  BY <1>1 DEF AppInit, OneInstall, AppliedIsTrue
<1> QED
  BY <1>2, <1>3 DEF AppInv

\* A check that begins, is answered or ends leaves the jobs alone, and ends an
\* "applied" at most.
LEMMA ChecksKeepInv ==
    ASSUME AppInv, NEW t \in 1..Tasks, UpdateCheck(t) \/ FeedAnswers(t) \/ CheckEnds(t)
    PROVE  AppInv'
<1> USE DEF AppInv
<1>1. UNCHANGED <<windows, thisApp, bundle, feed, jobs>>
  BY DEF UpdateCheck, FeedAnswers, CheckEnds
<1>2. \/ UNCHANGED install
      \/ install' = Cleared
  BY DEF UpdateCheck, FeedAnswers, CheckEnds
<1>3. /\ install' \in {"idle", "running", "applied", "failed"}
      /\ install' = "running" <=> install = "running"
      /\ install' = "applied" => install = "applied"
  BY <1>2 DEF Cleared, AppTypeOK
<1>4. checks' \in [1..Tasks -> Task]
  <2>1. \E k \in Task : checks' = [checks EXCEPT ![t] = k]
    BY TaskKinds, OfferedIsNewer DEF UpdateCheck, FeedAnswers, CheckEnds
  <2> QED
    BY <2>1 DEF AppTypeOK
<1>5. check' \in {"unknown", "uptodate", "available", "failed"} /\ announced' \in 0..Newest
  <2>1. checks[t] \in Task
    BY DEF AppTypeOK
  <2> QED
    BY <2>1, TaskKinds DEF UpdateCheck, FeedAnswers, CheckEnds, AppTypeOK
<1>6. AppTypeOK'
  BY <1>1, <1>3, <1>4, <1>5 DEF AppTypeOK
<1>7. OneInstall' /\ AppliedIsTrue'
  BY <1>1, <1>3 DEF OneInstall, AppliedIsTrue
<1> QED
  BY <1>6, <1>7

\* The guard of the command finds no job under way.
LEMMA InstallBegins ==
    ASSUME AppInv, NEW t \in 1..Tasks, UpdateInstall(t)
    PROVE  AppInv'
<1> USE DEF AppInv
<1>1. \A s \in 1..Tasks : jobs[s] = None
  BY DEF UpdateInstall, CanInstall, OneInstall
<1>2. jobs' = [jobs EXCEPT ![t] = Asking] /\ install' = "running" /\ jobs \in [1..Tasks -> Task]
  BY DEF UpdateInstall, AppTypeOK
<1>3. UNCHANGED <<windows, thisApp, bundle, feed, check, announced, checks>>
  BY DEF UpdateInstall
<1>4. \A s \in 1..Tasks : jobs'[s] = IF s = t THEN Asking ELSE None
  BY <1>1, <1>2
<1>5. AppTypeOK'
  BY <1>2, <1>3, <1>4, TaskKinds DEF AppTypeOK
<1>6. OneInstall'
  BY <1>2, <1>4, TaskKinds DEF OneInstall
<1> QED
  BY <1>2, <1>5, <1>6 DEF AppliedIsTrue

\* A job goes on to its download or is over: it is the only one.
LEMMA JobMoves ==
    ASSUME AppInv, NEW t \in 1..Tasks, jobs[t] # None,
           UNCHANGED <<windows, thisApp, feed, check, announced, checks>>,
           bundle' \in 1..Newest,
           \/ /\ \E v \in 1..Newest : v > thisApp /\ jobs' = [jobs EXCEPT ![t] = Answered(v)]
              /\ UNCHANGED install
           \/ /\ jobs' = [jobs EXCEPT ![t] = None]
              /\ \/ install' = "failed"
                 \/ /\ install' = "applied"
                    /\ bundle' > thisApp
    PROVE  AppInv'
<1> USE DEF AppInv
<1>1. jobs \in [1..Tasks -> Task] /\ install = "running"
  BY DEF AppTypeOK, OneInstall
<1>2. \A s \in 1..Tasks : s # t => jobs[s] = None
  BY DEF OneInstall
<1>3. CASE /\ \E v \in 1..Newest : v > thisApp /\ jobs' = [jobs EXCEPT ![t] = Answered(v)]
           /\ UNCHANGED install
  <2> PICK v \in 1..Newest : v > thisApp /\ jobs' = [jobs EXCEPT ![t] = Answered(v)]
    BY <1>3
  <2>1. \A s \in 1..Tasks : jobs'[s] = IF s = t THEN Answered(v) ELSE None
    BY <1>1, <1>2
  <2>2. v \in 0..Newest
    BY AppUpdateAssumption
  <2>3. AppTypeOK'
    BY <1>1, <1>3, <2>1, <2>2, TaskKinds DEF AppTypeOK
  <2>4. OneInstall' /\ AppliedIsTrue'
    BY <1>1, <1>3, <2>1, <2>2, TaskKinds DEF OneInstall, AppliedIsTrue
  <2> QED
    BY <2>3, <2>4
<1>4. CASE /\ jobs' = [jobs EXCEPT ![t] = None]
           /\ \/ install' = "failed"
              \/ /\ install' = "applied"
                 /\ bundle' > thisApp
  <2>1. \A s \in 1..Tasks : jobs'[s] = None
    BY <1>1, <1>2, <1>4
  <2>2. AppTypeOK'
    BY <1>1, <1>4, <2>1, TaskKinds DEF AppTypeOK
  <2>3. OneInstall' /\ AppliedIsTrue'
    BY <1>4, <2>1 DEF OneInstall, AppliedIsTrue
  <2> QED
    BY <2>2, <2>3
<1> QED
  BY <1>3, <1>4

LEMMA JobsKeepInv ==
    ASSUME AppInv, NEW t \in 1..Tasks, InstallAsks(t) \/ InstallEnds(t)
    PROVE  AppInv'
<1> USE DEF AppInv
<1>1. jobs[t] # None /\ jobs[t] \in Task /\ bundle \in 1..Newest /\ feed \in 1..Newest
  BY TaskKinds DEF InstallAsks, InstallEnds, AppTypeOK
<1>2. CASE InstallAsks(t)
  <2>1. Offered > 0 => Offered \in 1..Newest /\ Offered > thisApp
    BY OfferedIsNewer, AppUpdateAssumption
  <2>2. \/ /\ \E v \in 1..Newest : v > thisApp /\ jobs' = [jobs EXCEPT ![t] = Answered(v)]
           /\ UNCHANGED install
        \/ jobs' = [jobs EXCEPT ![t] = None] /\ install' = "failed"
    BY <1>2, <2>1 DEF InstallAsks, NoLongerOffered
  <2>3. UNCHANGED <<windows, thisApp, bundle, feed, check, announced, checks>>
    BY <1>2 DEF InstallAsks
  <2> QED
    BY <1>1, <2>2, <2>3, JobMoves
<1>3. CASE InstallEnds(t)
  <2>1. jobs[t].ver \in 1..Newest /\ jobs[t].ver > thisApp
    BY <1>1, <1>3, TaskKinds, AppUpdateAssumption DEF InstallEnds, AppTypeOK
  <2>2. CASE windows /\ bundle' = jobs[t].ver /\ LaunchedOn(jobs[t].ver) /\ UNCHANGED feed
    BY <1>1, <2>1, <2>2, LaunchedInv
  <2>3. CASE /\ jobs' = [jobs EXCEPT ![t] = None]
             /\ \/ install' = "failed" /\ UNCHANGED bundle
                \/ install' = "applied" /\ bundle' = jobs[t].ver
             /\ UNCHANGED <<windows, thisApp, feed, check, announced, checks>>
    BY <1>1, <2>1, <2>3, JobMoves
  <2> QED
    BY <1>3, <2>2, <2>3 DEF InstallEnds
<1> QED
  BY <1>2, <1>3

\* The app's updater runs one install at a time, says so exactly while it
\* does, and says "installed" only of a bundle that is newer than itself,
\* whatever the feed offers when (update.rs, `can_install`, `up_to_date`).
THEOREM AppIsTrue == AppSpec => []AppInv
<1>1. AppInv /\ [AppNext]_appVars => AppInv'
  <2> SUFFICES ASSUME AppInv, [AppNext]_appVars
               PROVE  AppInv'
    OBVIOUS
  <2>1. CASE MoveFeed
    BY <2>1 DEF MoveFeed, AppInv, AppTypeOK, OneInstall, AppliedIsTrue
  <2>2. CASE Relaunch
    BY <2>2, LaunchedInv DEF Relaunch, AppInv, AppTypeOK
  <2>3. CASE \E t \in 1..Tasks : UpdateCheck(t) \/ FeedAnswers(t) \/ CheckEnds(t)
    BY <2>3, ChecksKeepInv
  <2>4. CASE \E t \in 1..Tasks : UpdateInstall(t)
    BY <2>4, InstallBegins
  <2>5. CASE \E t \in 1..Tasks : InstallAsks(t) \/ InstallEnds(t)
    BY <2>5, JobsKeepInv
  <2>6. CASE UNCHANGED appVars
    BY <2>6 DEF appVars, AppInv, AppTypeOK, OneInstall, AppliedIsTrue
  <2> QED
    BY <2>1, <2>2, <2>3, <2>4, <2>5, <2>6 DEF AppNext
<1> QED
  BY <1>1, AppInitInv, PTL DEF AppSpec

----------------------------------------------------------------------------
(* UpdateGuard.  A run of discards by the interval rule leaves the host    *)
(* awake and the stamp growing older, so `calm` is bounded by all three.   *)

\* While the last firing was a discard by the interval rule, and so nothing
\* was disturbed since the first of them, every clock has gone on for as long.
DiscardAges ==
    /\ outcome # "discard" => calm = 0
    /\ outcome = "discard" => awake >= Upto(calm, Settle) /\ up >= Upto(calm, Settle)
    /\ outcome = "discard" /\ platform = "systemd" => stamp = "there" /\ calm <= age + Interval

\* Without a stamp that can be read nothing was attempted, or somebody meddled.
StampedSinceTry == stamp # "there" /\ ~meddled => sinceTry = Interval

PaceInv == GuardTypeOK /\ DiscardAges /\ StampedSinceTry

\* A capped counter stays within its bounds and grows with what it counts.
LEMMA UptoIs ==
    ASSUME NEW n \in Int, NEW limit \in Int
    PROVE  /\ Upto(n, limit) \in Int /\ Upto(n, limit) <= n /\ Upto(n, limit) <= limit
           /\ Upto(n, limit) = n \/ Upto(n, limit) = limit
  BY DEF Upto

\* The integers behind the type.
LEMMA GuardNumbers ==
    ASSUME GuardTypeOK
    PROVE  /\ Interval \in Nat /\ Settle \in Nat /\ 1 <= Settle /\ Settle <= Interval
           /\ age \in Int /\ awake \in Nat /\ up \in Nat /\ sinceTry \in Nat /\ calm \in Nat
           /\ age <= Interval /\ calm <= 2 * Interval
           /\ -(3 * Interval) <= age /\ Furthest = 3 * Interval
           /\ awake <= Settle /\ up <= Settle /\ sinceTry <= Interval
  BY GuardAssumption DEF GuardTypeOK, Furthest

LEMMA GuardInitInv == GuardInit => PaceInv
  BY GuardAssumption DEF GuardInit, PaceInv, GuardTypeOK, DiscardAges, StampedSinceTry, Furthest

LEMMA TickKeepsPace ==
    ASSUME PaceInv, GuardTick
    PROVE  PaceInv'
<1> USE DEF PaceInv
<1>1. /\ Interval \in Nat /\ Settle \in Nat /\ 1 <= Settle /\ Settle <= Interval
      /\ age \in Int /\ awake \in Nat /\ up \in Nat /\ sinceTry \in Nat /\ calm \in Nat
      /\ age <= Interval /\ calm <= 2 * Interval
      /\ -(3 * Interval) <= age /\ Furthest = 3 * Interval
      /\ awake <= Settle /\ up <= Settle /\ sinceTry <= Interval
  BY GuardNumbers
<1>2. /\ age' = Upto(age + 1, Interval) /\ awake' = Upto(awake + 1, Settle)
      /\ up' = Upto(up + 1, Settle) /\ sinceTry' = Upto(sinceTry + 1, Interval)
      /\ calm' = IF outcome = "discard" THEN Upto(calm + 1, 2 * Interval) ELSE 0
      /\ UNCHANGED <<platform, counter, stamp, slept, kept, outcome, meddled>>
  BY DEF GuardTick
<1>3. GuardTypeOK'
  <2>1. /\ age' \in -Furthest..Interval /\ awake' \in 0..Settle /\ up' \in 0..Settle
        /\ sinceTry' \in 0..Interval
    BY <1>1, <1>2 DEF Upto
  <2>2. calm' \in 0..2 * Interval
    BY <1>1, <1>2 DEF Upto
  <2> QED
    BY <1>2, <2>1, <2>2 DEF GuardTypeOK
<1>4. StampedSinceTry'
  BY <1>1, <1>2 DEF StampedSinceTry, Upto
<1>5. CASE outcome = "discard"
  BY <1>1, <1>2, <1>3, <1>4, <1>5 DEF DiscardAges, Upto
<1>6. CASE outcome # "discard"
  BY <1>1, <1>2, <1>3, <1>4, <1>6 DEF DiscardAges, Upto
<1> QED
  BY <1>5, <1>6

\* A disturbance ends the run of discards.
LEMMA DisturbedKeepsPace ==
    ASSUME PaceInv, SleepAndWake \/ Reboot \/ Meddle
    PROVE  PaceInv'
<1> USE GuardNumbers DEF PaceInv
<1>1. DiscardAges'
  BY DEF SleepAndWake, Reboot, Meddle, Disturbed, DiscardAges
<1>2. CASE SleepAndWake
  <2>1. PICK d \in 1..Interval :
          age' = Upto(age + d, Interval) /\ sinceTry' = Upto(sinceTry + d, Interval)
    BY <1>2 DEF SleepAndWake
  <2>2. GuardTypeOK' /\ StampedSinceTry'
    BY <1>2, <2>1 DEF SleepAndWake, Disturbed, GuardTypeOK, StampedSinceTry, Upto, Furthest,
                      historyVars, bootVars
  <2> QED
    BY <1>1, <2>2
<1>3. CASE Reboot
  BY <1>1, <1>3 DEF Reboot, Disturbed, GuardTypeOK, StampedSinceTry
<1>4. CASE Meddle
  <2>1. /\ stamp' \in {"none", "unreadable", "there"} /\ age' \in -Furthest..Interval
        /\ awake' \in 0..Settle
    BY <1>4 DEF Meddle, GuardTypeOK
  <2> QED
    BY <1>1, <1>4, <2>1 DEF Meddle, Disturbed, GuardTypeOK, StampedSinceTry, bootVars
<1> QED
  BY <1>2, <1>3, <1>4

\* What a firing comes to, and what it leaves behind.
LEMMA FiringIs ==
    ASSUME GuardTypeOK, NEW placed, NEW asked, NEW recorded, NEW succeeds,
           Fire(placed, asked, recorded, succeeds)
    PROVE  /\ outcome' \in {"run", "hold", "discard", "settling"}
           /\ outcome' = "run" => StampRule = "run" /\ stamp' = "there" /\ age' = 0
                                  /\ sinceTry' = 0 /\ ~meddled' /\ calm' = 0
           /\ outcome' # "run" => UNCHANGED <<stamp, age, sinceTry, meddled>>
           /\ outcome' = "discard" => StampRule = "discard" /\ calm' = calm
           /\ outcome' # "discard" => calm' = 0
           /\ UNCHANGED <<platform, counter, awake, bootVars>>
<1> DEFINE said == IF ~placed THEN "hold"
                   ELSE IF TooSoonAfterWake(asked) THEN "settling" ELSE StampRule
           verdict == IF said = "run" /\ ~recorded THEN "hold" ELSE said
<1>1. StampRule \in {"run", "hold", "discard"}
  BY DEF StampRule, GuardTypeOK
<1>2. /\ outcome' = verdict
      /\ IF verdict = "run"
         THEN /\ stamp' = "there" /\ age' = 0
              /\ sinceTry' = 0 /\ meddled' = FALSE /\ calm' = 0
         ELSE /\ calm' = IF verdict = "discard" THEN calm ELSE 0
              /\ UNCHANGED <<stamp, age, sinceTry, meddled>>
      /\ UNCHANGED <<platform, counter, awake, bootVars>>
  BY DEF Fire, Stamped
<1>3. verdict \in {"run", "hold", "discard", "settling"}
  BY <1>1
<1>4. /\ verdict = "run" => StampRule = "run"
      /\ verdict = "discard" => StampRule = "discard"
  OBVIOUS
<1> HIDE DEF verdict
<1> QED
  BY <1>2, <1>3, <1>4

\* An attempt starts the clocks again; a discard finds a stamp that is neither
\* unreadable nor too far ahead.
LEMMA FiringKeepsPace ==
    ASSUME PaceInv, GuardFiring
    PROVE  PaceInv'
<1> USE DEF PaceInv
<1> PICK placed, asked, recorded, succeeds \in BOOLEAN :
         Fire(placed, asked, recorded, succeeds)
  BY DEF GuardFiring
<1>1. /\ outcome' \in {"run", "hold", "discard", "settling"}
      /\ outcome' = "run" => StampRule = "run" /\ stamp' = "there" /\ age' = 0
                             /\ sinceTry' = 0 /\ ~meddled' /\ calm' = 0
      /\ outcome' # "run" => UNCHANGED <<stamp, age, sinceTry, meddled>>
      /\ outcome' = "discard" => StampRule = "discard" /\ calm' = calm
      /\ outcome' # "discard" => calm' = 0
      /\ UNCHANGED <<platform, counter, awake, up, slept, kept>>
  BY FiringIs DEF bootVars
<1>2. /\ Interval \in Nat /\ Settle \in Nat /\ age \in Int /\ awake \in Nat /\ up \in Nat
      /\ sinceTry \in Nat /\ calm \in Nat /\ Furthest = 3 * Interval
  BY GuardNumbers
<1>3. CASE outcome' = "run"
  <2>1. GuardTypeOK' /\ StampedSinceTry'
    BY <1>1, <1>2, <1>3 DEF GuardTypeOK, StampedSinceTry
  <2> QED
    BY <1>1, <1>3, <2>1 DEF DiscardAges
<1>4. CASE outcome' # "run"
  <2>1. GuardTypeOK' /\ StampedSinceTry'
    BY <1>1, <1>2, <1>4 DEF GuardTypeOK, StampedSinceTry
  <2>2. outcome' = "discard" =>
          stamp = "there" /\ (platform = "systemd" => age >= -Interval)
    BY <1>1, <1>2 DEF StampRule, TooFarAhead, GuardTypeOK
  <2>3. outcome # "discard" => calm = 0 /\ Upto(calm, Settle) <= awake /\ Upto(calm, Settle) <= up
    BY <1>2 DEF DiscardAges, Upto
  <2>4. DiscardAges'
    BY <1>1, <1>2, <1>4, <2>2, <2>3 DEF DiscardAges, Upto
  <2> QED
    BY <2>1, <2>4
<1> QED
  BY <1>3, <1>4

THEOREM PaceIsInductive == GuardSpec => []PaceInv
<1>1. PaceInv /\ [GuardNext]_guardVars => PaceInv'
  <2> SUFFICES ASSUME PaceInv, [GuardNext]_guardVars
               PROVE  PaceInv'
    OBVIOUS
  <2>1. CASE ForgetResume
    BY <2>1 DEF ForgetResume, historyVars, PaceInv, GuardTypeOK, DiscardAges, StampedSinceTry
  <2>2. CASE UNCHANGED guardVars
    BY <2>2 DEF guardVars, bootVars, historyVars, PaceInv, GuardTypeOK, DiscardAges,
                StampedSinceTry
  <2> QED
    BY <2>1, <2>2, TickKeepsPace, DisturbedKeepsPace, FiringKeepsPace DEF GuardNext
<1> QED
  BY <1>1, GuardInitInv, PTL DEF GuardSpec

\* A discarded firing resolves itself: two intervals after the first discard
\* of a run no firing is discarded any more, whatever the clock did before
\* (update-guard.sh, the rule that holds on a stamp too far ahead).
THEOREM DiscardsEnd == GuardSpec => []GuardInv
<1>1. PaceInv => GuardInv
  <2> SUFFICES ASSUME PaceInv, platform = "systemd", calm = 2 * Interval
               PROVE  ~WouldDiscard
    BY DEF PaceInv, GuardInv, GuardDiscardsEnd
  <2> USE DEF PaceInv
  <2>1. /\ Interval \in Nat /\ Settle \in Nat /\ 1 <= Settle /\ Settle <= Interval
        /\ age \in Int /\ awake \in Nat /\ up \in Nat /\ age <= Interval
    BY GuardNumbers
  <2>2. outcome = "discard"
    BY <2>1 DEF DiscardAges
  <2>3. awake >= Settle /\ up >= Settle /\ stamp = "there" /\ age = Interval
    BY <2>1, <2>2 DEF DiscardAges, Upto
  <2>4. ~TooFarAhead /\ StampRule = "run"
    BY <2>1, <2>3 DEF TooFarAhead, StampRule
  <2>5. \A asked \in BOOLEAN : ~TooSoonAfterWake(asked)
    BY <2>1, <2>3 DEF TooSoonAfterWake
  <2> QED
    BY <2>4, <2>5 DEF WouldDiscard
<1> QED
  BY <1>1, PaceIsInductive, PTL

\* Two attempts are an interval apart, failed ones included, unless somebody
\* changed the clock or the stamp between them: the attempt is stamped before
\* it is made, and the stamp is as old as the attempt is long ago.
THEOREM AttemptsAreApart == GuardSpec => AttemptsApart
<1>1. PaceInv => (GuardFiring /\ outcome' = "run" /\ ~meddled => sinceTry >= Interval)
  <2> SUFFICES ASSUME PaceInv, GuardFiring, outcome' = "run", ~meddled
               PROVE  sinceTry >= Interval
    OBVIOUS
  <2> USE DEF PaceInv
  <2>1. StampRule = "run"
    BY FiringIs DEF GuardFiring
  <2>2. /\ Interval \in Nat /\ age \in Int /\ sinceTry \in Nat
    BY GuardNumbers
  <2>3. CASE stamp = "there"
    BY <2>1, <2>2, <2>3 DEF StampRule, GuardTypeOK
  <2>4. CASE stamp # "there"
    BY <2>2, <2>4 DEF StampedSinceTry
  <2> QED
    BY <2>3, <2>4
<1> QED
  BY <1>1, PaceIsInductive, PTL DEF AttemptsApart, GuardSpec

----------------------------------------------------------------------------
(* UsageLoop.  The flag is set before the permit is given, and taken after *)
(* the permit was, so whatever is flagged behind the loop's back still has *)
(* its notification before it.                                             *)

\* Every wake ends in a notification.
Notifying == \E i \in DOMAIN waker : waker[i] = "notify"

\* What a wake has left to do is the end of one of the two orders.
WakeInOrder ==
    waker \in {<<>>, <<"notify">>, <<"rollups", "notify">>, <<"providers", "notify">>,
               <<"providers", "rollups", "notify">>}

\* A flag the loop has passed in this turn was set since, by a wake whose
\* notification is there or to come.
PassedFlags ==
    /\ upc \in {"pass", "asleep"} /\ forced # {} => permit \/ Notifying
    /\ upc = "swapped" /\ "rollups" \in forced => permit \/ Notifying

\* What was never read is due, and in the turn.
TurnTakesTheNew ==
    /\ upc = "pass" => \A h \in Half : since[h] = Never => h \in turn
    /\ upc = "swapped" => took \subseteq {"rollups"}

LoopInv == UsageTypeOK /\ WakeInOrder /\ PassedFlags /\ TurnTakesTheNew /\ NeverOversleeps

\* A finite set of numbers that is not empty has a greatest member: of the
\* subsets that have none, a least one would have none without one member.
LEMMA GreatestExists ==
    ASSUME NEW S \in SUBSET Nat, IsFiniteSet(S), S # {}
    PROVE  \E c \in S : \A d \in S : d <= c
<1> DEFINE without == {T \in SUBSET S : T # {} /\ ~ \E c \in T : \A d \in T : d <= c}
<1>1. CASE without = {}
  BY <1>1
<1>2. CASE without # {}
  <2>1. \A T \in SUBSET S : IsFiniteSet(T)
    BY FS_Subset
  <2>2. without \subseteq FiniteSubsetsOf(S)
    BY <2>1 DEF FiniteSubsetsOf
  <2> HIDE DEF without
  <2>3. PICK T \in without : \A U \in without : <<U, T>> \notin StrictSubsetOrdering(S)
    BY <1>2, <2>2, FS_StrictSubsetOrderingWellFounded, WFMin
  <2> USE DEF without
  <2>4. PICK x \in T : TRUE
    BY <2>3
  <2>5. <<T \ {x}, T>> \in StrictSubsetOrdering(S)
    BY <2>3, <2>4 DEF StrictSubsetOrdering
  <2>6. T \ {x} \notin without
    BY <2>3, <2>5
  <2>7. CASE T \ {x} = {}
    <3>1. T = {x} /\ x \in Nat
      BY <2>3, <2>4, <2>7
    <3> QED
      BY <2>3, <3>1
  <2>8. CASE T \ {x} # {}
    <3>1. PICK c \in T \ {x} : \A d \in T \ {x} : d <= c
      BY <2>3, <2>6, <2>8
    <3>2. x \in Nat /\ c \in Nat /\ T \subseteq Nat
      BY <2>3, <2>4, <3>1
    <3>3. CASE x <= c
      <4>1. \A d \in T : d <= c
        BY <3>1, <3>3
      <4> QED
        BY <2>3, <3>1, <4>1
    <3>4. CASE ~(x <= c)
      <4>1. \A d \in T : d <= x
        BY <3>1, <3>2, <3>4
      <4> QED
        BY <2>3, <2>4, <4>1
    <3> QED
      BY <3>3, <3>4
  <2> QED
    BY <2>7, <2>8
<1> QED
  BY <1>1, <1>2

\* No cadence is longer than the longest.
LEMMA LongestIs ==
    /\ Longest \in Nat \ {0} /\ Never = Longest + 1 /\ Cadence \subseteq 1..Longest
<1>1. \E c \in Cadence : \A d \in Cadence : d <= c
  <2>1. Cadence \in SUBSET Nat /\ Cadence # {} /\ IsFiniteSet(Cadence)
    BY CadenceAssumption
  <2> QED
    BY <2>1, GreatestExists
<1>2. Longest \in Cadence /\ \A d \in Cadence : d <= Longest
  BY <1>1 DEF Longest
<1> QED
  BY <1>2, CadenceAssumption DEF Never

\* The numbers behind the type.
LEMMA UsageNumbers ==
    ASSUME UsageTypeOK
    PROVE  /\ \A h \in Half : /\ every[h] \in Nat /\ 1 <= every[h] /\ every[h] <= Longest
                              /\ since[h] \in Nat /\ since[h] <= Longest + 1
           /\ deadline \in Nat /\ deadline <= Longest
           /\ "rollups" \in Half /\ "providers" \in Half
<1>1. Longest \in Nat /\ Never = Longest + 1 /\ \A c \in Cadence : c \in 1..Longest
  BY LongestIs
<1>2. \A h \in Half : every[h] \in Cadence /\ since[h] \in 0..Never
  BY DEF UsageTypeOK
<1>3. deadline \in 0..Longest /\ "rollups" \in Half /\ "providers" \in Half
  BY DEF UsageTypeOK, Half
<1>4. \A h \in Half : every[h] \in 1..Longest
  BY <1>1, <1>2
<1> QED
  BY <1>1, <1>2, <1>3, <1>4

LEMMA UsageInitInv == UsageInit => LoopInv
<1> SUFFICES ASSUME UsageInit
             PROVE  LoopInv
  OBVIOUS
<1>1. Never \in 0..Never /\ 0 \in 0..Longest
  BY LongestIs
<1>2. UsageTypeOK
  BY <1>1 DEF UsageInit, UsageTypeOK
<1>3. WakeInOrder /\ PassedFlags /\ TurnTakesTheNew /\ NeverOversleeps
  BY DEF UsageInit, WakeInOrder, PassedFlags, TurnTakesTheNew, NeverOversleeps
<1> QED
  BY <1>2, <1>3 DEF LoopInv

LEMMA WakesKeepLoop ==
    ASSUME LoopInv, BeginWake \/ WakeUsage
    PROVE  LoopInv'
<1> USE DEF LoopInv
<1>1. UNCHANGED <<every, editing, upc, took, turn, since, deadline>>
  BY DEF BeginWake, WakeUsage
<1>2. CASE BeginWake
  <2>1. waker' \in {<<"providers", "rollups", "notify">>, <<"providers", "notify">>}
    BY <1>2 DEF BeginWake, WakeOrder
  <2>2. WakeInOrder' /\ Notifying' /\ UNCHANGED <<forced, permit>>
    BY <1>2, <2>1 DEF BeginWake, WakeInOrder, Notifying
  <2> QED
    BY <1>1, <2>2 DEF UsageTypeOK, PassedFlags, TurnTakesTheNew, NeverOversleeps,
                      Remaining, Due
<1>3. CASE WakeUsage
  <2>1. \/ /\ waker' = <<>> /\ permit' = TRUE /\ UNCHANGED forced
        \/ /\ waker' \in {<<"notify">>, <<"rollups", "notify">>} /\ UNCHANGED permit
           /\ forced' \subseteq forced \union Half
    <3>1. CASE waker = <<"notify">>
      BY <1>3, <3>1 DEF WakeUsage
    <3>2. CASE waker = <<"rollups", "notify">>
      BY <1>3, <3>2 DEF WakeUsage, Half
    <3>3. CASE waker = <<"providers", "notify">>
      BY <1>3, <3>3 DEF WakeUsage, Half
    <3>4. CASE waker = <<"providers", "rollups", "notify">>
      BY <1>3, <3>4 DEF WakeUsage, Half
    <3> QED
      BY <1>3, <3>1, <3>2, <3>3, <3>4 DEF WakeUsage, WakeInOrder
  <2>2. CASE waker' = <<>> /\ permit' = TRUE /\ UNCHANGED forced
    BY <1>1, <2>2 DEF UsageTypeOK, WakeInOrder, PassedFlags, TurnTakesTheNew, NeverOversleeps
  <2>3. CASE /\ waker' \in {<<"notify">>, <<"rollups", "notify">>} /\ UNCHANGED permit
             /\ forced' \subseteq forced \union Half
    <3>1. WakeInOrder' /\ Notifying'
      BY <2>3 DEF WakeInOrder, Notifying
    <3> QED
      BY <1>1, <2>3, <3>1 DEF UsageTypeOK, PassedFlags, TurnTakesTheNew, NeverOversleeps,
                              Remaining, Due
  <2> QED
    BY <2>1, <2>2, <2>3
<1> QED
  BY <1>2, <1>3

LEMMA EditsKeepLoop ==
    ASSUME LoopInv, SaveCadence \/ WakePanel
    PROVE  LoopInv'
<1> USE DEF LoopInv
<1>1. UNCHANGED <<forced, waker, upc, took, turn, since, deadline>>
  BY DEF SaveCadence, WakePanel
<1>2. every' \in [Half -> Cadence] /\ permit' \in BOOLEAN /\ (editing' \/ permit')
  BY DEF SaveCadence, WakePanel, UsageTypeOK
<1>3. permit => permit'
  BY DEF SaveCadence, WakePanel
<1> QED
  BY <1>1, <1>2, <1>3 DEF UsageTypeOK, WakeInOrder, PassedFlags, Notifying, TurnTakesTheNew,
                          NeverOversleeps

\* The flags are taken at the top of a turn, from which the loop does not go
\* to sleep: what is left of them is of wakes that came after.
LEMMA TakingKeepsLoop ==
    ASSUME LoopInv, TakeRollups \/ TakeProviders
    PROVE  LoopInv'
<1> USE DEF LoopInv
<1>1. CASE TakeRollups
  BY <1>1 DEF TakeRollups, Half, UsageTypeOK, WakeInOrder, PassedFlags, TurnTakesTheNew,
              NeverOversleeps
<1>2. CASE TakeProviders
  <2>1. /\ upc = "swapped" /\ upc' = "pass" /\ forced' = forced \ {"providers"}
        /\ took' = took \union (forced \intersect {"providers"}) /\ turn' = TurnOf(took')
        /\ UNCHANGED <<every, permit, waker, editing, since, deadline>>
    BY <1>2 DEF TakeProviders
  <2>2. took' \subseteq Half /\ turn' \subseteq Half /\ forced' \subseteq Half
    BY <2>1 DEF UsageTypeOK, TurnOf, Half
  <2>3. \A h \in Half : since[h] = Never => h \in turn'
    <3> SUFFICES ASSUME NEW h \in Half, since[h] = Never
                 PROVE  Due(h)
      BY <2>1 DEF TurnOf
    <3> QED
      BY UsageNumbers, LongestIs DEF Due
  <2>4. forced' # {} => "rollups" \in forced
    BY <2>1 DEF UsageTypeOK, Half
  <2> QED
    BY <2>1, <2>2, <2>3, <2>4 DEF UsageTypeOK, WakeInOrder, PassedFlags, Notifying,
                                  TurnTakesTheNew, NeverOversleeps
<1> QED
  BY <1>1, <1>2

LEMMA FinishKeepsLoop ==
    ASSUME LoopInv, FinishHalf
    PROVE  LoopInv'
<1> USE DEF LoopInv
<1>1. PICK h \in Half : turn' = turn \ {h} /\ since' = [since EXCEPT ![h] = 0]
  BY DEF FinishHalf, UsageTypeOK, Half
<1>2. /\ upc = "pass"
      /\ UNCHANGED <<every, forced, permit, waker, editing, upc, took, deadline>>
  BY DEF FinishHalf
<1>3. since' \in [Half -> 0..Never] /\ Never # 0
  BY <1>1, LongestIs DEF UsageTypeOK
<1>4. UsageTypeOK'
  BY <1>1, <1>2, <1>3 DEF UsageTypeOK
<1>5. TurnTakesTheNew'
  BY <1>1, <1>2, <1>3 DEF TurnTakesTheNew, UsageTypeOK
<1> QED
  BY <1>2, <1>4, <1>5 DEF WakeInOrder, PassedFlags, Notifying, NeverOversleeps

\* The sleep is the shorter of the remainders.
LEMMA SoonerIs ==
    ASSUME UsageTypeOK
    PROVE  Sooner \in 0..Longest /\ \A h \in Half : Sooner <= Remaining(h)
<1>1. \A h \in Half : Remaining(h) \in Nat /\ Remaining(h) <= Longest
  BY UsageNumbers, LongestIs DEF Remaining, Due
<1>2. Half = {"rollups", "providers"} /\ Longest \in Nat
  BY LongestIs DEF Half
<1> QED
  BY <1>1, <1>2 DEF Sooner

LEMMA SleepKeepsLoop ==
    ASSUME LoopInv, FallAsleep \/ UsageWoken \/ SleepOver
    PROVE  LoopInv'
<1> USE DEF LoopInv
<1>1. CASE FallAsleep
  <2>1. /\ upc = "pass" /\ turn = {} /\ upc' = "asleep" /\ took' = {} /\ deadline' = Sooner
        /\ UNCHANGED <<every, forced, permit, waker, editing, turn, since>>
    BY <1>1 DEF FallAsleep
  <2>2. UsageTypeOK'
    BY <2>1, SoonerIs DEF UsageTypeOK, TurnTakesTheNew
  <2>3. \A h \in Half : Remaining(h)' = Remaining(h)
    BY <2>1 DEF Remaining, Due
  <2> QED
    BY <2>1, <2>2, <2>3, SoonerIs DEF WakeInOrder, PassedFlags, Notifying, TurnTakesTheNew,
                                      NeverOversleeps
<1>2. CASE UsageWoken
  <2>1. /\ upc' = "top" /\ permit' = FALSE /\ deadline' = 0
        /\ UNCHANGED <<every, forced, waker, editing, took, turn, since>>
    BY <1>2 DEF UsageWoken
  <2>2. 0 \in 0..Longest
    BY LongestIs
  <2>3. UsageTypeOK'
    BY <2>1, <2>2 DEF UsageTypeOK
  <2> QED
    BY <2>1, <2>3 DEF WakeInOrder, PassedFlags, TurnTakesTheNew, NeverOversleeps
<1>3. CASE SleepOver
  BY <1>3 DEF SleepOver, UsageTypeOK, WakeInOrder, PassedFlags, TurnTakesTheNew,
              NeverOversleeps
<1> QED
  BY <1>1, <1>2, <1>3

\* A tick brings the end of the sleep and the time a half is due as much
\* nearer; and what was read is never again as if it had not been.
LEMMA TickKeepsLoop ==
    ASSUME LoopInv, UsageTick
    PROVE  LoopInv'
<1> USE DEF LoopInv
<1>1. /\ upc \in {"pass", "asleep"} /\ (upc = "asleep" => deadline > 0)
      /\ since' = [h \in Half |-> IF since[h] >= Longest THEN since[h] ELSE since[h] + 1]
      /\ deadline' = IF upc = "asleep" THEN deadline - 1 ELSE deadline
      /\ UNCHANGED <<every, forced, permit, waker, editing, upc, took, turn>>
  BY DEF UsageTick
<1>2. Longest \in Nat \ {0} /\ Never = Longest + 1
  BY LongestIs
<1>3. /\ \A h \in Half : /\ every[h] \in Nat /\ 1 <= every[h] /\ every[h] <= Longest
                         /\ since[h] \in Nat /\ since[h] <= Longest + 1
      /\ deadline \in Nat /\ deadline <= Longest
  BY UsageNumbers
<1>4. /\ \A h \in Half : since'[h] \in 0..Never /\ (since'[h] = Never => since[h] = Never)
      /\ since' \in [Half -> 0..Never] /\ deadline' \in 0..Longest
  BY <1>1, <1>2, <1>3
<1>5. UsageTypeOK'
  BY <1>1, <1>4 DEF UsageTypeOK
<1>6. TurnTakesTheNew'
  BY <1>1, <1>4 DEF TurnTakesTheNew
<1>7. NeverOversleeps'
  <2> SUFFICES ASSUME upc = "asleep", NEW h \in Half, deadline <= Remaining(h)
               PROVE  deadline' <= Remaining(h)'
    BY <1>1 DEF NeverOversleeps
  <2>1. since[h] < every[h] /\ deadline <= every[h] - since[h]
    BY <1>1, <1>3 DEF Remaining, Due
  <2>2. since'[h] = since[h] + 1
    BY <1>1, <1>2, <1>3, <2>1
  <2> QED
    BY <1>1, <1>3, <2>1, <2>2 DEF Remaining, Due
<1> QED
  BY <1>1, <1>5, <1>6, <1>7 DEF WakeInOrder, PassedFlags, Notifying

\* Asleep, the usage loop misses neither a wake nor a cadence, however wakes,
\* edits and passes fall together (usage.rs and main.rs: `wake_usage` sets its
\* flags before it notifies, `panel_interval_save` stores before it does).
THEOREM LoopMissesNothing == UsageSpec => []UsageInv
<1>1. LoopInv /\ [UsageNext]_usageVars => LoopInv'
  <2> SUFFICES ASSUME LoopInv, [UsageNext]_usageVars
               PROVE  LoopInv'
    OBVIOUS
  <2>1. CASE UNCHANGED usageVars
    BY <2>1 DEF usageVars, LoopInv, UsageTypeOK, WakeInOrder, PassedFlags, Notifying,
                TurnTakesTheNew, NeverOversleeps, Remaining, Due
  <2> QED
    BY <2>1, WakesKeepLoop, EditsKeepLoop, TakingKeepsLoop, FinishKeepsLoop, SleepKeepsLoop,
       TickKeepsLoop DEF UsageNext, UsageStep
<1>2. LoopInv => UsageInv
  BY DEF LoopInv, UsageInv, PassedFlags, Notifying, NeverSleepsOnAForce
<1> QED
  BY <1>1, <1>2, UsageInitInv, PTL DEF UsageSpec

\* A half that was not forced is never read before its cadence is over:
\* neither half rides on the other's turn (`UsageClocks::turn`).
THEOREM HalvesAreApart == UsageSpec => OwnCadence
<1>1. ASSUME UsageNext, NEW h \in turn' \ turn
      PROVE  h \in took' \/ Due(h)
  <2>1. CASE TakeProviders
    BY <1>1, <2>1 DEF TakeProviders, TurnOf
  <2>2. CASE FinishHalf
    BY <1>1, <2>2 DEF FinishHalf
  <2>3. CASE ~TakeProviders /\ ~FinishHalf
    <3>1. turn' = turn
      BY <1>1, <2>3 DEF UsageNext, UsageStep, BeginWake, WakeUsage, SaveCadence, WakePanel,
                        TakeRollups, FallAsleep, UsageWoken, SleepOver, UsageTick
    <3> QED
      BY <1>1, <3>1
  <2> QED
    BY <2>1, <2>2, <2>3
<1>2. [UsageNext]_usageVars => [\A h \in turn' \ turn : h \in took' \/ Due(h)]_usageVars
  BY <1>1
<1> QED
  BY <1>2, PTL DEF UsageSpec, OwnCadence

----------------------------------------------------------------------------
(* OpenClaw.  The rows are the reducer's, the reducer is of the gateway    *)
(* the loop is on, and what it holds is that gateway's unless a report was *)
(* lost on it.                                                             *)

\* The session has a gateway, and so have rows that say what an agent does.
SessionHasGateway ==
    /\ opc \in {"connecting", "connected"} => current # NoGateway
    /\ sections.agent \in Activity => current # NoGateway

\* The reducer holds what the agent does, unless a report was lost on it.
ReducerIsTold == current # NoGateway /\ ~missed => activity = agent[current]

\* A session that lived has no failures before it.
LivedIsHealthy == lived => strikes = 0

FarmInv == ClawInv /\ SessionHasGateway /\ ReducerIsTold /\ LivedIsHealthy

LEMMA ClawInitInv == ClawInit => FarmInv
<1> SUFFICES ASSUME ClawInit
             PROVE  FarmInv
  OBVIOUS
<1>1. ClawTypeOK
  <2>1. Blank \in [of : Gateway \union {NoGateway}, agent : Activity \union {"unlisted"}]
    BY DEF Blank
  <2>2. /\ agent \in [Gateway -> Activity] /\ activity \in Activity /\ 0 \in 0..MaxLevel
        /\ gateway \in Gateway \union {NoGateway} /\ current \in Gateway \union {NoGateway}
    BY OpenClawAssumption DEF ClawInit, Activity
  <2>3. /\ announcing \in BOOLEAN /\ ocwake \in BOOLEAN /\ lived \in BOOLEAN
        /\ identity \in BOOLEAN /\ listed \in BOOLEAN /\ pairing \in BOOLEAN
        /\ missed \in BOOLEAN
    BY DEF ClawInit
  <2>4. /\ bearer \in {"old", "new"} /\ using \in {"old", "new", NoToken}
        /\ opc \in {"top", "idle", "connecting", "connected", "waiting"}
        /\ level \in 0..MaxLevel /\ strikes \in 0..MaxLevel
        /\ connection \in {"idle", "connecting", "connected", "disconnected"}
        /\ sections = Blank
    BY <2>2 DEF ClawInit
  <2> QED
    BY <2>1, <2>2, <2>3, <2>4 DEF ClawTypeOK
<1>2. RowsAreOfThisGateway /\ NotHammered /\ PairingIsCurrent
  BY OpenClawAssumption DEF ClawInit, Blank, Activity, RowsAreOfThisGateway, NotHammered,
                            PairingIsCurrent
<1>3. SessionHasGateway /\ ReducerIsTold /\ LivedIsHealthy
  BY DEF ClawInit, Blank, Activity, SessionHasGateway, ReducerIsTold, LivedIsHealthy
<1> QED
  BY <1>1, <1>2, <1>3 DEF FarmInv, ClawInv

LEMMA SettingsKeepFarm ==
    ASSUME FarmInv, SaveGateway \/ Announce \/ Retry
    PROVE  FarmInv'
<1>1. UNCHANGED <<opc, current, using, level, lived, identity, agent, listed, activity,
                  missed, sections, connection, pairing, strikes>>
  BY DEF SaveGateway, Announce, Retry, sessionVars, farmVars, panelVars
<1>2. /\ gateway' \in Gateway \union {NoGateway} /\ bearer' \in {"old", "new"}
      /\ announcing' \in BOOLEAN /\ ocwake' \in BOOLEAN
  BY DEF SaveGateway, Announce, Retry, WakeOpenclaw, FarmInv, ClawInv, ClawTypeOK
<1>3. ClawTypeOK'
  BY <1>1, <1>2 DEF FarmInv, ClawInv, ClawTypeOK
<1> QED
  BY <1>1, <1>3 DEF FarmInv, ClawInv, RowsAreOfThisGateway, NotHammered, PairingIsCurrent,
                    SessionHasGateway, ReducerIsTold, LivedIsHealthy

\* Another address is another reducer, and the rows are gone.
LEMMA TopKeepsFarm ==
    ASSUME FarmInv, ClawTop
    PROVE  FarmInv'
<1> USE DEF FarmInv, ClawInv
<1>1. /\ lived' = FALSE /\ opc' \in {"idle", "connecting"} /\ current' = gateway
      /\ UNCHANGED <<gateway, bearer, announcing, ocwake, agent>>
      /\ opc' = "connecting" => gateway # NoGateway
  BY DEF ClawTop
<1>2. /\ connection' \in {"idle", "connecting", "disconnected"}
      /\ using' \in {"old", "new", NoToken} /\ identity' \in BOOLEAN
  BY DEF ClawTop, ClawTypeOK
<1>3. CASE gateway # current
  <2>1. /\ level' = 0 /\ strikes' = 0 /\ listed' = FALSE /\ activity' = "ok" /\ missed' = TRUE
        /\ sections' = Blank /\ pairing' = FALSE
    BY <1>3 DEF ClawTop, NewReducer
  <2>2. /\ Blank \in [of : Gateway \union {NoGateway}, agent : Activity \union {"unlisted"}]
        /\ Blank.agent \notin Activity /\ Blank.of = NoGateway /\ 0 \in 0..MaxLevel
        /\ "ok" \in Activity
    BY OpenClawAssumption DEF Blank, Activity
  <2>3. ClawTypeOK'
    BY <1>1, <1>2, <2>1, <2>2 DEF ClawTypeOK
  <2> QED
    BY <1>1, <2>1, <2>2, <2>3 DEF RowsAreOfThisGateway, NotHammered, PairingIsCurrent,
         SessionHasGateway, ReducerIsTold, LivedIsHealthy
<1>4. CASE gateway = current
  <2>1. UNCHANGED <<current, level, strikes, listed, activity, missed, sections, pairing>>
    BY <1>4 DEF ClawTop
  <2>2. level' \in 0..MaxLevel /\ strikes' \in 0..MaxLevel /\ activity' \in Activity
    BY <2>1 DEF ClawTypeOK
  <2>3. sections' \in [of : Gateway \union {NoGateway}, agent : Activity \union {"unlisted"}]
    BY <2>1 DEF ClawTypeOK
  <2>4. /\ lived' \in BOOLEAN /\ announcing' \in BOOLEAN /\ ocwake' \in BOOLEAN
        /\ listed' \in BOOLEAN /\ missed' \in BOOLEAN /\ pairing' \in BOOLEAN
    BY <1>1, <2>1, Zenon DEF ClawTypeOK
  <2>5. /\ gateway' \in Gateway \union {NoGateway} /\ current' \in Gateway \union {NoGateway}
        /\ bearer' \in {"old", "new"} /\ agent' \in [Gateway -> Activity]
    BY <1>1, Zenon DEF ClawTypeOK
  <2>6. ClawTypeOK'
    BY <1>1, <1>2, <2>2, <2>3, <2>4, <2>5 DEF ClawTypeOK
  <2> QED
    BY <1>1, <1>4, <2>1, <2>6 DEF RowsAreOfThisGateway, NotHammered, PairingIsCurrent,
         SessionHasGateway, ReducerIsTold, LivedIsHealthy
<1> QED
  BY <1>3, <1>4

\* A session that begins, lives on or asks for a pairing.
LEMMA SessionKeepsFarm ==
    ASSUME FarmInv, HelloOk \/ LivesOn \/ PairingRequired \/ DelayOver
    PROVE  FarmInv'
<1> USE DEF FarmInv, ClawInv
<1>1. /\ UNCHANGED <<gateway, bearer, announcing, ocwake, current, level, identity, agent,
                     listed, activity, missed, sections>>
      /\ opc' \in {"top", "connected", "waiting"}
      /\ opc' = "connected" => opc \in {"connecting", "connected"}
  BY DEF HelloOk, LivesOn, PairingRequired, DelayOver, farmVars, panelVars
<1>2. /\ connection' \in {"idle", "connecting", "connected", "disconnected"}
      /\ using' \in {"old", "new", NoToken}
  BY DEF HelloOk, LivesOn, PairingRequired, DelayOver, panelVars, ClawTypeOK
<1>3. /\ lived' = lived \/ lived' = TRUE
      /\ pairing' = pairing \/ pairing' = FALSE \/ pairing' = TRUE
  BY DEF HelloOk, LivesOn, PairingRequired, DelayOver, panelVars, StopsAsking
<1>4. lived' \in BOOLEAN /\ pairing' \in BOOLEAN
  BY <1>3, Zenon DEF ClawTypeOK
<1>5. pairing' => opc' # "connected" /\ current # NoGateway
  BY DEF HelloOk, LivesOn, PairingRequired, DelayOver, panelVars, StopsAsking,
         PairingIsCurrent, SessionHasGateway
<1>6. /\ strikes' = 0 \/ strikes' = strikes
      /\ lived' => strikes' = 0
  BY DEF HelloOk, LivesOn, PairingRequired, DelayOver, LivedIsHealthy
<1>7. level \in Nat /\ strikes \in Nat /\ 0 \in 0..MaxLevel
  BY OpenClawAssumption DEF ClawTypeOK
<1>8. ClawTypeOK'
  BY <1>1, <1>2, <1>6, <1>7, <1>4 DEF ClawTypeOK
<1> QED
  BY <1>1, <1>6, <1>7, <1>8, <1>5 DEF RowsAreOfThisGateway, NotHammered, PairingIsCurrent,
       SessionHasGateway, ReducerIsTold, LivedIsHealthy

\* The delay escalates with every failure, and is reset with them.
LEMMA EndsKeepFarm ==
    ASSUME FarmInv, SessionEnds \/ ClawWoken
    PROVE  FarmInv'
<1> USE DEF FarmInv, ClawInv
<1>1. /\ UNCHANGED <<gateway, bearer, announcing, current, identity, agent, listed, activity,
                     missed, sections, pairing>>
      /\ opc' \in {"waiting", "top"} /\ lived' = FALSE /\ using' = NoToken
      /\ ocwake' \in BOOLEAN
      /\ connection' \in {"idle", "connecting", "connected", "disconnected"}
  BY DEF SessionEnds, ClawWoken, farmVars, panelVars, ClawTypeOK
<1>2. MaxLevel \in Nat /\ level \in 0..MaxLevel /\ strikes \in 0..MaxLevel
  BY OpenClawAssumption DEF ClawTypeOK
<1>3. level' \in 0..MaxLevel /\ strikes' \in 0..MaxLevel /\ level' >= strikes'
  <2>1. CASE ClawWoken
    BY <1>2, <2>1 DEF ClawWoken
  <2>2. CASE SessionEnds
    <3>1. CASE lived
      BY <1>2, <2>2, <3>1 DEF SessionEnds, NextLevel, LivedIsHealthy
    <3>2. CASE ~lived
      BY <1>2, <2>2, <3>2 DEF SessionEnds, NextLevel, NotHammered
    <3> QED
      BY <3>1, <3>2
  <2> QED
    BY <2>1, <2>2
<1>4. /\ lived' \in BOOLEAN /\ announcing' \in BOOLEAN /\ identity' \in BOOLEAN
      /\ listed' \in BOOLEAN /\ missed' \in BOOLEAN /\ pairing' \in BOOLEAN
  BY <1>1, Zenon DEF ClawTypeOK
<1>5. /\ sections' \in [of : Gateway \union {NoGateway}, agent : Activity \union {"unlisted"}]
      /\ gateway' \in Gateway \union {NoGateway} /\ current' \in Gateway \union {NoGateway}
      /\ bearer' \in {"old", "new"} /\ agent' \in [Gateway -> Activity]
      /\ activity' \in Activity
  BY <1>1, Zenon DEF ClawTypeOK
<1>6. ClawTypeOK'
  BY <1>1, <1>3, <1>4, <1>5 DEF ClawTypeOK
<1> QED
  BY <1>1, <1>3, <1>6 DEF RowsAreOfThisGateway, NotHammered, PairingIsCurrent,
       SessionHasGateway, ReducerIsTold, LivedIsHealthy

\* A session that is up hears what its agent does, and any other report is
\* lost on the reducer if it is of its gateway.
LEMMA ReportsKeepFarm ==
    ASSUME FarmInv, AgentsListed \/ \E g \in Gateway : AgentEvent(g)
    PROVE  FarmInv'
<1> USE DEF FarmInv, ClawInv
<1>1. UNCHANGED <<gateway, bearer, announcing, ocwake, opc, current, using, level, lived,
                  identity, connection, pairing, strikes>>
  BY DEF AgentsListed, AgentEvent, sessionVars
<1>2. \A l \in BOOLEAN, a \in Activity :
        /\ Rebuilt(l, a) \in [of : Gateway \union {NoGateway},
                              agent : Activity \union {"unlisted"}]
        /\ Rebuilt(l, a).of = current /\ Rebuilt(l, a).agent \in {a, "unlisted"}
  BY DEF Rebuilt, ClawTypeOK
<1>3. "unlisted" \notin Activity
  BY DEF Activity
<1>4. ASSUME agent' \in [Gateway -> Activity], listed' \in BOOLEAN, activity' \in Activity,
             missed' \in BOOLEAN,
             sections' \in [of : Gateway \union {NoGateway}, agent : Activity \union {"unlisted"}],
             RowsAreOfThisGateway', SessionHasGateway', ReducerIsTold'
      PROVE  FarmInv'
  <2>1. ClawTypeOK'
    BY <1>1, <1>4 DEF ClawTypeOK
  <2> QED
    BY <1>1, <1>4, <2>1 DEF NotHammered, PairingIsCurrent, LivedIsHealthy
<1>5. CASE AgentsListed
  <2>1. /\ opc = "connected" /\ listed' = TRUE /\ sections' = Rebuilt(TRUE, activity)
        /\ UNCHANGED <<agent, activity, missed>>
    BY <1>5 DEF AgentsListed
  <2>2. activity \in Activity /\ current # NoGateway
    BY <2>1 DEF ClawTypeOK, SessionHasGateway
  <2>3. sections'.of = current /\ sections'.agent \in {activity, "unlisted"}
    BY <1>2, <2>1, <2>2
  <2>4. RowsAreOfThisGateway' /\ SessionHasGateway' /\ ReducerIsTold'
    BY <1>1, <1>3, <2>1, <2>2, <2>3 DEF RowsAreOfThisGateway, SessionHasGateway, ReducerIsTold
  <2>5. /\ agent' \in [Gateway -> Activity] /\ listed' \in BOOLEAN /\ activity' \in Activity
        /\ missed' \in BOOLEAN
    BY <2>1, Zenon DEF ClawTypeOK
  <2> QED
    BY <1>2, <1>4, <2>1, <2>2, <2>4, <2>5
<1>6. CASE \E g \in Gateway : AgentEvent(g)
  <2> PICK g \in Gateway : AgentEvent(g)
    BY <1>6
  <2> PICK a \in Activity \ {agent[g]} :
        /\ agent' = [agent EXCEPT ![g] = a]
        /\ IF opc = "connected" /\ current = g
           THEN /\ activity' = a /\ missed' = FALSE
                /\ sections' = Rebuilt(listed, a)
           ELSE /\ missed' = (missed \/ current = g)
                /\ UNCHANGED <<activity, sections>>
    BY DEF AgentEvent
  <2>1. /\ agent \in [Gateway -> Activity] /\ listed \in BOOLEAN /\ activity \in Activity
        /\ current \in Gateway \union {NoGateway} /\ UNCHANGED listed
    BY DEF ClawTypeOK, AgentEvent
  <2>2. /\ agent' \in [Gateway -> Activity] /\ agent'[g] = a
        /\ \A h \in Gateway : h # g => agent'[h] = agent[h]
    BY <2>1
  <2>3. CASE opc = "connected" /\ current = g
    <3>1. current # NoGateway
      BY <2>3 DEF SessionHasGateway
    <3>2. activity' = a /\ missed' = FALSE /\ sections' = Rebuilt(listed, a)
      BY <2>3
    <3>3. /\ sections' \in [of : Gateway \union {NoGateway},
                            agent : Activity \union {"unlisted"}]
          /\ sections'.of = current /\ sections'.agent \in {a, "unlisted"}
      BY <1>2, <2>1, <3>2
    <3>4. RowsAreOfThisGateway' /\ SessionHasGateway' /\ ReducerIsTold'
      BY <1>1, <1>3, <2>2, <2>3, <3>1, <3>2, <3>3
         DEF RowsAreOfThisGateway, SessionHasGateway, ReducerIsTold
    <3> QED
      BY <1>4, <2>1, <2>2, <3>2, <3>3, <3>4
  <2>4. CASE ~(opc = "connected" /\ current = g)
    <3>1. missed' = (missed \/ current = g) /\ UNCHANGED <<activity, sections>>
      BY <2>4
    <3>2. missed' \in BOOLEAN
      BY <3>1
    <3>3. current # NoGateway /\ ~missed' => ~missed /\ agent'[current] = agent[current]
      BY <2>1, <2>2, <3>1
    <3>4. RowsAreOfThisGateway' /\ SessionHasGateway' /\ ReducerIsTold'
      BY <1>1, <3>1, <3>3 DEF RowsAreOfThisGateway, SessionHasGateway, ReducerIsTold
    <3>5. sections \in [of : Gateway \union {NoGateway}, agent : Activity \union {"unlisted"}]
      BY DEF ClawTypeOK
    <3> QED
      BY <1>4, <2>1, <2>2, <3>1, <3>2, <3>4, <3>5
  <2> QED
    BY <2>3, <2>4
<1> QED
  BY <1>5, <1>6

\* One farm's rows are never shown as another's, a gateway that keeps failing
\* is left more and more alone, and nobody is asked to approve a device that
\* was accepted (openclaw.rs, `forget_sections`; backoff.rs, `delay_after`).
THEOREM PanelIsOfThisGateway == ClawSpec => []ClawInv
<1>1. FarmInv /\ [ClawNext]_clawVars => FarmInv'
  <2> SUFFICES ASSUME FarmInv, [ClawNext]_clawVars
               PROVE  FarmInv'
    OBVIOUS
  <2>1. CASE UNCHANGED clawVars
    <3>1. UNCHANGED <<gateway, bearer, announcing, ocwake, opc, current, using, level, lived,
                      identity, agent, listed, activity, missed, sections, connection,
                      pairing, strikes>>
      BY <2>1 DEF clawVars, sessionVars, farmVars, panelVars
    <3> QED
      BY <3>1 DEF FarmInv, ClawInv, ClawTypeOK, RowsAreOfThisGateway, NotHammered,
                  PairingIsCurrent, SessionHasGateway, ReducerIsTold, LivedIsHealthy
  <2> QED
    BY <2>1, SettingsKeepFarm, TopKeepsFarm, SessionKeepsFarm, EndsKeepFarm, ReportsKeepFarm
       DEF ClawNext, ClawLoop
<1>2. FarmInv => ClawInv
  BY DEF FarmInv
<1> QED
  BY <1>1, <1>2, ClawInitInv, PTL DEF ClawSpec

\* An edit the loop does not know of has a wake that is there or to come.
EditIsHeard ==
    /\ current = gateway \/ opc = "top" \/ announcing \/ ocwake
    /\ opc \in {"connecting", "connected"} => using \in {bearer, NoToken} \/ announcing \/ ocwake

\* The safety half of SessionFollowsSettings: no edit of the address or the
\* token is ever lost between what saves it and what it wakes, so a loop that
\* no wake is under way to is on the stored address with the stored token.
THEOREM NoEditIsLost == ClawSpec => []EditIsHeard
<1>1. ClawInit => EditIsHeard
  BY DEF ClawInit, EditIsHeard
<1>2. EditIsHeard /\ [ClawNext]_clawVars => EditIsHeard'
  <2> SUFFICES ASSUME EditIsHeard, [ClawNext]_clawVars
               PROVE  EditIsHeard'
    OBVIOUS
  <2> USE DEF EditIsHeard, sessionVars
  <2>1. CASE SaveGateway \/ Announce \/ Retry
    BY <2>1 DEF SaveGateway, Announce, Retry, WakeOpenclaw
  <2>2. CASE ClawTop
    BY <2>2 DEF ClawTop
  <2>3. CASE DelayOver \/ ClawWoken
    BY <2>3 DEF DelayOver, ClawWoken
  <2>4. CASE HelloOk \/ LivesOn
    BY <2>4 DEF HelloOk, LivesOn
  <2>5. CASE SessionEnds \/ PairingRequired
    BY <2>5 DEF SessionEnds, PairingRequired
  <2>6. CASE AgentsListed \/ \E g \in Gateway : AgentEvent(g)
    BY <2>6 DEF AgentsListed, AgentEvent
  <2>7. CASE UNCHANGED clawVars
    BY <2>7 DEF clawVars
  <2> QED
    BY <2>1, <2>2, <2>3, <2>4, <2>5, <2>6, <2>7 DEF ClawNext, ClawLoop
<1> QED
  BY <1>1, <1>2, PTL DEF ClawSpec
=============================================================================

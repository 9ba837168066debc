---------------------------- MODULE GithubProofs ----------------------------
(***************************************************************************)
(* Proofs about the three halves of the GitHub pass: the runners' roster,  *)
(* the repositories and their accounts, and the approval banners, for any  *)
(* organisations, runners, accounts and repositories.                      *)
(***************************************************************************)
EXTENDS RunnerRoster, RepoPass, ApprovalWatch, FiniteSetTheorems, TLAPS

----------------------------------------------------------------------------
(* ApprovalWatch.  What has been announced, or kept quiet, is in the       *)
(* baseline, and in what the pass under way has read of its repository so  *)
(* far, unless the repository could not be read meanwhile.                 *)

AllRead == apc = "observe" => \A r \in GateRepo : reading[r] # Unasked

\* What an earlier pass has dealt with.
DealtWith(r) ==
    /\ parked[r] # 0
    /\ \/ blind[r]
       \/ seen[r] = parked[r] /\ reading[r] \in {Unasked, parked[r]}

ToldIsDealtWith     == \A r \in GateRepo : told[r] > 0 => DealtWith(r)
SilencedIsDealtWith == \A r \in GateRepo : silenced[r] => DealtWith(r)

\* A run that parked with banners on, since when nobody switched them.
LoudIsNew ==
    \A r \in GateRepo : ~quiet[r] =>
        /\ seeded /\ approvals /\ parked[r] # 0
        /\ told[r] = 0 => seen[r] # parked[r]
        /\ apc = "observe" /\ reading[r] = parked[r] => asked

GateInv == ToldOnceAtMost /\ AllRead /\ ToldIsDealtWith /\ SilencedIsDealtWith /\ LoudIsNew

\* An id that nobody remembers: three are enough for two that are remembered.
LEMMA FreshRun ==
    ASSUME NEW a, NEW b
    PROVE  LET run == CHOOSE run \in 1..MaxRun : run \notin {a, b}
           IN  run \in 1..MaxRun /\ run # a /\ run # b
<1>1. 1 \in 1..MaxRun /\ 2 \in 1..MaxRun /\ 3 \in 1..MaxRun
  BY ApprovalWatchAssumption
<1>2. \E run \in 1..MaxRun : run \notin {a, b}
  BY <1>1
<1> QED
  BY <1>2

LEMMA ApprovalInitInv == ApprovalInit => GateInv
<1> SUFFICES ASSUME ApprovalInit
             PROVE  GateInv
  OBVIOUS
<1>1. Unasked \in Nat /\ Unasked # 0 /\ 0 \in Run /\ 1 \in Run
  BY ApprovalWatchAssumption DEF Unasked, Run
<1>2. ApprovalTypeOK
  <2>1. parked \in [GateRepo -> Run] /\ seen \in [GateRepo -> Run]
        /\ reading \in [GateRepo -> Run \union {Unasked}] /\ told \in [GateRepo -> 0..2]
    BY <1>1 DEF ApprovalInit
  <2>2. /\ blind \in [GateRepo -> BOOLEAN] /\ quiet \in [GateRepo -> BOOLEAN]
        /\ silenced \in [GateRepo -> BOOLEAN]
    BY DEF ApprovalInit
  <2> QED
    BY <2>1, <2>2 DEF ApprovalInit, ApprovalTypeOK
<1> QED
  BY <1>2 DEF ApprovalInit, GateInv, ToldOnceAtMost, NeverToldTwice, QuietStaysQuiet, AllRead,
              ToldIsDealtWith, SilencedIsDealtWith, LoudIsNew

\* The runs and the preference.
LEMMA GatesKeepInv ==
    ASSUME GateInv, (\E r \in GateRepo : Park(r) \/ Unpark(r)) \/ ToggleApprovals
    PROVE  GateInv'
<1> USE DEF GateInv, ToldOnceAtMost, ApprovalTypeOK
<1>1. CASE \E r \in GateRepo : Park(r)
  <2> PICK r \in GateRepo : Park(r)
    BY <1>1
  <2> DEFINE run == CHOOSE run \in 1..MaxRun : run \notin {seen[r], reading[r]}
  <2>1. run \in 1..MaxRun /\ run # seen[r] /\ run # reading[r]
    BY FreshRun
  <2>2. /\ parked' = [parked EXCEPT ![r] = run]
        /\ quiet' = [quiet EXCEPT ![r] = ~(seeded /\ approvals)]
        /\ parked[r] = 0
        /\ UNCHANGED <<approvals, apc, reading, asked, seen, seeded, told, blind, silenced>>
    BY DEF Park, watchVars
  <2> HIDE DEF run
  <2>3. run \in Run /\ run # 0
    BY <2>1 DEF Run
  <2>4. parked' \in [GateRepo -> Run] /\ quiet' \in [GateRepo -> BOOLEAN]
    <3>1. parked' \in [GateRepo -> Run]
      BY <2>2, <2>3
    <3>2. quiet' \in [GateRepo -> BOOLEAN]
      BY <2>2, Zenon
    <3> QED
      BY <3>1, <3>2
  <2>5. ApprovalTypeOK'
    BY <2>2, <2>4
  <2>6. NeverToldTwice' /\ QuietStaysQuiet' /\ AllRead'
    BY <2>2 DEF NeverToldTwice, QuietStaysQuiet, AllRead
  <2>7. \A q \in GateRepo : DealtWith(q) => q # r /\ DealtWith(q)'
    BY <2>2 DEF DealtWith
  <2>8. ToldIsDealtWith' /\ SilencedIsDealtWith'
    BY <2>2, <2>7 DEF ToldIsDealtWith, SilencedIsDealtWith
  <2>9. LoudIsNew'
    <3> SUFFICES ASSUME NEW q \in GateRepo, ~quiet'[q]
                 PROVE  /\ seeded' /\ approvals' /\ parked'[q] # 0
                        /\ told'[q] = 0 => seen'[q] # parked'[q]
                        /\ apc' = "observe" /\ reading'[q] = parked'[q] => asked'
      BY DEF LoudIsNew
    <3>1. CASE q = r
      <4>1. parked'[q] = run /\ seeded /\ approvals
        BY <2>2, <3>1
      <4> QED
        BY <2>1, <2>2, <2>3, <3>1, <4>1
    <3>2. CASE q # r
      <4>1. parked'[q] = parked[q] /\ ~quiet[q]
        BY <2>2, <3>2
      <4> QED
        BY <2>2, <4>1 DEF LoudIsNew
    <3> QED
      BY <3>1, <3>2
  <2> QED
    BY <2>5, <2>6, <2>8, <2>9
<1>2. CASE \E r \in GateRepo : Unpark(r)
  <2> PICK r \in GateRepo : Unpark(r)
    BY <1>2
  <2>1. /\ parked' = [parked EXCEPT ![r] = 0] /\ told' = [told EXCEPT ![r] = 0]
        /\ blind' = [blind EXCEPT ![r] = FALSE] /\ quiet' = [quiet EXCEPT ![r] = TRUE]
        /\ silenced' = [silenced EXCEPT ![r] = FALSE]
        /\ UNCHANGED <<approvals, apc, reading, asked, seen, seeded>>
    BY DEF Unpark, watchVars
  <2>2. ApprovalTypeOK'
    <3>1. blind' \in [GateRepo -> BOOLEAN] /\ quiet' \in [GateRepo -> BOOLEAN]
          /\ silenced' \in [GateRepo -> BOOLEAN]
      BY <2>1, Zenon
    <3>2. parked' \in [GateRepo -> Run] /\ told' \in [GateRepo -> 0..2]
      BY <2>1, ApprovalWatchAssumption DEF Run
    <3> QED
      BY <2>1, <3>1, <3>2
  <2>3. /\ ~quiet'[r] = FALSE /\ told'[r] = 0 /\ ~silenced'[r]
        /\ \A q \in GateRepo \ {r} :
              /\ parked'[q] = parked[q] /\ told'[q] = told[q] /\ blind'[q] = blind[q]
              /\ quiet'[q] = quiet[q] /\ silenced'[q] = silenced[q]
    BY <2>1
  <2>4. NeverToldTwice' /\ QuietStaysQuiet' /\ AllRead'
    BY <2>1, <2>3 DEF NeverToldTwice, QuietStaysQuiet, AllRead
  <2>5. ToldIsDealtWith' /\ SilencedIsDealtWith'
    BY <2>1, <2>3 DEF ToldIsDealtWith, SilencedIsDealtWith, DealtWith
  <2>6. LoudIsNew'
    BY <2>1, <2>3 DEF LoudIsNew
  <2> QED
    BY <2>2, <2>4, <2>5, <2>6
<1>3. CASE ToggleApprovals
  <2>1. /\ approvals' = ~approvals /\ quiet' = [r \in GateRepo |-> TRUE]
        /\ UNCHANGED <<parked, apc, reading, asked, seen, seeded, told, blind, silenced>>
    BY <1>3 DEF ToggleApprovals, watchVars
  <2>2. ApprovalTypeOK'
    BY <2>1
  <2> QED
    BY <2>1, <2>2 DEF NeverToldTwice, QuietStaysQuiet, AllRead, ToldIsDealtWith,
                      SilencedIsDealtWith, DealtWith, LoudIsNew
<1> QED
  BY <1>1, <1>2, <1>3


\* A pass reads its repositories, then the preference.
LEMMA ReadingKeepsInv ==
    ASSUME GateInv, BeginReading \/ (\E r \in GateRepo : ReadRepo(r)) \/ ReadApprovals
    PROVE  GateInv'
<1> USE DEF GateInv, ToldOnceAtMost, ApprovalTypeOK
<1>1. CASE BeginReading
  BY <1>1 DEF BeginReading, NeverToldTwice, QuietStaysQuiet, AllRead, ToldIsDealtWith,
              SilencedIsDealtWith, DealtWith, LoudIsNew
<1>2. CASE \E r \in GateRepo : ReadRepo(r)
  <2> PICK r \in GateRepo : ReadRepo(r)
    BY <1>2
  <2>1. /\ apc = "read" /\ reading[r] = Unasked
        /\ UNCHANGED <<parked, approvals, apc, asked, seen, seeded, told, quiet, silenced>>
    BY DEF ReadRepo
  <2>2. PICK got \in {parked[r], 0} :
            /\ reading' = [reading EXCEPT ![r] = got]
            /\ \/ got = parked[r] /\ UNCHANGED blind
               \/ blind' = [blind EXCEPT ![r] = parked[r] # 0]
    BY DEF ReadRepo
  <2>3. got \in Run
    BY ApprovalWatchAssumption DEF Run
  <2>4. ApprovalTypeOK'
    <3>1. reading' \in [GateRepo -> Run \union {Unasked}]
      BY <2>2, <2>3
    <3>2. blind' \in [GateRepo -> BOOLEAN]
      BY <2>2, Zenon
    <3> QED
      BY <2>1, <3>1, <3>2
  <2>5. \A q \in GateRepo : parked[q] # 0 /\ blind[q] => blind'[q]
    BY <2>2
  <2>6. \A q \in GateRepo : DealtWith(q) => DealtWith(q)'
    <3> SUFFICES ASSUME NEW q \in GateRepo, DealtWith(q)
                 PROVE  DealtWith(q)'
      OBVIOUS
    <3>1. CASE q # r
      <4>1. reading'[q] = reading[q] /\ blind'[q] = blind[q]
        BY <2>2, <3>1
      <4> QED
        BY <2>1, <4>1 DEF DealtWith, Unasked
    <3>2. CASE q = r
      <4>1. reading'[q] = got /\ (got = parked[q] \/ (parked[q] # 0 => blind'[q]))
        BY <2>2, <3>2
      <4> QED
        BY <2>1, <2>5, <4>1 DEF DealtWith, Unasked
    <3> QED
      BY <3>1, <3>2
  <2>7. ToldIsDealtWith' /\ SilencedIsDealtWith'
    BY <2>1, <2>6 DEF ToldIsDealtWith, SilencedIsDealtWith
  <2>8. NeverToldTwice' /\ QuietStaysQuiet'
    <3>1. \A q \in GateRepo : told[q] > 0 => parked[q] # 0
      BY DEF ToldIsDealtWith, DealtWith
    <3> QED
      BY <2>1, <2>5, <3>1 DEF NeverToldTwice, QuietStaysQuiet
  <2>9. AllRead' /\ LoudIsNew'
    BY <2>1 DEF AllRead, LoudIsNew
  <2> QED
    BY <2>4, <2>7, <2>8, <2>9
<1>3. CASE ReadApprovals
  <2>1. /\ apc' = "observe" /\ asked' = approvals /\ \A r \in GateRepo : reading[r] # Unasked
        /\ UNCHANGED <<parked, approvals, reading, seen, seeded, told, blind, quiet, silenced>>
    BY <1>3 DEF ReadApprovals
  <2>2. ApprovalTypeOK'
    BY <2>1
  <2>3. LoudIsNew'
    BY <2>1 DEF LoudIsNew
  <2> QED
    BY <2>1, <2>2, <2>3 DEF NeverToldTwice, QuietStaysQuiet, AllRead, ToldIsDealtWith,
                            SilencedIsDealtWith, DealtWith, Unasked
<1> QED
  BY <1>1, <1>2, <1>3

\* The pass is compared.  A run that has been dealt with is in the baseline,
\* if this pass has read it, and so is not announced; one that was announced
\* or kept quiet just now is in the new baseline.
LEMMA ObservingKeepsInv ==
    ASSUME GateInv, ObserveGates
    PROVE  GateInv'
<1> USE DEF GateInv, ToldOnceAtMost, ApprovalTypeOK
<1>1. /\ apc = "observe" /\ apc' = "asleep"
      /\ reading' = [r \in GateRepo |-> Unasked] /\ asked' = FALSE
      /\ seen' = reading /\ seeded' = TRUE
      /\ UNCHANGED <<parked, approvals, blind, quiet>>
  BY DEF ObserveGates, NextSeen
<1>2. /\ told' = [r \in GateRepo |->
                    IF r \in Notices /\ reading[r] = parked[r] /\ told[r] < 2
                    THEN told[r] + 1 ELSE told[r]]
      /\ silenced' = [r \in GateRepo |->
            \/ silenced[r]
            \/ told[r] = 0 /\ ~(seeded /\ asked) /\ reading[r] = parked[r] /\ parked[r] # 0]
  BY DEF ObserveGates
<1>3. \A r \in GateRepo : reading[r] \in Run
  BY <1>1 DEF AllRead
<1>4. ApprovalTypeOK'
  <2>1. told' \in [GateRepo -> 0..2]
    BY <1>2
  <2>2. silenced' \in [GateRepo -> BOOLEAN]
    BY <1>2, Zenon
  <2>3. reading' \in [GateRepo -> Run \union {Unasked}] /\ seen' \in [GateRepo -> Run]
    BY <1>1, <1>3
  <2> QED
    BY <1>1, <2>1, <2>2, <2>3
<1>5. \A r \in GateRepo :
        told'[r] # told[r] => /\ r \in Notices /\ reading[r] = parked[r]
                              /\ told'[r] = told[r] + 1
  BY <1>2
<1>6. \A r \in Notices : seeded /\ asked /\ reading[r] # 0 /\ reading[r] # seen[r]
  BY DEF Notices
<1>7. \A r \in GateRepo : DealtWith(r) =>
        parked[r] # 0 /\ (blind[r] \/ (seen[r] = parked[r] /\ reading[r] = parked[r]))
  BY <1>1 DEF DealtWith, AllRead
<1>8. \A r \in GateRepo : DealtWith(r) \/ (reading[r] = parked[r] /\ parked[r] # 0)
                             => DealtWith(r)'
  BY <1>1, <1>7 DEF DealtWith
<1>9. ToldIsDealtWith' /\ SilencedIsDealtWith'
  <2>1. \A r \in GateRepo : told'[r] > 0 =>
          told[r] > 0 \/ (reading[r] = parked[r] /\ parked[r] # 0)
    BY <1>5, <1>6
  <2>2. \A r \in GateRepo : silenced'[r] =>
          silenced[r] \/ (reading[r] = parked[r] /\ parked[r] # 0)
    BY <1>2, Zenon
  <2> QED
    BY <1>8, <2>1, <2>2 DEF ToldIsDealtWith, SilencedIsDealtWith
<1>10. NeverToldTwice' /\ QuietStaysQuiet'
  <2> SUFFICES ASSUME NEW r \in GateRepo, ~blind[r]
               PROVE  told'[r] # 2 /\ ~(silenced'[r] /\ told'[r] > 0)
    BY <1>1 DEF NeverToldTwice, QuietStaysQuiet
  <2>1. DealtWith(r) => told'[r] = told[r]
    BY <1>5, <1>6, <1>7
  <2>2. told[r] \in 0..2 /\ told[r] # 2
    BY DEF NeverToldTwice
  <2>3. told'[r] # 2
    <3>1. CASE told[r] = 0
      BY <1>5, <3>1
    <3>2. CASE told[r] # 0
      BY <2>1, <2>2, <3>2 DEF ToldIsDealtWith
    <3> QED
      BY <3>1, <3>2
  <2>4. ~(silenced'[r] /\ told'[r] > 0)
    <3>1. CASE silenced[r]
      BY <2>1, <3>1 DEF SilencedIsDealtWith, QuietStaysQuiet
    <3>2. CASE silenced'[r] /\ ~silenced[r]
      <4>1. told[r] = 0 /\ ~(seeded /\ asked)
        BY <1>2, <3>2, Zenon
      <4> QED
        BY <1>5, <1>6, <4>1
    <3> QED
      BY <3>1, <3>2
  <2> QED
    BY <2>3, <2>4
<1>11. AllRead'
  BY <1>1 DEF AllRead
<1>12. LoudIsNew'
  <2> SUFFICES ASSUME NEW r \in GateRepo, ~quiet[r]
               PROVE  approvals /\ parked[r] # 0 /\ (told'[r] = 0 => reading[r] # parked[r])
    BY <1>1 DEF LoudIsNew
  <2>1. approvals /\ seeded /\ parked[r] # 0
    BY DEF LoudIsNew
  <2>2. ASSUME told'[r] = 0, reading[r] = parked[r]
        PROVE  FALSE
    <3>1. asked
      BY <1>1, <2>2 DEF LoudIsNew
    <3>2. told[r] = 0
      BY <1>2, <2>2
    <3>3. r \in Notices
      BY <2>1, <2>2, <3>1, <3>2 DEF LoudIsNew, Notices
    <3> QED
      BY <1>2, <2>2, <3>2, <3>3
  <2> QED
    BY <2>1, <2>2
<1> QED
  BY <1>4, <1>9, <1>10, <1>11, <1>12

\* The inductive invariant of the approval watch.
THEOREM WaitingIsInductive == ApprovalSpec => []GateInv
<1>1. GateInv /\ [ApprovalNext]_approvalVars => GateInv'
  <2> SUFFICES ASSUME GateInv, [ApprovalNext]_approvalVars
               PROVE  GateInv'
    OBVIOUS
  <2>1. CASE ApprovalNext
    BY <2>1, GatesKeepInv, ReadingKeepsInv, ObservingKeepsInv DEF ApprovalNext
  <2>2. CASE UNCHANGED approvalVars
    BY <2>2 DEF approvalVars, watchVars, GateInv, ToldOnceAtMost, ApprovalTypeOK, NeverToldTwice,
                QuietStaysQuiet, AllRead, ToldIsDealtWith, SilencedIsDealtWith, DealtWith,
                LoudIsNew
  <2> QED
    BY <2>1, <2>2
<1> QED
  BY ApprovalInitInv, <1>1, PTL DEF ApprovalSpec

\* A parked run is announced once at most while its repository can be read,
\* and one that was found with banners off, or by the first pass, not at all
\* (approvals.rs, `ApprovalWatch::observe`).
THEOREM WaitingIsToldOnce == ApprovalSpec => []ToldOnceAtMost
<1>1. GateInv => ToldOnceAtMost
  BY DEF GateInv
<1> QED
  BY WaitingIsInductive, <1>1, PTL

\* And with banners on since it parked, it is announced by the first pass
\* that has read it.
THEOREM WaitingIsTold == ApprovalSpec => NeverSilent
<1>1. GateInv /\ ObserveGates => \A r \in GateRepo :
        parked[r] # 0 /\ reading[r] = parked[r] /\ ~quiet[r] => told'[r] > 0
  <2> SUFFICES ASSUME GateInv, ObserveGates, NEW r \in GateRepo,
                      parked[r] # 0, reading[r] = parked[r], ~quiet[r]
               PROVE  told'[r] > 0
    OBVIOUS
  <2>1. /\ apc = "observe"
        /\ told' = [q \in GateRepo |->
                      IF q \in Notices /\ reading[q] = parked[q] /\ told[q] < 2
                      THEN told[q] + 1 ELSE told[q]]
    BY DEF ObserveGates
  <2>2. seeded /\ asked /\ (told[r] = 0 => seen[r] # parked[r])
    BY <2>1 DEF GateInv, LoudIsNew
  <2>3. told[r] \in 0..2
    BY DEF GateInv, ToldOnceAtMost, ApprovalTypeOK
  <2>4. CASE told[r] = 0
    BY <2>1, <2>2, <2>4 DEF Notices
  <2>5. CASE told[r] # 0
    BY <2>1, <2>3, <2>5
  <2> QED
    BY <2>4, <2>5
<1>2. GateInv /\ [ApprovalNext]_approvalVars => [ObserveGates => \A r \in GateRepo :
        parked[r] # 0 /\ reading[r] = parked[r] /\ ~quiet[r] => told'[r] > 0]_approvalVars
  BY <1>1
<1> QED
  BY WaitingIsInductive, <1>2, PTL DEF ApprovalSpec, NeverSilent


----------------------------------------------------------------------------
(* RepoPass.  While no edit has come since a pass began, what it decided   *)
(* is what the settings say, for some answer of the credential store.      *)

PlanIsCurrent ==
    rpc = "fetch" /\ ~rwake =>
        \E refused \in SUBSET GithubIdentities :
            Fetching(refused) # {} /\ plan = Planned(refused)

ReposInv == NothingUnmentioned /\ PlanIsCurrent

\* Mentioned: what the panel has to say when it is at rest.
Mentioned == EveryTrackedRepoHasARow /\ AbsentIsTrue /\ BlockedIsNamed

LEMMA MadeAreAccounts ==
    /\ Made \subseteq Account
    /\ GithubIdentities \subseteq Identity
    /\ Made # {} => GithubIdentities = Made
  BY DEF Made, GithubIdentities, Identity

\* The account a new repository is deduced to be of, if any.
LEMMA NewRepoHomeIs == NewRepoHome \in Made \union {Nobody}
<1>1. Cardinality(Made) = 1 => Made # {}
  BY FS_EmptySet
<1> QED
  BY <1>1 DEF NewRepoHome

LEMMA PlannedIs ==
    ASSUME NEW refused \in SUBSET GithubIdentities
    PROVE  Planned(refused) \in [fetched : SUBSET Repo, dark : SUBSET Repo,
                                 failed : SUBSET Account, orphans : SUBSET Repo]
<1> DEFINE fetched == UNION {Owned(i) : i \in Fetching(refused)}
           dark    == (UNION {Owned(a) : a \in Blocked(refused)}) \union Orphans
<1>1. Tracked \subseteq Repo
  BY DEF Tracked
<1>2. fetched \subseteq Repo /\ dark \subseteq Repo /\ Orphans \subseteq Repo
  <2>1. \A i : Owned(i) \subseteq Repo
    BY <1>1 DEF Owned
  <2>2. Orphans \subseteq Repo
    BY <1>1 DEF Orphans
  <2> QED
    BY <2>1, <2>2
<1>3. Blocked(refused) \subseteq Account
  BY MadeAreAccounts DEF Blocked
<1>4. Planned(refused) = [fetched |-> fetched, dark |-> dark,
                          failed |-> Blocked(refused), orphans |-> Orphans]
  BY DEF Planned
<1> HIDE DEF fetched, dark
<1> QED
  BY <1>2, <1>3, <1>4

\* Every tracked repository is the business of a pass: it is fetched, or its
\* account is blocked, or it is an orphan.
LEMMA EveryRepoIsPlanned ==
    ASSUME NEW refused \in SUBSET GithubIdentities, Made # {}, NEW r \in Tracked
    PROVE  /\ r \in Planned(refused).fetched \union Planned(refused).dark
           /\ home[r] \notin Made => r \in Planned(refused).orphans
<1>1. GithubIdentities = Made
  BY MadeAreAccounts
<1>2. /\ Planned(refused).fetched = UNION {Owned(i) : i \in Fetching(refused)}
      /\ Planned(refused).dark = (UNION {Owned(a) : a \in Blocked(refused)}) \union Orphans
      /\ Planned(refused).orphans = Orphans
  BY DEF Planned
<1>3. home[r] \notin Made => r \in Orphans
  BY <1>1 DEF Orphans
<1>4. r \in Owned(home[r])
  BY DEF Owned
<1>5. CASE home[r] \in Fetching(refused)
  <2>1. r \in UNION {Owned(i) : i \in Fetching(refused)}
    BY <1>4, <1>5
  <2>2. r \in Planned(refused).fetched
    BY <1>2, <2>1, Zenon
  <2>3. home[r] \in Made
    BY <1>1, <1>5 DEF Fetching
  <2> QED
    BY <2>2, <2>3
<1>6. CASE home[r] \in Made \ Fetching(refused)
  <2>1. home[r] \in Blocked(refused)
    BY <1>4, <1>6 DEF Blocked, WorthReporting
  <2>2. r \in UNION {Owned(a) : a \in Blocked(refused)}
    BY <1>4, <2>1
  <2>3. r \in Planned(refused).dark
    BY <1>2, <2>2, Zenon
  <2> QED
    BY <1>6, <2>3
<1>7. CASE home[r] \notin Made
  BY <1>2, <1>3, <1>7
<1>8. home[r] \in Fetching(refused) \/ home[r] \in Made \ Fetching(refused) \/ home[r] \notin Made
  OBVIOUS
<1> QED
  BY <1>5, <1>6, <1>7, <1>8

\* An account that is on and has no token is blocked, whatever the
\* credential store refuses.
LEMMA TokenlessIsBlocked ==
    ASSUME NEW refused \in SUBSET GithubIdentities, NEW a \in Made,
           Enabled(a), a \notin stored
    PROVE  a \in Planned(refused).failed
  BY DEF Planned, Blocked, Fetching, WorthReporting

LEMMA RepoInitInv == RepoInit => ReposInv
<1> SUFFICES ASSUME RepoInit
             PROVE  ReposInv
  OBVIOUS
<1>1. RepoTypeOK
  <2>1. account \in [Account -> {"unmade", "on", "off", "removed"}]
    BY DEF RepoInit
  <2>2. home \in [Repo -> Identity \union {Untracked}] /\ stored \subseteq Identity
    BY DEF RepoInit, Identity
  <2>3. plan \in [fetched : SUBSET Repo, dark : SUBSET Repo,
                  failed : SUBSET Account, orphans : SUBSET Repo]
    BY DEF RepoInit, NoPlan
  <2> QED
    BY <2>1, <2>2, <2>3 DEF RepoInit, RepoTypeOK
<1> QED
  BY <1>1 DEF RepoInit, ReposInv, NothingUnmentioned, PlanIsCurrent, AtRest,
              EveryTrackedRepoHasARow, AbsentIsTrue, BlockedIsNamed

\* An edit leaves a permit: from then on there is nothing to say at rest, and
\* nothing to say of the pass under way.
LEMMA EditsKeepInv ==
    ASSUME ReposInv, RepoEdit
    PROVE  ReposInv'
<1> USE DEF ReposInv, NothingUnmentioned, RepoTypeOK
<1>1. Edit
  BY DEF RepoEdit, AddAccount, UpdateAccount, SetAccountEnabled, RemoveAccount, AddRepo,
         SetRepoTracked, SetRepoAccount, RemoveRepo, SetRepoEnabled
<1>2. rwake' = TRUE /\ UNCHANGED <<rpc, plan, token, unreadable, shown, failing, orphaned>>
  BY <1>1 DEF Edit, panel
<1>3. Mentioned' /\ PlanIsCurrent'
  BY <1>2 DEF Mentioned, PlanIsCurrent, AtRest, EveryTrackedRepoHasARow, AbsentIsTrue,
              BlockedIsNamed
<1>4. /\ account' \in [Account -> {"unmade", "on", "off", "removed"}]
      /\ stored' \subseteq Identity
      /\ home' \in [Repo -> Identity \union {Untracked}] /\ hidden' \subseteq Repo
  <2>1. CASE \E a \in Account : AddAccount(a)
    BY <2>1 DEF AddAccount, Identity
  <2>2. CASE \E a \in Account : UpdateAccount(a)
    BY <2>2 DEF UpdateAccount, Identity
  <2>3. CASE \E a \in Account : SetAccountEnabled(a)
    BY <2>3 DEF SetAccountEnabled
  <2>4. CASE \E a \in Account : RemoveAccount(a)
    BY <2>4 DEF RemoveAccount
  <2>5. CASE \E r \in Repo : AddRepo(r)
    <3> PICK r \in Repo : AddRepo(r)
      BY <2>5
    <3> PICK a \in Made \union {NewRepoHome} : home' = [home EXCEPT ![r] = a]
      BY DEF AddRepo
    <3>1. a \in Identity
      BY NewRepoHomeIs, MadeAreAccounts DEF Identity
    <3> QED
      BY <3>1 DEF AddRepo
  <2>6. CASE \E a \in Account, r \in Repo : SetRepoTracked(a, r)
    <3> PICK a \in Account, r \in Repo : SetRepoTracked(a, r)
      BY <2>6
    <3> PICK h \in {a, Untracked} : home' = [home EXCEPT ![r] = h]
      BY DEF SetRepoTracked
    <3> QED
      BY DEF SetRepoTracked, Identity
  <2>7. CASE \E r \in Repo : SetRepoAccount(r)
    <3> PICK r \in Repo : SetRepoAccount(r)
      BY <2>7
    <3> PICK a \in Made \union {Nobody} : home' = [home EXCEPT ![r] = a]
      BY DEF SetRepoAccount
    <3>1. a \in Identity
      BY MadeAreAccounts DEF Identity
    <3> QED
      BY <3>1 DEF SetRepoAccount
  <2>8. CASE \E r \in Repo : RemoveRepo(r)
    BY <2>8 DEF RemoveRepo
  <2>9. CASE \E r \in Repo : SetRepoEnabled(r)
    BY <2>9 DEF SetRepoEnabled
  <2> QED
    BY <2>1, <2>2, <2>3, <2>4, <2>5, <2>6, <2>7, <2>8, <2>9 DEF RepoEdit
<1> QED
  BY <1>2, <1>3, <1>4 DEF Mentioned

\* What a pass says when it is over, and no edit has come since it decided.
LEMMA AppliedIsMentioned ==
    ASSUME RepoTypeOK, NEW refused \in SUBSET GithubIdentities,
           NEW read \in SUBSET Planned(refused).fetched,
           ApplyRepoAccounts(Planned(refused), read),
           UNCHANGED setVars,
           token' = "absent" /\ ~unreadable'
               => \A i \in GithubIdentities : Enabled(i) => i \notin stored
    PROVE  Mentioned'
<1> DEFINE p == Planned(refused)
<1>1. /\ shown' = [r \in Repo |-> IF r \in read THEN "read"
                                  ELSE IF r \in p.fetched \union p.dark THEN "unreachable"
                                  ELSE "none"]
      /\ failing' = p.failed /\ orphaned' = p.orphans
  BY DEF ApplyRepoAccounts
<1>2. UNCHANGED <<Made, Tracked, home, stored, GithubIdentities>>
  BY DEF setVars, Made, Tracked, GithubIdentities
<1>3. \A i : Enabled(i)' = Enabled(i)
  BY DEF setVars, Enabled
<1>4. EveryTrackedRepoHasARow'
  <2> SUFFICES ASSUME Made # {}, NEW r \in Tracked
               PROVE  /\ shown' # NotYet /\ shown'[r] # "none"
                      /\ home[r] \notin Made => r \in orphaned'
    BY <1>2 DEF EveryTrackedRepoHasARow
  <2>1. r \in p.fetched \union p.dark /\ (home[r] \notin Made => r \in p.orphans)
    BY EveryRepoIsPlanned
  <2>2. r \in Repo
    BY DEF Tracked
  <2>3. shown'[r] \in {"read", "unreachable"}
    BY <1>1, <2>1, <2>2
  <2>4. shown' # NotYet
    BY <2>2, <2>3 DEF NotYet
  <2> QED
    BY <1>1, <2>1, <2>3, <2>4
<1>5. AbsentIsTrue'
  BY <1>2, <1>3 DEF AbsentIsTrue
<1>6. BlockedIsNamed'
  BY <1>1, <1>2, <1>3, TokenlessIsBlocked DEF BlockedIsNamed
<1> QED
  BY <1>4, <1>5, <1>6 DEF Mentioned

\* "Absent" is said only when the store answered for every account that is on.
LEMMA AbsentIsOfAll ==
    ASSUME NEW refused \in SUBSET GithubIdentities, Verdict(refused) = "absent"
    PROVE  \A i \in GithubIdentities : Enabled(i) => i \notin stored
  BY DEF Verdict, Fetching

\* Only a token that is there, or one that is asked for in vain, changes what
\* the panel said before.
LEMMA VerdictIsTrue ==
    ASSUME NEW refused \in SUBSET GithubIdentities, ApplyCredential(Verdict(refused)),
           Fetching(refused) = {}, token' = "absent", ~unreadable'
    PROVE  \A i \in GithubIdentities : Enabled(i) => i \notin stored
<1>1. CASE Verdict(refused) = "absent"
  BY <1>1, AbsentIsOfAll
<1>2. CASE Verdict(refused) = "unreadable"
  BY <1>2 DEF ApplyCredential
<1>3. CASE Verdict(refused) = "unlooked"
  BY <1>3 DEF Verdict
<1> QED
  BY <1>1, <1>2, <1>3 DEF Verdict


\* A pass begins, and is over at once when nobody can poll.
LEMMA StartKeepsInv ==
    ASSUME ReposInv, ReposWoken \/ ReposCadence
    PROVE  ReposInv'
<1> USE DEF ReposInv, NothingUnmentioned
<1>1. /\ rpc = "asleep" /\ UNCHANGED setVars
      /\ rwake' \in BOOLEAN
  BY DEF ReposWoken, ReposCadence, StartRepos, RepoTypeOK
<1>2. PICK refused \in SUBSET GithubIdentities :
        /\ ApplyCredential(Verdict(refused))
        /\ IF Fetching(refused) = {}
           THEN EndEarly(Planned(refused), Verdict(refused))
           ELSE /\ rpc' = "fetch" /\ plan' = Planned(refused)
                /\ UNCHANGED <<shown, failing, orphaned>>
  BY DEF ReposWoken, ReposCadence, StartRepos
<1>3. UNCHANGED <<account, stored, home, hidden>>
  BY <1>1 DEF setVars
<1>4. token' \in {"unknown", "absent", "present"} /\ unreadable' \in BOOLEAN
  BY <1>2 DEF ApplyCredential, RepoTypeOK
<1>5. CASE Fetching(refused) # {}
  <2>1. rpc' = "fetch" /\ plan' = Planned(refused) /\ UNCHANGED <<shown, failing, orphaned>>
    BY <1>2, <1>5
  <2>2. RepoTypeOK'
    BY <1>1, <1>3, <1>4, <2>1, PlannedIs DEF RepoTypeOK
  <2>3. PlanIsCurrent'
    <3>1. UNCHANGED <<GithubIdentities, Fetching(refused), Planned(refused)>>
      BY <1>3 DEF GithubIdentities, Made, Fetching, Enabled, Planned, Owned, Tracked, Blocked,
                  WorthReporting, Orphans
    <3>2. refused \in SUBSET GithubIdentities' /\ Fetching(refused)' # {}
          /\ plan' = Planned(refused)'
      BY <1>5, <2>1, <3>1
    <3> QED
      BY <3>2 DEF PlanIsCurrent
  <2>4. Mentioned'
    BY <2>1 DEF Mentioned, EveryTrackedRepoHasARow, AbsentIsTrue, BlockedIsNamed, AtRest
  <2> QED
    BY <2>2, <2>3, <2>4 DEF Mentioned
<1>6. CASE Fetching(refused) = {}
  <2>1. EndEarly(Planned(refused), Verdict(refused))
    BY <1>2, <1>6
  <2>2. rpc' = "asleep" /\ plan' = plan
    BY <1>1, <2>1 DEF EndEarly
  <2>3. PlanIsCurrent'
    BY <2>2 DEF PlanIsCurrent
  <2>4. token' = "absent" /\ ~unreadable'
          => \A i \in GithubIdentities : Enabled(i) => i \notin stored
    BY <1>2, <1>6, VerdictIsTrue
  <2>5. CASE HasResults(Planned(refused))
    <3>1. ApplyRepoAccounts(Planned(refused), {})
      BY <2>1, <2>5 DEF EndEarly
    <3>2. Mentioned'
      BY <1>1, <2>4, <3>1, AppliedIsMentioned
    <3>3. shown' \in [Repo -> Row] /\ failing' \subseteq Account /\ orphaned' \subseteq Repo
      BY <3>1, PlannedIs DEF ApplyRepoAccounts, Row
    <3>4. RepoTypeOK'
      BY <1>1, <1>3, <1>4, <2>2, <3>3 DEF RepoTypeOK
    <3> QED
      BY <2>3, <3>2, <3>4 DEF Mentioned
  <2>6. CASE ~HasResults(Planned(refused))
    <3>1. \/ shown' = NotYet /\ failing' = {} /\ orphaned' = {}
          \/ UNCHANGED <<shown, failing, orphaned>>
      BY <2>1, <2>6 DEF EndEarly
    <3>2. RepoTypeOK'
      BY <1>1, <1>3, <1>4, <2>2, <3>1 DEF RepoTypeOK
    <3>3. Planned(refused).failed = {} /\ Planned(refused).orphans = {}
      BY <2>6 DEF HasResults
    <3>4. UNCHANGED <<Made, Tracked, stored, GithubIdentities>>
      BY <1>3 DEF Made, Tracked, GithubIdentities
    <3>5. \A i : Enabled(i)' = Enabled(i)
      BY <1>3 DEF Enabled
    <3>6. Made # {} => Tracked = {}
      <4> SUFFICES ASSUME Made # {}, NEW r \in Tracked
                   PROVE  FALSE
        OBVIOUS
      <4>1. home[r] \in Made
        BY <3>3, EveryRepoIsPlanned
      <4>2. home[r] \in Made \ Fetching(refused) /\ r \in Owned(home[r])
        BY <1>6, <4>1 DEF Owned
      <4>3. home[r] \in Blocked(refused)
        BY <4>2 DEF Blocked, WorthReporting
      <4> QED
        BY <3>3, <4>3 DEF Planned
    <3>7. \A a \in Made : Enabled(a) => a \in stored
      BY <3>3, TokenlessIsBlocked
    <3>8. Mentioned'
      BY <2>4, <3>4, <3>5, <3>6, <3>7
         DEF Mentioned, EveryTrackedRepoHasARow, AbsentIsTrue, BlockedIsNamed
    <3> QED
      BY <2>3, <3>2, <3>8 DEF Mentioned
  <2> QED
    BY <2>5, <2>6
<1> QED
  BY <1>5, <1>6

\* A pass ends with what it decided at its start.
LEMMA FinishKeepsInv ==
    ASSUME ReposInv, FinishRepos
    PROVE  ReposInv'
<1> USE DEF ReposInv, NothingUnmentioned
<1>1. /\ rpc = "fetch" /\ rpc' = "asleep" /\ plan' = NoPlan
      /\ token' = "present" /\ unreadable' = FALSE /\ UNCHANGED <<setVars, rwake>>
  BY DEF FinishRepos
<1>2. PICK read \in SUBSET plan.fetched : ApplyRepoAccounts(plan, read)
  BY DEF FinishRepos
<1>3. UNCHANGED <<account, stored, home, hidden>>
  BY <1>1 DEF setVars
<1>4. RepoTypeOK'
  <2>1. shown' \in [Repo -> Row] /\ failing' \subseteq Account /\ orphaned' \subseteq Repo
    BY <1>2 DEF ApplyRepoAccounts, Row, RepoTypeOK
  <2>2. plan' \in [fetched : SUBSET Repo, dark : SUBSET Repo,
                   failed : SUBSET Account, orphans : SUBSET Repo]
    BY <1>1 DEF NoPlan
  <2> QED
    BY <1>1, <1>3, <2>1, <2>2 DEF RepoTypeOK
<1>5. PlanIsCurrent'
  BY <1>1 DEF PlanIsCurrent
<1>6. Mentioned'
  <2>1. CASE rwake
    BY <1>1, <2>1 DEF Mentioned, EveryTrackedRepoHasARow, AbsentIsTrue, BlockedIsNamed, AtRest
  <2>2. CASE ~rwake
    <3>1. PICK refused \in SUBSET GithubIdentities : plan = Planned(refused)
      BY <1>1, <2>2 DEF PlanIsCurrent
    <3> QED
      BY <1>1, <1>2, <3>1, AppliedIsMentioned
  <2> QED
    BY <2>1, <2>2
<1> QED
  BY <1>4, <1>5, <1>6 DEF Mentioned

\* The inductive invariant of the repositories' half of a pass.
THEOREM PlansAreInductive == RepoSpec => []ReposInv
<1>1. ReposInv /\ [RepoNext]_repoVars => ReposInv'
  <2> SUFFICES ASSUME ReposInv, [RepoNext]_repoVars
               PROVE  ReposInv'
    OBVIOUS
  <2>1. CASE RepoNext
    BY <2>1, EditsKeepInv, StartKeepsInv, FinishKeepsInv DEF RepoNext
  <2>2. CASE UNCHANGED repoVars
    <3>1. UNCHANGED <<account, stored, home, hidden, rpc, plan, rwake, token, unreadable,
                      shown, failing, orphaned>>
      BY <2>2 DEF repoVars, setVars, panel
    <3>2. UNCHANGED <<Made, Tracked, GithubIdentities>>
      BY <3>1 DEF Made, Tracked, GithubIdentities
    <3>3. \A i : Enabled(i)' = Enabled(i)
      BY <3>1 DEF Enabled
    <3>4. \A refused : /\ Fetching(refused)' = Fetching(refused)
                       /\ Planned(refused)' = Planned(refused)
      <4> TAKE refused
      <4>1. \A i : Owned(i)' = Owned(i) /\ WorthReporting(i)' = WorthReporting(i)
        BY <3>1, <3>2, <3>3 DEF Owned, WorthReporting
      <4>2. /\ Fetching(refused)' = Fetching(refused) /\ Orphans' = Orphans
            /\ Blocked(refused)' = Blocked(refused)
        BY <3>1, <3>2, <3>3, <4>1 DEF Fetching, Blocked, Orphans
      <4>3. /\ (UNION {Owned(i) : i \in Fetching(refused)})'
                  = UNION {Owned(i) : i \in Fetching(refused)}
            /\ (UNION {Owned(a) : a \in Blocked(refused)})'
                  = UNION {Owned(a) : a \in Blocked(refused)}
        BY <4>1, <4>2
      <4> QED
        BY <4>2, <4>3 DEF Planned
    <3>5. PlanIsCurrent'
      BY <3>1, <3>2, <3>4 DEF ReposInv, PlanIsCurrent
    <3>6. RepoTypeOK'
      BY <3>1 DEF ReposInv, NothingUnmentioned, RepoTypeOK
    <3>7. EveryTrackedRepoHasARow' /\ AbsentIsTrue' /\ BlockedIsNamed'
      BY <3>1, <3>2, <3>3 DEF ReposInv, NothingUnmentioned, AtRest, EveryTrackedRepoHasARow,
                              AbsentIsTrue, BlockedIsNamed
    <3> QED
      BY <3>5, <3>6, <3>7 DEF ReposInv, NothingUnmentioned
  <2> QED
    BY <2>1, <2>2
<1> QED
  BY RepoInitInv, <1>1, PTL DEF RepoSpec

\* At rest every tracked repository has its row, every account that is on and
\* has no token is named, and "no token" is said only of a store that holds
\* none, whatever was edited in the middle of whichever pass (`plan_github_pass`,
\* `apply_repo_accounts`, `apply_pass_credential`).
THEOREM NothingGoesUnmentioned == RepoSpec => []NothingUnmentioned
<1>1. ReposInv => NothingUnmentioned
  BY DEF ReposInv
<1> QED
  BY PlansAreInductive, <1>1, PTL

\* A repository is read with the token of the account it named when the pass
\* began, of one that is on, and of no other.
THEOREM OwnersRead == RepoSpec => ReadByItsOwner
<1>1. ASSUME RepoNext, rpc' = "fetch", rpc = "asleep", NEW r \in Repo, r \in plan'.fetched
      PROVE  home[r] \in stored /\ Enabled(home[r])
  <2>1. ~RepoEdit /\ ~FinishRepos
    <3>1. RepoEdit => Edit
      BY DEF RepoEdit, AddAccount, UpdateAccount, SetAccountEnabled, RemoveAccount, AddRepo,
             SetRepoTracked, SetRepoAccount, RemoveRepo, SetRepoEnabled
    <3> QED
      BY <1>1, <3>1 DEF Edit, FinishRepos
  <2>2. StartRepos
    BY <1>1, <2>1 DEF RepoNext, ReposWoken, ReposCadence
  <2>3. PICK refused \in SUBSET GithubIdentities : plan' = Planned(refused)
    BY <1>1, <2>2 DEF StartRepos, EndEarly
  <2>4. r \in UNION {Owned(i) : i \in Fetching(refused)}
    BY <1>1, <2>3 DEF Planned
  <2>5. PICK i \in Fetching(refused) : r \in Owned(i)
    BY <2>4
  <2> QED
    BY <2>5 DEF Fetching, Owned
<1>2. [RepoNext]_repoVars => [\A r \in Repo :
        rpc' = "fetch" /\ rpc = "asleep" /\ r \in plan'.fetched
            => home[r] \in stored /\ Enabled(home[r])]_repoVars
  BY <1>1
<1> QED
  BY <1>2, PTL DEF RepoSpec, ReadByItsOwner


----------------------------------------------------------------------------
(* RunnerRoster.  What a pass holds are ages at its start: `Older` by the  *)
(* ticks since, they are the ages of the last sightings, which only the    *)
(* pass itself moves.                                                      *)

Aged == Age \union {Gone}

Answers == [came : {"rows"}, new : [Runner -> Aged], registered : SUBSET Runner,
            recycling : SUBSET Runner, missing : SUBSET Runner]

\* The types that `RosterTypeOK` leaves open.
PassTypeOK ==
    /\ rows \in [Org -> {Nothing} \union Shown]
    /\ outcome \in [Org -> {Untried, Failed} \union Answers]

\* Between passes there is no copy of the roster and no answer, and no pass
\* is older than its first request.
NothingHeld ==
    /\ gpc = "asleep" => \A o \in Org, r \in Runner : records[o][r] = Gone
    /\ gpc \in {"asleep", "select"} => since = 0 /\ \A o \in Org : outcome[o] = Untried

\* A pass's copy is of the last sightings, until it delivers others.
CopyIsTrue ==
    gpc \in {"select", "fetch"} => \A o \in Org, r \in Runner :
        records[o][r] # Gone => lastSight[o][r] = Older(records[o][r], since)

\* An answer is `apply_fetch` of that copy, and of what was registered.
AnswersAreOfCopies ==
    \A o \in Org : Delivered(o) => outcome[o] = Answer(o, outcome[o].registered)

\* What is remembered is true of what the pass under way has not delivered;
\* of what it has, what it is about to store is.
StoreIsTrue ==
    \A o \in Org, r \in Runner :
        /\ gpc # "persist" \/ ~Delivered(o)
               => (roster[o][r] # Gone => roster[o][r] = lastSight[o][r])
        /\ gpc = "persist" /\ Delivered(o)
               => (Stored(o)[r] # Gone => Stored(o)[r] = lastSight[o][r])

\* What was forgotten while no pass was under way is in no pass's copy, and
\* not among what is about to be stored.
CopyForgets ==
    \A f \in dropped :
        /\ records[f[1]][f[2]] = Gone
        /\ gpc = "persist" /\ Delivered(f[1]) => f[2] \notin outcome[f[1]].registered

\* What the group says of the runners' clocks.
RosterKept == RosterTypeOK /\ LastSeenIsTrue /\ AlarmIsEarned /\ ForgetSticks

PassInv == /\ RosterKept /\ PassTypeOK /\ NothingHeld /\ CopyIsTrue
           /\ AnswersAreOfCopies /\ StoreIsTrue /\ CopyForgets

\* Ages: a saturated clock.
LEMMA OlderIs ==
    ASSUME NEW age \in Aged, NEW n \in Nat
    PROVE  /\ Older(age, n) \in Aged
           /\ Older(age, n) = Gone <=> age = Gone
           /\ age # Gone => Older(age, n) \in Age /\ Older(age, n) >= age
           /\ Older(age, 0) = age
           /\ Older(Older(age, n), 1) = Older(age, n + 1)
  BY RunnerRosterAssumption DEF Aged, Age, Older

LEMMA ZeroIsAnAge == 0 \in Age /\ Gone \notin Age
  BY RunnerRosterAssumption DEF Age

\* What a fetch comes to, for each runner.
LEMMA UpdatedIs ==
    ASSUME NEW o \in Org, NEW reg \in SUBSET Runner, records \in [Org -> [Runner -> Aged]]
    PROVE  /\ Updated(o, reg) \in [Runner -> Aged]
           /\ \A r \in Runner : r \in reg => Updated(o, reg)[r] = 0
           /\ \A r \in Runner : r \notin reg =>
                 Updated(o, reg)[r] \in {Gone, records[o][r]}
<1>1. \A r \in Runner : records[o][r] \in Aged
  OBVIOUS
<1> QED
  BY <1>1, ZeroIsAnAge DEF Updated, RosterForOrg, Aged

LEMMA AnswerIs ==
    ASSUME NEW o \in Org, NEW reg \in SUBSET Runner, records \in [Org -> [Runner -> Aged]]
    PROVE  /\ Answer(o, reg) \in Answers
           /\ Answer(o, reg).registered = reg
           /\ Answer(o, reg).new = Updated(o, reg)
           /\ \A r \in Answer(o, reg).recycling \union Answer(o, reg).missing :
                 records[o][r] # Gone /\ r \in Runner \ reg
           /\ \A r \in Answer(o, reg).missing : records[o][r] >= Grace
<1>1. Absent(o, reg) \subseteq Runner \ reg
      /\ \A r \in Absent(o, reg) : records[o][r] # Gone
  <2>1. \A r \in Absent(o, reg) : r \in Runner \ reg /\ Updated(o, reg)[r] # Gone
    BY DEF Absent
  <2> QED
    BY <2>1, UpdatedIs
<1>2. /\ Answer(o, reg).came = "rows" /\ Answer(o, reg).new = Updated(o, reg)
      /\ Answer(o, reg).registered = reg
      /\ Answer(o, reg).recycling = {r \in Absent(o, reg) : RosterForOrg(o)[r] < Grace}
      /\ Answer(o, reg).missing = {r \in Absent(o, reg) : RosterForOrg(o)[r] >= Grace}
  BY DEF Answer
<1>3. Answer(o, reg) \in Answers
  BY <1>1, UpdatedIs DEF Answer, Answers
<1> QED
  BY <1>1, <1>2, <1>3 DEF RosterForOrg

LEMMA RosterInitInv == RosterInit => PassInv
<1> SUFFICES ASSUME RosterInit
             PROVE  PassInv
  OBVIOUS
<1>1. RosterTypeOK
  <2>1. /\ roster \in [Org -> [Runner -> Age \union {Gone}]]
        /\ records \in [Org -> [Runner -> Age \union {Gone}]]
        /\ lastSight \in [Org -> [Runner -> Age \union {Gone}]]
    BY DEF RosterInit
  <2> QED
    BY <2>1, RunnerRosterAssumption DEF RosterInit, RosterTypeOK
<1>2. PassTypeOK /\ NothingHeld /\ CopyIsTrue /\ StoreIsTrue /\ CopyForgets
  BY DEF RosterInit, PassTypeOK, NothingHeld, CopyIsTrue, StoreIsTrue, CopyForgets
<1>3. AnswersAreOfCopies
  BY DEF RosterInit, AnswersAreOfCopies, Delivered, Untried
<1> QED
  BY <1>1, <1>2, <1>3 DEF RosterInit, PassInv, RosterKept, LastSeenIsTrue, AlarmIsEarned,
                          ForgetSticks, Nothing

\* A runner's row in the panel, when it is kept, keeps being earned.
Earned(o, row) ==
    row.shown = "rows" =>
        /\ row.missing \intersect row.registered = {}
        /\ \A r \in row.missing : lastSight[o][r] # Gone /\ lastSight[o][r] >= Grace

LEMMA WithoutRowIs ==
    ASSUME NEW row \in Shown, NEW r
    PROVE  LET less == WithoutRow(row, r) IN
           /\ less \in Shown /\ less.shown = row.shown /\ less.registered = row.registered
           /\ less.recycling = row.recycling \ {r} /\ less.missing = row.missing \ {r}
<1>1. WithoutRow(row, r) \in Shown
  BY DEF WithoutRow, Shown
<1>2. WithoutRow(row, r).recycling = row.recycling \ {r}
  BY DEF WithoutRow, Shown
<1>3. WithoutRow(row, r).missing = row.missing \ {r}
  BY DEF WithoutRow, Shown
<1>4. WithoutRow(row, r).registered = row.registered
  BY DEF WithoutRow, Shown
<1> QED
  BY <1>1, <1>2, <1>3, <1>4 DEF Shown

\* What a step that leaves the pass alone need not look at.
LEMMA PassStays ==
    ASSUME PassInv, UNCHANGED <<gpc, records, outcome, since, lastSight>>
    PROVE  /\ NothingHeld' /\ CopyIsTrue' /\ AnswersAreOfCopies'
           /\ \A o \in Org : Delivered(o)' = Delivered(o) /\ Stored(o)' = Stored(o)
<1>1. ASSUME NEW o \in Org, NEW reg
      PROVE  Answer(o, reg)' = Answer(o, reg)
  <2>1. RosterForOrg(o)' = RosterForOrg(o)
    BY DEF RosterForOrg
  <2>2. Updated(o, reg)' = Updated(o, reg)
    BY <2>1 DEF Updated
  <2>3. Absent(o, reg)' = Absent(o, reg)
    BY <2>2 DEF Absent
  <2> QED
    BY <2>1, <2>2, <2>3 DEF Answer
<1>2. \A o \in Org : Delivered(o)' = Delivered(o) /\ Stored(o)' = Stored(o)
  BY DEF Delivered, Stored
<1>3. NothingHeld' /\ CopyIsTrue'
  BY DEF PassInv, NothingHeld, CopyIsTrue
<1>4. AnswersAreOfCopies'
  BY <1>1, <1>2 DEF PassInv, AnswersAreOfCopies
<1> QED
  BY <1>2, <1>3, <1>4

\* Settings and "Forget".
LEMMA CommandsKeepPass ==
    ASSUME PassInv, \/ \E o \in Org : SetAccountOrg(o)
                    \/ \E o \in Org, r \in Runner : ForgetRecord(o, r)
                    \/ ForgetRow
    PROVE  PassInv'
<1> USE DEF PassInv, RosterKept, RosterTypeOK
<1>1. CASE \E o \in Org : SetAccountOrg(o)
  <2>1. /\ chosen' \subseteq Org /\ gwake' = TRUE
        /\ UNCHANGED <<roster, rows, gpc, selection, blocked, records, outcome, since,
                       forgetting, lastSight, dropped>>
    BY <1>1 DEF SetAccountOrg, WakeGithub, passVars
  <2>2. RosterTypeOK' /\ PassTypeOK'
    BY <2>1 DEF PassTypeOK
  <2> QED
    BY <2>1, <2>2, PassStays DEF StoreIsTrue, CopyForgets, LastSeenIsTrue, AlarmIsEarned,
                                 ForgetSticks
<1>2. CASE \E o \in Org, r \in Runner : ForgetRecord(o, r)
  <2> PICK o \in Org, r \in Runner : ForgetRecord(o, r)
    BY <1>2
  <2>1. /\ forgetting = <<>> /\ forgetting' = <<o, r>>
        /\ roster' = [roster EXCEPT ![o][r] = Gone]
        /\ dropped' = IF gpc = "asleep" THEN dropped \union {<<o, r>>} ELSE dropped
        /\ UNCHANGED <<chosen, rows, gpc, selection, blocked, records, outcome, since, gwake,
                       lastSight>>
    BY DEF ForgetRecord, ForgetRunnerRecord, passVars
  <2>2. RosterTypeOK'
    BY <2>1
  <2>3. PassTypeOK' /\ NothingHeld' /\ CopyIsTrue' /\ AnswersAreOfCopies'
    BY <2>1, PassStays DEF PassTypeOK
  <2>4. \A p \in Org, q \in Runner : roster'[p][q] \in {Gone, roster[p][q]}
    BY <2>1
  <2>5. StoreIsTrue' /\ LastSeenIsTrue'
    BY <2>1, <2>4, PassStays DEF StoreIsTrue, LastSeenIsTrue
  <2>6. AlarmIsEarned'
    BY <2>1 DEF AlarmIsEarned
  <2>7. ForgetSticks'
    BY <2>1, <2>4 DEF ForgetSticks
  <2>8. CopyForgets'
    BY <2>1 DEF CopyForgets, NothingHeld, Delivered
  <2> QED
    BY <2>2, <2>3, <2>5, <2>6, <2>7, <2>8
<1>3. CASE ForgetRow
  <2>1. PICK o \in Org, r \in Runner : forgetting = <<o, r>>
    BY <1>3 DEF ForgetRow
  <2>2. /\ forgetting' = <<>>
        /\ rows' = IF rows[o].shown = "no" THEN rows
                   ELSE [rows EXCEPT ![o] = WithoutRow(@, r)]
        /\ UNCHANGED <<chosen, roster, gpc, selection, blocked, records, outcome, since,
                       gwake, lastSight, dropped>>
    BY <1>3, <2>1 DEF ForgetRow, passVars
  <2>3. \A p \in Org : p # o => rows'[p] = rows[p]
    BY <2>2 DEF PassTypeOK
  <2>4. NothingHeld' /\ CopyIsTrue' /\ AnswersAreOfCopies' /\ StoreIsTrue' /\ CopyForgets'
    BY <2>2, PassStays DEF StoreIsTrue, CopyForgets
  <2>5. CASE rows[o].shown = "no"
    <3>1. rows' = rows
      BY <2>2, <2>5
    <3>2. RosterTypeOK'
      BY <2>2, <3>1
    <3>3. PassTypeOK' /\ LastSeenIsTrue' /\ AlarmIsEarned'
      BY <2>2, <3>1 DEF PassTypeOK, LastSeenIsTrue, AlarmIsEarned
    <3>4. ForgetSticks'
      BY <2>1, <2>2, <2>5, <3>1 DEF ForgetSticks
    <3> QED
      BY <2>4, <3>2, <3>3, <3>4
  <2>6. CASE rows[o].shown # "no"
    <3>1. rows[o] \in Shown
      BY <2>6 DEF PassTypeOK, Nothing
    <3>2. /\ rows'[o] \in Shown
          /\ rows'[o].registered = rows[o].registered
          /\ rows'[o].recycling = rows[o].recycling \ {r}
          /\ rows'[o].missing = rows[o].missing \ {r}
      <4>1. rows'[o] = WithoutRow(rows[o], r)
        BY <2>2, <2>6 DEF PassTypeOK
      <4> QED
        BY <3>1, <4>1, WithoutRowIs
    <3>3. rows' \in [Org -> {Nothing} \union Shown]
      <4>1. DOMAIN rows' = Org /\ rows' = [p \in Org |-> rows'[p]]
        BY <2>2, <2>6 DEF PassTypeOK
      <4>2. \A p \in Org : rows'[p] \in {Nothing} \union Shown
        BY <2>3, <3>2 DEF PassTypeOK
      <4> QED
        BY <4>1, <4>2
    <3>4. RosterTypeOK'
      BY <2>2, <3>3
    <3>5. PassTypeOK' /\ LastSeenIsTrue'
      BY <2>2, <3>3 DEF PassTypeOK, LastSeenIsTrue
    <3>6. AlarmIsEarned'
      <4> SUFFICES ASSUME NEW p \in Org
                   PROVE  Earned(p, rows[p]) => Earned(p, rows'[p])
        BY <2>2 DEF AlarmIsEarned, Earned
      <4>1. CASE p = o
        BY <3>1, <3>2, <4>1 DEF Earned, Shown
      <4>2. CASE p # o
        BY <2>3, <4>2
      <4> QED
        BY <4>1, <4>2
    <3>7. ForgetSticks'
      <4> SUFFICES ASSUME NEW f \in dropped, rows'[f[1]].shown = "rows"
                   PROVE  f[2] \notin rows'[f[1]].recycling \union rows'[f[1]].missing
        BY <2>2 DEF ForgetSticks
      <4>1. f \in Org \X Runner /\ f = <<f[1], f[2]>>
        OBVIOUS
      <4>2. CASE f = <<o, r>>
        BY <3>2, <4>2
      <4>3. CASE f # <<o, r>> /\ f[1] # o
        BY <2>1, <2>3, <4>1, <4>3 DEF ForgetSticks
      <4>4. CASE f # <<o, r>> /\ f[1] = o
        BY <2>1, <3>1, <3>2, <4>1, <4>4 DEF ForgetSticks, Shown
      <4> QED
        BY <4>2, <4>3, <4>4
    <3> QED
      BY <2>4, <3>4, <3>5, <3>6, <3>7
  <2> QED
    BY <2>5, <2>6
<1> QED
  BY <1>1, <1>2, <1>3


\* A pass copies the roster, and the copy is as true as the roster is.
LEMMA StartKeepsPass ==
    ASSUME PassInv, GithubWoken \/ GithubCadence
    PROVE  PassInv'
<1> USE DEF PassInv, RosterKept, RosterTypeOK
<1>1. /\ gpc = "asleep" /\ gpc' = "select" /\ selection' = chosen /\ records' = roster
      /\ blocked' \subseteq selection' /\ gwake' \in BOOLEAN
      /\ UNCHANGED <<chosen, roster, rows, outcome, since, forgetting, lastSight, dropped>>
  BY DEF GithubWoken, GithubCadence, StartPass
<1>2. since = 0 /\ \A o \in Org : outcome[o] = Untried
  BY <1>1 DEF NothingHeld
<1>3. \A o \in Org : ~Delivered(o) /\ ~Delivered(o)'
  BY <1>1, <1>2 DEF Delivered, Untried
<1>4. RosterTypeOK' /\ PassTypeOK' /\ NothingHeld'
  BY <1>1, <1>2 DEF PassTypeOK, NothingHeld
<1>5. CopyIsTrue'
  <2> SUFFICES ASSUME NEW o \in Org, NEW r \in Runner, roster[o][r] # Gone
               PROVE  lastSight[o][r] = Older(roster[o][r], 0)
    BY <1>1, <1>2 DEF CopyIsTrue
  <2>1. roster[o][r] = lastSight[o][r]
    BY <1>1 DEF LastSeenIsTrue
  <2>2. roster[o][r] \in Aged
    BY DEF Aged
  <2> QED
    BY <2>1, <2>2, OlderIs
<1>6. AnswersAreOfCopies'
  BY <1>3 DEF AnswersAreOfCopies
<1>7. StoreIsTrue' /\ LastSeenIsTrue'
  BY <1>1, <1>3 DEF StoreIsTrue, LastSeenIsTrue
<1>8. AlarmIsEarned' /\ ForgetSticks' /\ CopyForgets'
  BY <1>1 DEF AlarmIsEarned, ForgetSticks, CopyForgets
<1> QED
  BY <1>4, <1>5, <1>6, <1>7, <1>8

\* The selection prunes the rows, and adds none but empty ones.
LEMMA SelectKeepsPass ==
    ASSUME PassInv, Select
    PROVE  PassInv'
<1> USE DEF PassInv, RosterKept, RosterTypeOK
<1>1. /\ gpc = "select" /\ UNCHANGED <<chosen, roster, gwake, forgetting, lastSight, dropped>>
      /\ \/ PassOver
         \/ gpc' = "fetch" /\ UNCHANGED <<selection, blocked, records, outcome, since>>
  BY DEF Select
<1>2. PICK noToken \in BOOLEAN :
        rows' = [o \in Org |-> IF ~Kept(o) THEN Nothing
                               ELSE IF rows[o] = Nothing \/ noToken THEN Empty ELSE rows[o]]
  BY DEF Select
<1>3. \A o \in Org : rows'[o] \in {Nothing, Empty, rows[o]}
  BY <1>2
<1>4. rows' \in [Org -> {Nothing} \union Shown]
  <2>1. Empty \in Shown
    BY DEF Empty, Shown
  <2>2. rows' = [o \in Org |-> rows'[o]]
    BY <1>2
  <2>3. \A o \in Org : rows'[o] \in {Nothing} \union Shown
    BY <1>3, <2>1 DEF PassTypeOK
  <2> QED
    BY <2>2, <2>3
<1>5. since = 0 /\ since' = 0 /\ \A o \in Org : outcome[o] = Untried /\ outcome'[o] = Untried
  BY <1>1 DEF NothingHeld, PassOver
<1>6. \A o \in Org : ~Delivered(o) /\ ~Delivered(o)'
  BY <1>5 DEF Delivered, Untried
<1>7. /\ gpc' \in {"asleep", "fetch"} /\ outcome' \in [Org -> {Untried, Failed} \union Answers]
      /\ selection' \subseteq Org /\ blocked' \subseteq selection'
      /\ records' \in [Org -> [Runner -> Age \union {Gone}]]
  BY <1>1 DEF PassOver, PassTypeOK
<1>8. RosterTypeOK' /\ PassTypeOK'
  BY <1>1, <1>4, <1>5, <1>7 DEF PassTypeOK
<1>9. NothingHeld' /\ CopyIsTrue'
  <2>1. CASE PassOver
    BY <1>1, <2>1 DEF PassOver, NothingHeld, CopyIsTrue
  <2>2. CASE gpc' = "fetch" /\ UNCHANGED <<selection, blocked, records, outcome, since>>
    BY <1>1, <2>2 DEF NothingHeld, CopyIsTrue
  <2> QED
    BY <1>1, <2>1, <2>2
<1>10. AnswersAreOfCopies'
  BY <1>6 DEF AnswersAreOfCopies
<1>11. StoreIsTrue' /\ LastSeenIsTrue'
  BY <1>1, <1>6 DEF StoreIsTrue, LastSeenIsTrue
<1>12. AlarmIsEarned'
  BY <1>1, <1>3 DEF AlarmIsEarned, Nothing, Empty
<1>13. ForgetSticks'
  BY <1>1, <1>3 DEF ForgetSticks, Nothing, Empty
<1>14. CopyForgets'
  <2>1. \A f \in dropped : f[1] \in Org /\ f[2] \in Runner
    OBVIOUS
  <2>2. \A f \in dropped : records'[f[1]][f[2]] = Gone
    BY <1>1, <2>1 DEF CopyForgets, PassOver
  <2> QED
    BY <1>1, <1>7, <2>2 DEF CopyForgets
<1> QED
  BY <1>8, <1>9, <1>10, <1>11, <1>12, <1>13, <1>14

\* One answer comes in.
LEMMA FetchKeepsPass ==
    ASSUME PassInv, NEW o \in Org, FetchOrg(o)
    PROVE  PassInv'
<1> USE DEF PassInv, RosterKept, RosterTypeOK
<1>1. /\ gpc = "fetch"
      /\ UNCHANGED <<chosen, roster, rows, gpc, selection, blocked, records, since,
                     gwake, forgetting, lastSight, dropped>>
  BY DEF FetchOrg
<1>2. PICK got : /\ outcome' = [outcome EXCEPT ![o] = got]
                 /\ got = Failed \/ \E reg \in SUBSET Runner : got = Answer(o, reg)
  BY DEF FetchOrg
<1>3. records \in [Org -> [Runner -> Aged]]
  BY DEF Aged
<1>4. got \in {Failed} \union Answers
  BY <1>2, <1>3, AnswerIs
<1>5. RosterTypeOK' /\ PassTypeOK'
  BY <1>1, <1>2, <1>4 DEF PassTypeOK
<1>6. ASSUME NEW p \in Org, NEW reg
      PROVE  Answer(p, reg)' = Answer(p, reg)
  <2>1. RosterForOrg(p)' = RosterForOrg(p)
    BY <1>1 DEF RosterForOrg
  <2>2. Updated(p, reg)' = Updated(p, reg)
    BY <2>1 DEF Updated
  <2>3. Absent(p, reg)' = Absent(p, reg)
    BY <2>2 DEF Absent
  <2> QED
    BY <2>1, <2>2, <2>3 DEF Answer
<1>7. AnswersAreOfCopies'
  <2> SUFFICES ASSUME NEW p \in Org, Delivered(p)'
               PROVE  outcome'[p] = Answer(p, outcome'[p].registered)
    BY <1>6 DEF AnswersAreOfCopies
  <2>1. CASE p = o
    <3>1. outcome'[p] = got
      BY <1>2, <2>1 DEF PassTypeOK
    <3>2. PICK reg \in SUBSET Runner : got = Answer(o, reg)
      BY <1>2, <3>1 DEF Delivered, Failed
    <3>3. got.registered = reg
      BY <1>3, <3>2, AnswerIs
    <3> QED
      BY <2>1, <3>1, <3>2, <3>3
  <2>2. CASE p # o
    <3>1. outcome'[p] = outcome[p]
      BY <1>2, <2>2 DEF PassTypeOK
    <3> QED
      BY <3>1 DEF Delivered, AnswersAreOfCopies
  <2> QED
    BY <2>1, <2>2
<1>8. NothingHeld' /\ CopyIsTrue'
  BY <1>1 DEF NothingHeld, CopyIsTrue
<1>9. StoreIsTrue' /\ LastSeenIsTrue'
  BY <1>1 DEF StoreIsTrue, LastSeenIsTrue
<1>10. AlarmIsEarned' /\ ForgetSticks' /\ CopyForgets'
  BY <1>1 DEF AlarmIsEarned, ForgetSticks, CopyForgets
<1> QED
  BY <1>5, <1>7, <1>8, <1>9, <1>10


\* What a delivered answer is, runner by runner.
LEMMA DeliveredIs ==
    ASSUME PassInv, NEW o \in Org, Delivered(o)
    PROVE  /\ outcome[o] \in Answers /\ outcome[o].registered \subseteq Runner
           /\ \A r \in Runner : r \in outcome[o].registered => outcome[o].new[r] = 0
           /\ \A r \in Runner : r \notin outcome[o].registered =>
                 outcome[o].new[r] \in {Gone, records[o][r]}
           /\ outcome[o].missing \intersect outcome[o].registered = {}
           /\ \A r \in outcome[o].recycling \union outcome[o].missing :
                 r \in Runner \ outcome[o].registered /\ records[o][r] # Gone
           /\ \A r \in outcome[o].missing : records[o][r] >= Grace
<1> USE DEF PassInv, RosterKept, RosterTypeOK
<1>1. outcome[o] \in Answers
  BY DEF PassTypeOK, Delivered, Untried, Failed
<1>2. outcome[o].registered \subseteq Runner
  BY <1>1 DEF Answers
<1>3. outcome[o] = Answer(o, outcome[o].registered)
  BY DEF AnswersAreOfCopies
<1>4. records \in [Org -> [Runner -> Aged]]
  BY DEF Aged
<1> DEFINE reg == outcome[o].registered
<1>5. /\ outcome[o].new = Updated(o, reg)
      /\ \A r \in outcome[o].recycling \union outcome[o].missing :
            records[o][r] # Gone /\ r \in Runner \ reg
      /\ \A r \in outcome[o].missing : records[o][r] >= Grace
  BY <1>2, <1>3, <1>4, AnswerIs
<1>6. /\ \A r \in Runner : r \in reg => outcome[o].new[r] = 0
      /\ \A r \in Runner : r \notin reg => outcome[o].new[r] \in {Gone, records[o][r]}
  BY <1>2, <1>4, <1>5, UpdatedIs
<1> QED
  BY <1>1, <1>2, <1>5, <1>6

\* The answers reach the panel, and what was registered has been seen.
LEMMA ApplyKeepsPass ==
    ASSUME PassInv, ApplyRows
    PROVE  PassInv'
<1> USE DEF PassInv, RosterKept, RosterTypeOK
<1>1. /\ gpc = "fetch" /\ gpc' = "persist"
      /\ UNCHANGED <<chosen, roster, selection, blocked, records, outcome, since,
                     gwake, forgetting>>
  BY DEF ApplyRows
<1>2. /\ rows' = [o \in Org |->
            IF ~Delivered(o) THEN rows[o]
            ELSE [shown |-> "rows", registered |-> outcome[o].registered,
                  recycling |-> outcome[o].recycling, missing |-> outcome[o].missing]]
      /\ lastSight' = [o \in Org |-> [r \in Runner |->
            IF Delivered(o) /\ r \in outcome[o].registered THEN Older(0, since)
            ELSE lastSight[o][r]]]
      /\ dropped' = {f \in dropped :
            ~(Delivered(f[1]) /\ f[2] \in outcome[f[1]].registered)}
  BY DEF ApplyRows
<1>3. since \in Nat /\ 0 \in Aged
  BY RunnerRosterAssumption, ZeroIsAnAge DEF Aged
<1>4. \A o \in Org, r \in Runner :
        /\ Delivered(o) /\ r \in outcome[o].registered => lastSight'[o][r] = Older(0, since)
        /\ ~(Delivered(o) /\ r \in outcome[o].registered) => lastSight'[o][r] = lastSight[o][r]
  BY <1>2
<1>5. lastSight' \in [Org -> [Runner -> Age \union {Gone}]]
  <2>1. Older(0, since) \in Age \union {Gone}
    BY <1>3, OlderIs DEF Aged
  <2> QED
    BY <1>2, <2>1
<1>6. rows' \in [Org -> {Nothing} \union Shown]
  <2> SUFFICES ASSUME NEW o \in Org
               PROVE  rows'[o] \in {Nothing} \union Shown
    BY <1>2
  <2>1. CASE Delivered(o)
    BY <1>2, <2>1, DeliveredIs DEF Shown, Answers
  <2>2. CASE ~Delivered(o)
    BY <1>2, <2>2 DEF PassTypeOK
  <2> QED
    BY <2>1, <2>2
<1>7. RosterTypeOK' /\ PassTypeOK'
  BY <1>1, <1>2, <1>5, <1>6 DEF PassTypeOK
<1>8. NothingHeld' /\ CopyIsTrue'
  BY <1>1 DEF NothingHeld, CopyIsTrue
<1>9. ASSUME NEW o \in Org, NEW reg
      PROVE  Answer(o, reg)' = Answer(o, reg)
  <2>1. RosterForOrg(o)' = RosterForOrg(o)
    BY <1>1 DEF RosterForOrg
  <2>2. Updated(o, reg)' = Updated(o, reg)
    BY <2>1 DEF Updated
  <2>3. Absent(o, reg)' = Absent(o, reg)
    BY <2>2 DEF Absent
  <2> QED
    BY <2>1, <2>2, <2>3 DEF Answer
<1>10. \A o \in Org : Delivered(o)' = Delivered(o) /\ Stored(o)' = Stored(o)
  BY <1>1 DEF Delivered, Stored
<1>11. AnswersAreOfCopies'
  BY <1>1, <1>9, <1>10 DEF AnswersAreOfCopies
<1>12. StoreIsTrue'
  <2> SUFFICES ASSUME NEW o \in Org, NEW r \in Runner
               PROVE  /\ ~Delivered(o) /\ roster[o][r] # Gone
                              => roster[o][r] = lastSight'[o][r]
                      /\ Delivered(o) /\ Stored(o)[r] # Gone
                              => Stored(o)[r] = lastSight'[o][r]
    BY <1>1, <1>10 DEF StoreIsTrue
  <2>1. ~Delivered(o) /\ roster[o][r] # Gone => roster[o][r] = lastSight'[o][r]
    BY <1>1, <1>4 DEF StoreIsTrue
  <2>2. ASSUME Delivered(o), Stored(o)[r] # Gone
        PROVE  Stored(o)[r] = lastSight'[o][r]
    <3>1. Stored(o)[r] = Older(outcome[o].new[r], since)
      BY DEF Stored
    <3>2. CASE r \in outcome[o].registered
      BY <1>4, <2>2, <3>1, <3>2, DeliveredIs
    <3>3. CASE r \notin outcome[o].registered
      <4>1. outcome[o].new[r] \in {Gone, records[o][r]}
        BY <2>2, <3>3, DeliveredIs
      <4>2. outcome[o].new[r] # Gone
        BY <2>2, <3>1 DEF Older
      <4>3. Stored(o)[r] = Older(records[o][r], since) /\ records[o][r] # Gone
        BY <3>1, <4>1, <4>2
      <4> QED
        BY <1>1, <1>4, <3>3, <4>3 DEF CopyIsTrue
    <3> QED
      BY <3>2, <3>3
  <2> QED
    BY <2>1, <2>2
<1>13. LastSeenIsTrue'
  BY <1>1 DEF LastSeenIsTrue
<1>14. AlarmIsEarned'
  <2> SUFFICES ASSUME NEW o \in Org, rows'[o].shown = "rows"
               PROVE  /\ rows'[o].missing \intersect rows'[o].registered = {}
                      /\ \A r \in rows'[o].missing :
                            lastSight'[o][r] # Gone /\ lastSight'[o][r] >= Grace
    BY DEF AlarmIsEarned
  <2>1. CASE ~Delivered(o)
    <3>1. rows'[o] = rows[o]
      BY <1>2, <2>1
    <3>2. rows[o] \in Shown
      BY <3>1 DEF PassTypeOK, Nothing
    <3>3. \A r \in rows[o].missing : r \in Runner
      BY <3>2 DEF Shown
    <3> QED
      BY <1>4, <2>1, <3>1, <3>3 DEF AlarmIsEarned
  <2>2. CASE Delivered(o)
    <3>1. /\ rows'[o].missing = outcome[o].missing
          /\ rows'[o].registered = outcome[o].registered
      BY <1>2, <2>2
    <3>2. ASSUME NEW r \in outcome[o].missing
          PROVE  lastSight'[o][r] # Gone /\ lastSight'[o][r] >= Grace
      <4>1. /\ r \in Runner /\ r \notin outcome[o].registered
            /\ records[o][r] # Gone /\ records[o][r] >= Grace
        BY <2>2, DeliveredIs
      <4>2. lastSight'[o][r] = Older(records[o][r], since)
        BY <1>1, <1>4, <4>1 DEF CopyIsTrue
      <4>3. records[o][r] \in Aged
        BY <4>1 DEF Aged
      <4>4. /\ Older(records[o][r], since) \in Age
            /\ Older(records[o][r], since) >= records[o][r] /\ records[o][r] \in Age
        BY <1>3, <4>1, <4>3, OlderIs DEF Aged
      <4> QED
        BY <4>1, <4>2, <4>4, RunnerRosterAssumption, ZeroIsAnAge DEF Age
    <3> QED
      BY <2>2, <3>1, <3>2, DeliveredIs
  <2> QED
    BY <2>1, <2>2
<1>15. ForgetSticks' /\ CopyForgets'
  <2> SUFFICES ASSUME NEW f \in dropped'
               PROVE  /\ roster[f[1]][f[2]] = Gone
                      /\ rows'[f[1]].shown = "rows" /\ forgetting # f =>
                            f[2] \notin rows'[f[1]].recycling \union rows'[f[1]].missing
                      /\ records[f[1]][f[2]] = Gone
                      /\ Delivered(f[1]) => f[2] \notin outcome[f[1]].registered
    BY <1>1, <1>2, <1>10 DEF ForgetSticks, CopyForgets
  <2>1. /\ f \in dropped /\ f[1] \in Org /\ f[2] \in Runner
        /\ Delivered(f[1]) => f[2] \notin outcome[f[1]].registered
    BY <1>2
  <2>2. roster[f[1]][f[2]] = Gone /\ records[f[1]][f[2]] = Gone
    BY <2>1 DEF ForgetSticks, CopyForgets
  <2>3. CASE Delivered(f[1])
    <3>1. /\ rows'[f[1]].recycling = outcome[f[1]].recycling
          /\ rows'[f[1]].missing = outcome[f[1]].missing
      BY <1>2, <2>1, <2>3
    <3> QED
      BY <2>1, <2>2, <2>3, <3>1, DeliveredIs
  <2>4. CASE ~Delivered(f[1])
    <3>1. rows'[f[1]] = rows[f[1]]
      BY <1>2, <2>1, <2>4
    <3> QED
      BY <2>1, <2>2, <2>4, <3>1 DEF ForgetSticks
  <2> QED
    BY <2>3, <2>4
<1> QED
  BY <1>7, <1>8, <1>11, <1>12, <1>13, <1>14, <1>15

\* The records of the organisations that answered are stored.
LEMMA PersistKeepsPass ==
    ASSUME PassInv, Persist
    PROVE  PassInv'
<1> USE DEF PassInv, RosterKept, RosterTypeOK
<1>1. /\ gpc = "persist" /\ PassOver
      /\ roster' = [o \in Org |-> IF Delivered(o) THEN Stored(o) ELSE roster[o]]
      /\ UNCHANGED <<chosen, rows, gwake, forgetting, lastSight, dropped>>
  BY DEF Persist, NewRoster
<1>2. /\ gpc' = "asleep" /\ selection' = {} /\ blocked' = {} /\ since' = 0
      /\ records' = [o \in Org |-> [r \in Runner |-> Gone]]
      /\ outcome' = [o \in Org |-> Untried]
  BY <1>1 DEF PassOver
<1>3. since \in Nat
  BY RunnerRosterAssumption
<1>4. roster' \in [Org -> [Runner -> Age \union {Gone}]]
  <2> SUFFICES ASSUME NEW o \in Org, Delivered(o), NEW r \in Runner
               PROVE  Older(outcome[o].new[r], since) \in Age \union {Gone}
    BY <1>1 DEF Stored
  <2>1. outcome[o].new[r] \in Aged
    BY DeliveredIs DEF Answers
  <2> QED
    BY <1>3, <2>1, OlderIs DEF Aged
<1>5. RosterTypeOK' /\ PassTypeOK'
  BY <1>1, <1>2, <1>4, RunnerRosterAssumption DEF PassTypeOK
<1>6. \A o \in Org : ~Delivered(o)'
  BY <1>2 DEF Delivered, Untried
<1>7. NothingHeld' /\ CopyIsTrue' /\ AnswersAreOfCopies'
  BY <1>2, <1>6 DEF NothingHeld, CopyIsTrue, AnswersAreOfCopies
<1>8. \A o \in Org, r \in Runner : roster'[o][r] # Gone => roster'[o][r] = lastSight'[o][r]
  BY <1>1 DEF StoreIsTrue
<1>9. LastSeenIsTrue' /\ StoreIsTrue'
  BY <1>2, <1>6, <1>8 DEF LastSeenIsTrue, StoreIsTrue
<1>10. AlarmIsEarned'
  BY <1>1 DEF AlarmIsEarned
<1>11. ForgetSticks'
  <2> SUFFICES ASSUME NEW f \in dropped
               PROVE  roster'[f[1]][f[2]] = Gone
    BY <1>1 DEF ForgetSticks
  <2>1. f[1] \in Org /\ f[2] \in Runner
    OBVIOUS
  <2>2. CASE Delivered(f[1])
    <3>1. /\ records[f[1]][f[2]] = Gone /\ f[2] \notin outcome[f[1]].registered
      BY <1>1, <2>2 DEF CopyForgets
    <3>2. outcome[f[1]].new[f[2]] = Gone
      BY <2>1, <2>2, <3>1, DeliveredIs
    <3> QED
      BY <1>1, <2>1, <2>2, <3>2 DEF Stored, Older
  <2>3. CASE ~Delivered(f[1])
    BY <1>1, <2>1, <2>3 DEF ForgetSticks
  <2> QED
    BY <2>2, <2>3
<1>12. CopyForgets'
  BY <1>1, <1>2 DEF CopyForgets
<1> QED
  BY <1>5, <1>7, <1>9, <1>10, <1>11, <1>12

\* Time passes for the roster, for the sightings and for the pass alike.
LEMMA TickKeepsPass ==
    ASSUME PassInv, Tick
    PROVE  PassInv'
<1> USE DEF PassInv, RosterKept, RosterTypeOK
<1>1. /\ gpc # "select" /\ (gpc \in {"fetch", "persist"} => since < Longest)
      /\ since' = IF gpc \in {"fetch", "persist"} THEN since + 1 ELSE since
      /\ roster' = [o \in Org |-> [r \in Runner |-> Older(roster[o][r], 1)]]
      /\ lastSight' = [o \in Org |-> [r \in Runner |-> Older(lastSight[o][r], 1)]]
      /\ UNCHANGED <<chosen, rows, gpc, selection, blocked, records, outcome,
                     gwake, forgetting, dropped>>
  BY DEF Tick
<1>2. since \in Nat /\ 1 \in Nat /\ since' \in 0..Longest
  BY <1>1, RunnerRosterAssumption
<1>3. \A o \in Org, r \in Runner :
        /\ roster[o][r] \in Aged /\ lastSight[o][r] \in Aged /\ records[o][r] \in Aged
        /\ roster'[o][r] = Older(roster[o][r], 1)
        /\ lastSight'[o][r] = Older(lastSight[o][r], 1)
  BY <1>1 DEF Aged
<1>4. roster' \in [Org -> [Runner -> Age \union {Gone}]]
      /\ lastSight' \in [Org -> [Runner -> Age \union {Gone}]]
  BY <1>1, <1>2, <1>3, OlderIs DEF Aged
<1>5. RosterTypeOK' /\ PassTypeOK'
  BY <1>1, <1>2, <1>4 DEF PassTypeOK
<1>6. NothingHeld'
  BY <1>1 DEF NothingHeld
<1>7. CopyIsTrue'
  <2> SUFFICES ASSUME gpc = "fetch", NEW o \in Org, NEW r \in Runner, records[o][r] # Gone
               PROVE  lastSight'[o][r] = Older(records[o][r], since + 1)
    BY <1>1 DEF CopyIsTrue
  <2>1. lastSight[o][r] = Older(records[o][r], since)
    BY DEF CopyIsTrue
  <2> QED
    BY <1>2, <1>3, <2>1, OlderIs
<1>8. ASSUME NEW o \in Org, NEW reg
      PROVE  Answer(o, reg)' = Answer(o, reg)
  <2>1. RosterForOrg(o)' = RosterForOrg(o)
    BY <1>1 DEF RosterForOrg
  <2>2. Updated(o, reg)' = Updated(o, reg)
    BY <2>1 DEF Updated
  <2>3. Absent(o, reg)' = Absent(o, reg)
    BY <2>2 DEF Absent
  <2> QED
    BY <2>1, <2>2, <2>3 DEF Answer
<1>9. \A o \in Org : Delivered(o)' = Delivered(o)
  BY <1>1 DEF Delivered
<1>10. AnswersAreOfCopies'
  BY <1>1, <1>8, <1>9 DEF AnswersAreOfCopies
<1>11. \A o \in Org, r \in Runner : roster'[o][r] # Gone /\ roster[o][r] = lastSight[o][r]
                                        => roster'[o][r] = lastSight'[o][r]
  BY <1>3
<1>12. \A o \in Org, r \in Runner : roster'[o][r] # Gone => roster[o][r] # Gone
  BY <1>2, <1>3, OlderIs
<1>13. StoreIsTrue'
  <2> SUFFICES ASSUME NEW o \in Org, NEW r \in Runner
               PROVE  /\ gpc # "persist" \/ ~Delivered(o)
                            => (roster'[o][r] # Gone => roster'[o][r] = lastSight'[o][r])
                      /\ gpc = "persist" /\ Delivered(o) /\ Stored(o)'[r] # Gone
                            => Stored(o)'[r] = lastSight'[o][r]
    BY <1>1, <1>9 DEF StoreIsTrue
  <2>1. gpc # "persist" \/ ~Delivered(o)
            => (roster'[o][r] # Gone => roster'[o][r] = lastSight'[o][r])
    BY <1>11, <1>12 DEF StoreIsTrue
  <2>2. ASSUME gpc = "persist", Delivered(o), Stored(o)'[r] # Gone
        PROVE  Stored(o)'[r] = lastSight'[o][r]
    <3>1. outcome[o].new[r] \in Aged
      BY <2>2, DeliveredIs DEF Answers
    <3>2. /\ Stored(o)[r] = Older(outcome[o].new[r], since)
          /\ Stored(o)'[r] = Older(outcome[o].new[r], since + 1)
      BY <1>1, <2>2 DEF Stored
    <3>3. Stored(o)'[r] = Older(Stored(o)[r], 1)
      BY <1>2, <3>1, <3>2, OlderIs
    <3>4. Stored(o)[r] # Gone
      BY <2>2, <3>3 DEF Older
    <3> QED
      BY <1>3, <2>2, <3>3, <3>4 DEF StoreIsTrue
  <2> QED
    BY <2>1, <2>2
<1>14. LastSeenIsTrue'
  BY <1>1, <1>11, <1>12 DEF LastSeenIsTrue
<1>15. AlarmIsEarned'
  <2> SUFFICES ASSUME NEW o \in Org, rows[o].shown = "rows", NEW r \in rows[o].missing
               PROVE  lastSight'[o][r] # Gone /\ lastSight'[o][r] >= Grace
    BY <1>1 DEF AlarmIsEarned
  <2>1. rows[o] \in Shown
    BY DEF PassTypeOK, Nothing
  <2>2. r \in Runner
    BY <2>1 DEF Shown
  <2>3. lastSight[o][r] # Gone /\ lastSight[o][r] >= Grace
    BY DEF AlarmIsEarned
  <2>4. /\ lastSight'[o][r] \in Age /\ lastSight'[o][r] >= lastSight[o][r]
        /\ lastSight[o][r] \in Age
    BY <1>2, <1>3, <2>2, <2>3, OlderIs DEF Aged
  <2> QED
    BY <2>3, <2>4, RunnerRosterAssumption, ZeroIsAnAge DEF Age
<1>16. ForgetSticks' /\ CopyForgets'
  <2>1. \A f \in dropped : /\ f[1] \in Org /\ f[2] \in Runner
                           /\ roster[f[1]][f[2]] = Gone
    BY DEF ForgetSticks
  <2>2. \A f \in dropped : roster'[f[1]][f[2]] = Gone
    BY <1>3, <2>1 DEF Older
  <2> QED
    BY <1>1, <1>9, <2>2 DEF ForgetSticks, CopyForgets
<1> QED
  BY <1>5, <1>6, <1>7, <1>10, <1>13, <1>14, <1>15, <1>16

\* The inductive invariant of the runners' half of a pass.
THEOREM CopiesAreInductive == RosterSpec => []PassInv
<1>1. PassInv /\ [RosterNext]_rosterVars => PassInv'
  <2> SUFFICES ASSUME PassInv, [RosterNext]_rosterVars
               PROVE  PassInv'
    OBVIOUS
  <2>1. CASE RosterNext
    BY <2>1, CommandsKeepPass, StartKeepsPass, SelectKeepsPass, FetchKeepsPass, ApplyKeepsPass,
       PersistKeepsPass, TickKeepsPass DEF RosterNext, GithubLoop
  <2>2. CASE UNCHANGED rosterVars
    <3>1. UNCHANGED <<chosen, roster, rows, gpc, selection, blocked, records, outcome, since,
                      gwake, forgetting, lastSight, dropped>>
      BY <2>2 DEF rosterVars, passVars
    <3>2. RosterTypeOK' /\ PassTypeOK'
      BY <3>1 DEF PassInv, RosterKept, RosterTypeOK, PassTypeOK
    <3>3. /\ NothingHeld' /\ CopyIsTrue' /\ AnswersAreOfCopies'
          /\ StoreIsTrue' /\ CopyForgets'
      <4>1. \A f \in dropped : f[1] \in Org
        BY DEF PassInv, RosterKept, RosterTypeOK
      <4> QED
        BY <3>1, <4>1, PassStays DEF PassInv, StoreIsTrue, CopyForgets
    <3>4. LastSeenIsTrue' /\ AlarmIsEarned' /\ ForgetSticks'
      BY <3>1 DEF PassInv, RosterKept, LastSeenIsTrue, AlarmIsEarned, ForgetSticks
    <3> QED
      BY <3>2, <3>3, <3>4 DEF PassInv, RosterKept
  <2> QED
    BY <2>1, <2>2
<1> QED
  BY RosterInitInv, <1>1, PTL DEF RosterSpec

\* With no wake stored, a pass is of the selection as edited, and so are the
\* panel's rows once it has told the panel; what it fetches is selected.
RowsAreOfThePlan ==
    /\ \A o \in Org : outcome[o] # Untried => o \in selection
    /\ gpc \in {"asleep", "select"} => \A o \in Org : outcome[o] = Untried
    /\ ~gwake /\ gpc # "asleep" => selection = chosen
    /\ ~gwake /\ gpc # "select" => \A o \in Org : o \in chosen <=> rows[o] # Nothing

\* An organisation has its place on the panel, or nothing.
LEMMA PlaceIs == Empty \in Shown /\ \A row \in Shown : row # Nothing /\ row.shown # "no"
  BY DEF Shown, Empty, Nothing

\* Settings, "Forget" and time.
LEMMA CommandsKeepPlan ==
    ASSUME PassInv, RowsAreOfThePlan,
           \/ \E o \in Org : SetAccountOrg(o)
           \/ \E o \in Org, r \in Runner : ForgetRecord(o, r)
           \/ ForgetRow \/ Tick
    PROVE  RowsAreOfThePlan'
<1>1. CASE \E o \in Org : SetAccountOrg(o)
  BY <1>1 DEF SetAccountOrg, WakeGithub, passVars, RowsAreOfThePlan
<1>2. CASE (\E o \in Org, r \in Runner : ForgetRecord(o, r)) \/ Tick
  BY <1>2 DEF ForgetRecord, Tick, passVars, RowsAreOfThePlan
<1>3. CASE ForgetRow
  <2>1. PICK o, r : rows' = IF rows[o].shown = "no" THEN rows
                            ELSE [rows EXCEPT ![o] = WithoutRow(@, r)]
    BY <1>3 DEF ForgetRow
  <2>2. rows \in [Org -> {Nothing} \union Shown]
    BY DEF PassInv, PassTypeOK
  <2>3. ASSUME NEW p \in Org
        PROVE  rows'[p] # Nothing <=> rows[p] # Nothing
    <3>1. CASE p = o /\ rows[o].shown # "no"
      <4>1. rows[p] \in Shown /\ rows'[p] = WithoutRow(rows[p], r)
        BY <2>1, <2>2, <3>1 DEF Nothing
      <4> QED
        BY <4>1, PlaceIs, WithoutRowIs
    <3>2. CASE ~(p = o /\ rows[o].shown # "no")
      BY <2>1, <2>2, <3>2
    <3> QED
      BY <3>1, <3>2
  <2> QED
    BY <1>3, <2>3 DEF ForgetRow, passVars, RowsAreOfThePlan
<1> QED
  BY <1>1, <1>2, <1>3

\* A pass, from its start to its end.
LEMMA PassKeepsPlan ==
    ASSUME PassInv, RowsAreOfThePlan, GithubLoop \/ GithubCadence
    PROVE  RowsAreOfThePlan'
<1>1. CASE GithubWoken \/ GithubCadence
  BY <1>1 DEF GithubWoken, GithubCadence, StartPass, RowsAreOfThePlan
<1>2. CASE Select
  <2>1. PICK noToken \in BOOLEAN :
          rows' = [o \in Org |-> IF ~Kept(o) THEN Nothing
                                 ELSE IF rows[o] = Nothing \/ noToken THEN Empty ELSE rows[o]]
    BY <1>2 DEF Select
  <2>2. \A o \in Org : rows'[o] # Nothing <=> o \in selection
    BY <2>1, PlaceIs DEF Kept
  <2>3. /\ gpc = "select" /\ UNCHANGED <<chosen, gwake>>
        /\ \/ PassOver
           \/ gpc' = "fetch" /\ UNCHANGED <<selection, outcome>>
    BY <1>2 DEF Select
  <2> QED
    BY <2>2, <2>3 DEF PassOver, RowsAreOfThePlan
<1>3. CASE \E o \in Org : FetchOrg(o)
  <2> PICK o \in Org : FetchOrg(o)
    BY <1>3
  <2>1. /\ gpc = "fetch" /\ o \in selection
        /\ UNCHANGED <<chosen, rows, gpc, selection, gwake>>
        /\ \A p \in Org \ {o} : outcome'[p] = outcome[p]
    BY DEF FetchOrg, PassInv, PassTypeOK
  <2> QED
    BY <2>1 DEF RowsAreOfThePlan
<1>4. CASE ApplyRows
  <2>1. /\ gpc = "fetch" /\ gpc' = "persist"
        /\ UNCHANGED <<chosen, selection, outcome, gwake>>
        /\ rows' = [o \in Org |->
             IF ~Delivered(o) THEN rows[o]
             ELSE [shown |-> "rows", registered |-> outcome[o].registered,
                   recycling |-> outcome[o].recycling, missing |-> outcome[o].missing]]
    BY <1>4 DEF ApplyRows
  <2>2. ASSUME NEW o \in Org
        PROVE  Delivered(o) => o \in selection /\ rows'[o] # Nothing
    BY <2>1 DEF Delivered, Untried, Nothing, RowsAreOfThePlan
  <2>3. \A o \in Org : ~Delivered(o) => rows'[o] = rows[o]
    BY <2>1
  <2> QED
    BY <2>1, <2>2, <2>3 DEF RowsAreOfThePlan
<1>5. CASE Persist
  BY <1>5 DEF Persist, PassOver, RowsAreOfThePlan
<1> QED
  BY <1>1, <1>2, <1>3, <1>4, <1>5 DEF GithubLoop

LEMMA PlanIsShown == RosterSpec => []RowsAreOfThePlan
<1>1. RosterInit => RowsAreOfThePlan
  BY DEF RosterInit, RowsAreOfThePlan
<1>2. PassInv /\ RowsAreOfThePlan /\ [RosterNext]_rosterVars => RowsAreOfThePlan'
  <2> SUFFICES ASSUME PassInv, RowsAreOfThePlan, [RosterNext]_rosterVars
               PROVE  RowsAreOfThePlan'
    OBVIOUS
  <2>1. CASE UNCHANGED rosterVars
    BY <2>1 DEF rosterVars, passVars, RowsAreOfThePlan
  <2> QED
    BY <2>1, CommandsKeepPlan, PassKeepsPlan DEF RosterNext
<1> QED
  BY <1>1, <1>2, CopiesAreInductive, PTL DEF RosterSpec

\* What is remembered of the runners is what GitHub said of them: every clock
\* is of that runner's last sighting in that organisation, every alarm has
\* waited out the grace, what was forgotten between passes stays so, and no
\* edit of the selection is left to the cadence (`apply_fetch`,
\* `set_runner_roster_for_org`, `runners_forget`, `wake_github`).
THEOREM ClocksAreTrue == RosterSpec => []RosterIsTrue
<1>1. PassInv /\ RowsAreOfThePlan => RosterIsTrue
  BY DEF PassInv, RosterKept, RosterIsTrue, RowsAreOfThePlan, SelectionIsShown
<1> QED
  BY CopiesAreInductive, PlanIsShown, <1>1, PTL
=============================================================================

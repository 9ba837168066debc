---------------------------- MODULE AgentUpdate ----------------------------
(***************************************************************************)
(* `solador-agent update` and `solador-agent rollback`                     *)
(* (agent/src/update.rs): the transaction that replaces the installed      *)
(* agent binary, restarts the metrics service and verifies what it serves. *)
(*                                                                         *)
(* Any number of updater processes share one install: the live executable, *)
(* its siblings `.new`, `.prev`, `.rollback-displaced` and `.tmp`, the     *)
(* `.update.lock`, and the service.  A process may be killed between any   *)
(* two steps, the network may answer anything, every file operation may    *)
(* fail, and the service starts and dies by itself.                        *)
(***************************************************************************)
EXTENDS Integers

CONSTANTS
    Proc,       \* updater processes
    Bin,        \* executables, told apart by their bytes
    Ver,        \* Ver[b]: what b answers to --version and on /v1/health
    Feeds,      \* the feed documents a network can serve
    Authentic,  \* those that the release key signed
    Signed,     \* the executables that the release key signed
    Local,      \* the executables the operator installed by other means
    NoProc,     \* nobody holds the lock
    Absent,     \* no such file
    Partial,    \* a file that is not completely written
    Down        \* nothing answers on the service's socket

\* The versions that are not a CalVer: none at all, a `+dev` source build, and
\* text that does not parse.  A CalVer is a positive number, ordered as such.
NoVersion   == 0
SourceBuild == -1
OddVersion  == -2
IsCalVer(v) == v > 0

ASSUME ConstantsAssumption ==
    /\ NoProc \notin Proc
    /\ Absent \notin Bin /\ Partial \notin Bin /\ Down \notin Bin
    /\ Absent # Partial
    /\ Ver \in [Bin -> Int]
    /\ Feeds \subseteq [ver : Int, bin : Bin]
    /\ \A f \in Feeds : IsCalVer(f.ver)
    /\ Authentic \subseteq Feeds
    /\ Signed \subseteq Bin /\ Local \subseteq Bin

Path    == {"live", "new", "prev", "displaced", "tmp"}
Content == Bin \union {Absent, Partial}
NoFeed  == [ver |-> 0, bin |-> Absent]

VARIABLES
    disk,     \* the content of every path
    serving,  \* the executable of the process that answers on the socket
    lock,     \* who holds the flock on `.update.lock`
    pc,       \* where each process is in its run
    want,     \* the authenticated feed document a process acts on
    known,    \* installed_version / restored_version, as the process read it
    last,     \* how the last run that held the lock ended
    base      \* history: live and prev when the lock was last taken

vars == <<disk, serving, lock, pc, want, known, last, base>>

\* Mutant: the anchor is taken from the candidate, as it would be if it were
\* copied after the swap instead of before it.
CopiesOfCandidate == {
    [at |-> "preserve",   doing |-> "preserving",   from |-> "new",
     to |-> "prev",       next  |-> "swap",         fail |-> "IoError"],
    [at |-> "restore",    doing |-> "restoring",    from |-> "prev",
     to |-> "new",        next  |-> "unswap",       fail |-> "CandidateLive"],
    [at |-> "rbStage",    doing |-> "rbStaging",    from |-> "prev",
     to |-> "new",        next  |-> "rbProbe",      fail |-> "RbIoError"],
    [at |-> "rbDisplace", doing |-> "rbDisplacing", from |-> "live",
     to |-> "displaced",  next  |-> "rbSwap",       fail |-> "RbIoError"]}

(***************************************************************************)
(* The four copies of `copy_executable`: the source is read, written to a  *)
(* `.tmp` sibling of the destination (at = before, doing = half written),  *)
(* and renamed into place.  The three `.tmp` names are one path here: only *)
(* the lock holder uses one, and a stale one is removed before use.        *)
(***************************************************************************)
Copies == {
    [at |-> "preserve",   doing |-> "preserving",   from |-> "live",
     to |-> "prev",       next  |-> "swap",         fail |-> "IoError"],
    [at |-> "restore",    doing |-> "restoring",    from |-> "prev",
     to |-> "new",        next  |-> "unswap",       fail |-> "CandidateLive"],
    [at |-> "rbStage",    doing |-> "rbStaging",    from |-> "prev",
     to |-> "new",        next  |-> "rbProbe",      fail |-> "RbIoError"],
    [at |-> "rbDisplace", doing |-> "rbDisplacing", from |-> "live",
     to |-> "displaced",  next  |-> "rbSwap",       fail |-> "RbIoError"]}

UpdatePcs == {"feed", "compare", "current", "download", "stage", "staging",
              "candidate", "preserve", "preserving", "swap", "restart",
              "health", "restore", "restoring", "unswap", "restart2",
              "health2"}
RollbackPcs == {"hasPrev", "rbStage", "rbStaging", "rbProbe", "rbDisplace",
                "rbDisplacing", "rbSwap", "rbAnchor", "rbRestart", "rbHealth"}
LockedPcs == UpdatePcs \union RollbackPcs \union {"preUpdate", "preRollback"}
Pc == LockedPcs \union {"idle", "lockUpdate", "lockRollback"}

(***************************************************************************)
(* How a run that held the lock can end.  RecoveryFailed is split by what  *)
(* its message says is at the live path, a successful rollback by whether  *)
(* a version was verified or only that the service is online.              *)
(***************************************************************************)
UpdateOutcomes == {"Updated", "AlreadyCurrent", "NotServing", "Refused",
                   "NotNewer", "IoError", "Recovered", "CandidateLive",
                   "PreviousLive"}
RollbackOutcomes == {"RolledBack", "RolledBackOnline", "NoPrevious",
                     "RbRefused", "RbIoError", "HalfDone", "Unhealthy"}
Outcomes == UpdateOutcomes \union RollbackOutcomes \union {"none", "Crashed"}

----------------------------------------------------------------------------
\* An installed agent: something intact at the live path, anything intact or
\* nothing at the other names, serving or not.
Init ==
    /\ disk \in [Path -> Content]
    /\ disk["live"] \in Local
    /\ disk["prev"] \in Local \union {Absent}
    /\ disk["new"] = Absent /\ disk["displaced"] = Absent /\ disk["tmp"] = Absent
    /\ serving \in {disk["live"], Down}
    /\ lock = NoProc
    /\ pc = [p \in Proc |-> "idle"]
    /\ want = [p \in Proc |-> NoFeed]
    /\ known = [p \in Proc |-> NoVersion]
    /\ last = "none"
    /\ base = [live |-> disk["live"], prev |-> disk["prev"]]

----------------------------------------------------------------------------
Goto(p, l) == pc' = [pc EXCEPT ![p] = l]

Write(path, c) == disk' = [disk EXCEPT ![path] = c]

\* A rename: the destination gets the source's content in one step.
Rename(from, to) == disk' = [disk EXCEPT ![to] = disk[from], ![from] = Absent]

\* A run that held the lock returns: the TransactionLock is dropped with it.
Exit(p, outcome) ==
    /\ Goto(p, "idle")
    /\ lock' = NoProc
    /\ last' = outcome
    /\ want' = [want EXCEPT ![p] = NoFeed]
    /\ known' = [known EXCEPT ![p] = NoVersion]
    /\ UNCHANGED base

\* What every step inside a run leaves alone.
Running == UNCHANGED <<lock, last, base>>

\* `binary_version`: the version the file prints, or no answer at all (it has
\* none, it cannot be executed, or it does not answer in time).
Probe(path) == {Ver[disk[path]], NoVersion}

----------------------------------------------------------------------------
\* A user or the scheduled job starts a run.
Start(p) ==
    /\ pc[p] = "idle"
    /\ \E l \in {"lockUpdate", "lockRollback"} : Goto(p, l)
    /\ UNCHANGED <<disk, serving, want, known>> /\ Running

\* Mutant: the lock is taken without asking whether it is held.
AcquireAnyway(p) ==
    /\ pc[p] \in {"lockUpdate", "lockRollback"}
    /\ lock' = p
    /\ base' = [live |-> disk["live"], prev |-> disk["prev"]]
    /\ Goto(p, IF pc[p] = "lockUpdate" THEN "preUpdate" ELSE "preRollback")
    /\ UNCHANGED <<disk, serving, want, known, last>>

Acquire(p) ==
    /\ pc[p] \in {"lockUpdate", "lockRollback"}
    /\ lock = NoProc
    /\ lock' = p
    /\ base' = [live |-> disk["live"], prev |-> disk["prev"]]
    /\ Goto(p, IF pc[p] = "lockUpdate" THEN "preUpdate" ELSE "preRollback")
    /\ UNCHANGED <<disk, serving, want, known, last>>

\* Somebody else's transaction, or the lock file cannot be opened: exit 75 or
\* 1 without having held the lock.
Busy(p) ==
    /\ pc[p] \in {"lockUpdate", "lockRollback"}
    /\ Goto(p, "idle")
    /\ UNCHANGED <<disk, serving, want, known>> /\ Running

\* This process is not the service, the service manager answers, and the
\* health client can be built: all of it before anything is fetched.
Preflight(p) ==
    /\ UNCHANGED <<disk, serving>>
    /\ \/ /\ pc[p] = "preUpdate"
          /\ \/ Goto(p, "feed") /\ UNCHANGED <<want, known>> /\ Running
             \/ Exit(p, "Refused")
       \/ /\ pc[p] = "preRollback"
          /\ \/ Goto(p, "hasPrev") /\ UNCHANGED <<want, known>> /\ Running
             \/ Exit(p, "RbRefused")

----------------------------------------------------------------------------
(* update *)

\* `verify_feed`: the signature is the one of these very bytes, by our key.
VerifyFeed(doc, sig) == sig = doc /\ doc \in Authentic

\* The feed and its signature are two reads: a publish between them pairs a
\* document with another's signature, and a replay serves an older pair.
FetchFeed(p) ==
    /\ pc[p] = "feed"
    /\ UNCHANGED <<disk, serving>>
    /\ \/ \E doc, sig \in Feeds :
             /\ VerifyFeed(doc, sig)
             /\ want' = [want EXCEPT ![p] = doc]
             /\ Goto(p, "compare")
             /\ UNCHANGED known /\ Running
       \/ Exit(p, "Refused")

\* Mutant: different is taken for newer, so a replayed feed downgrades.
NewerIfDifferent(feedVersion, installed) == feedVersion # installed

\* `want <= have` is refused.
Newer(feedVersion, installed) == feedVersion > installed

\* Equal bytes are already current; otherwise the feed must be newer than
\* what the installed file says it is.
Compare(p) ==
    /\ pc[p] = "compare"
    /\ UNCHANGED <<disk, serving>>
    /\ \E v \in Probe("live") :
         \/ v = NoVersion /\ Exit(p, "Refused")
         \/ /\ disk["live"] = want[p].bin
            /\ v # NoVersion
            /\ known' = [known EXCEPT ![p] = v]
            /\ Goto(p, "current")
            /\ UNCHANGED want /\ Running
         \/ /\ disk["live"] # want[p].bin
            /\ v # NoVersion
            /\ \/ v = SourceBuild /\ Exit(p, "NotNewer")
               \/ v # SourceBuild /\ ~IsCalVer(v) /\ Exit(p, "Refused")
               \/ IsCalVer(v) /\ ~Newer(want[p].ver, v) /\ Exit(p, "NotNewer")
               \/ /\ IsCalVer(v) /\ Newer(want[p].ver, v)
                  /\ known' = [known EXCEPT ![p] = v]
                  /\ Goto(p, "download")
                  /\ UNCHANGED want /\ Running

\* Mutant: the hash of a signed feed is trusted without the file's signature.
VerifyHashOnly(bytes, entry) == bytes = entry

\* `verify_binary`: the signature and the hash, both.
VerifyBinary(bytes, entry) == bytes \in Signed /\ bytes = entry

Download(p) ==
    /\ pc[p] = "download"
    /\ UNCHANGED <<disk, serving>>
    /\ \/ \E bytes \in Bin :
             /\ VerifyBinary(bytes, want[p].bin)
             /\ want' = [want EXCEPT ![p].bin = bytes]
             /\ Goto(p, "stage")
             /\ UNCHANGED known /\ Running
       \/ Exit(p, "Refused")

\* `stage_candidate`: a stale `.new` is removed, the file is created, written
\* and synced.
Stage(p) ==
    /\ pc[p] = "stage"
    /\ Write("new", Partial)
    /\ Goto(p, "staging")
    /\ UNCHANGED <<serving, want, known>> /\ Running

Staged(p) ==
    /\ pc[p] = "staging"
    /\ Write("new", want[p].bin)
    /\ Goto(p, "candidate")
    /\ UNCHANGED <<serving, want, known>> /\ Running

StageFails(p) ==
    /\ pc[p] \in {"stage", "staging"}
    /\ UNCHANGED <<disk, serving>>
    /\ Exit(p, "IoError")

\* The staged file must name the feed's version or it is removed.
Candidate(p) ==
    /\ pc[p] = "candidate"
    /\ UNCHANGED serving
    /\ \E v \in Probe("new") :
         \/ /\ v = want[p].ver
            /\ Goto(p, "preserve")
            /\ UNCHANGED <<disk, want, known>> /\ Running
         \/ /\ v # want[p].ver
            /\ disk' \in {disk, [disk EXCEPT !["new"] = Absent]}
            /\ Exit(p, "IoError")

----------------------------------------------------------------------------
(* copies, renames, restarts and the health poll, for both commands *)

CopyBegins(p) ==
    /\ \E c \in Copies : pc[p] = c.at /\ Goto(p, c.doing)
    /\ Write("tmp", Partial)
    /\ UNCHANGED <<serving, want, known>> /\ Running

CopyEnds(p) ==
    /\ \E c \in Copies :
         /\ pc[p] = c.doing
         /\ disk' = [disk EXCEPT ![c.to] = disk[c.from], !["tmp"] = Absent]
         /\ Goto(p, c.next)
    /\ UNCHANGED <<serving, want, known>> /\ Running

\* Reading, writing or renaming failed; a failed rename removes the `.tmp`.
CopyFails(p) ==
    /\ UNCHANGED serving
    /\ disk' \in {disk, [disk EXCEPT !["tmp"] = Absent]}
    /\ \E c \in Copies : pc[p] \in {c.at, c.doing} /\ Exit(p, c.fail)

\* Mutant: `.new` is copied over the live path, so that a run killed there
\* leaves it half written.
SwapByCopy(p) ==
    /\ \E s \in { <<"swap", "restart">>, <<"unswap", "restart2">>,
                  <<"rbSwap", "rbAnchor">> } :
         pc[p] = s[1] /\ Goto(p, s[2])
    /\ \E c \in {disk["new"], Partial} : disk' = [disk EXCEPT !["live"] = c]
    /\ UNCHANGED <<serving, want, known>> /\ Running

\* The renames of `.new` over the live path.
Swap(p) ==
    /\ \E s \in { <<"swap", "restart">>, <<"unswap", "restart2">>,
                  <<"rbSwap", "rbAnchor">> } :
         pc[p] = s[1] /\ Goto(p, s[2])
    /\ Rename("new", "live")
    /\ UNCHANGED <<serving, want, known>> /\ Running

\* Mutant: a recovery whose rename failed reports the old binary as restored.
SwapFailsUnseen(p) ==
    /\ UNCHANGED <<disk, serving>>
    /\ \/ pc[p] = "swap"   /\ Exit(p, "IoError")
       \/ pc[p] = "unswap" /\ Exit(p, "PreviousLive")
       \/ pc[p] = "rbSwap" /\ Exit(p, "RbIoError")

SwapFails(p) ==
    /\ UNCHANGED <<disk, serving>>
    /\ \/ pc[p] = "swap"   /\ Exit(p, "IoError")
       \/ pc[p] = "unswap" /\ Exit(p, "CandidateLive")
       \/ pc[p] = "rbSwap" /\ Exit(p, "RbIoError")

\* The manager's restart.  When it reports success the old process is gone or
\* still holds the socket; the new one comes up by ServiceStarts.
Restart(p) ==
    /\ serving' \in {serving, Down}
    /\ UNCHANGED disk
    /\ \/ \E s \in { <<"restart", "health">>, <<"restart2", "health2">>,
                     <<"rbRestart", "rbHealth">> } :
            /\ pc[p] = s[1] /\ Goto(p, s[2])
            /\ UNCHANGED <<want, known>> /\ Running
       \/ /\ pc[p] = "restart" /\ Goto(p, "restore")
          /\ UNCHANGED <<want, known>> /\ Running
       \/ pc[p] = "restart2"  /\ Exit(p, "PreviousLive")
       \/ pc[p] = "rbRestart" /\ Exit(p, "Unhealthy")

\* Mutant: any answer of the service is taken for health.
VerifiedByAnyAnswer(v) == serving # Down

\* What `wait_for_health` has to see: exactly this version, or (nothing known)
\* an answer that carries none.
Verified(v) == serving # Down /\ Ver[serving] = v

HealthOk(p) ==
    /\ UNCHANGED <<disk, serving>>
    /\ \/ pc[p] = "current"  /\ Verified(known[p])    /\ Exit(p, "AlreadyCurrent")
       \/ pc[p] = "health"   /\ Verified(want[p].ver) /\ Exit(p, "Updated")
       \/ pc[p] = "health2"  /\ Verified(known[p])    /\ Exit(p, "Recovered")
       \/ /\ pc[p] = "rbHealth" /\ Verified(known[p])
          /\ Exit(p, IF known[p] = NoVersion THEN "RolledBackOnline"
                                             ELSE "RolledBack")

\* Mutant: a recovery that is not seen to answer is restarted once more.
HealthFailsRetries(p) ==
    /\ UNCHANGED <<disk, serving>>
    /\ \/ pc[p] = "current"  /\ Exit(p, "NotServing")
       \/ /\ \E s \in {<<"health", "restore">>, <<"health2", "restart2">>} :
                pc[p] = s[1] /\ Goto(p, s[2])
          /\ UNCHANGED <<want, known>> /\ Running
       \/ pc[p] = "rbHealth" /\ Exit(p, "Unhealthy")

\* The attempts are used up before the version is seen.
HealthFails(p) ==
    /\ UNCHANGED <<disk, serving>>
    /\ \/ pc[p] = "current"  /\ Exit(p, "NotServing")
       \/ /\ pc[p] = "health" /\ Goto(p, "restore")
          /\ UNCHANGED <<want, known>> /\ Running
       \/ pc[p] = "health2"  /\ Exit(p, "PreviousLive")
       \/ pc[p] = "rbHealth" /\ Exit(p, "Unhealthy")

----------------------------------------------------------------------------
(* rollback *)

HasPrevious(p) ==
    /\ pc[p] = "hasPrev"
    /\ UNCHANGED <<disk, serving>>
    /\ \/ disk["prev"] = Absent /\ Exit(p, "NoPrevious")
       \/ /\ disk["prev"] # Absent
          /\ \/ Goto(p, "rbStage") /\ UNCHANGED <<want, known>> /\ Running
             \/ Exit(p, "RbRefused")

\* Mutant: the leftover of a half-done rollback is not looked for.
RollbackProbeOnly(p) ==
    /\ pc[p] = "rbProbe"
    /\ UNCHANGED serving
    /\ \E v \in Probe("new") : known' = [known EXCEPT ![p] = v]
    /\ Goto(p, "rbDisplace")
    /\ UNCHANGED <<disk, want>> /\ Running

\* The staged copy is asked its version; a leftover `.rollback-displaced`
\* refuses the run.
RollbackProbe(p) ==
    /\ pc[p] = "rbProbe"
    /\ UNCHANGED serving
    /\ IF disk["displaced"] # Absent
         THEN /\ disk' \in {disk, [disk EXCEPT !["new"] = Absent]}
              /\ Exit(p, "HalfDone")
         ELSE /\ \E v \in Probe("new") : known' = [known EXCEPT ![p] = v]
              /\ Goto(p, "rbDisplace")
              /\ UNCHANGED <<disk, want>> /\ Running

\* The displaced binary becomes the new `.prev`.
Anchor(p) ==
    /\ pc[p] = "rbAnchor"
    /\ UNCHANGED serving
    /\ \/ /\ Rename("displaced", "prev")
          /\ Goto(p, "rbRestart")
          /\ UNCHANGED <<want, known>> /\ Running
       \/ UNCHANGED disk /\ Exit(p, "HalfDone")

----------------------------------------------------------------------------
(* the rest of the host *)

\* Mutant: a lock that outlives its process (a lock file that must be removed).
CrashKeepsLock(p) ==
    /\ pc[p] \in LockedPcs
    /\ Goto(p, "idle")
    /\ want' = [want EXCEPT ![p] = NoFeed]
    /\ known' = [known EXCEPT ![p] = NoVersion]
    /\ UNCHANGED <<disk, serving, lock, last, base>>

\* A kill, a crash or a reboot: the OS releases the lock, files stay.
Crash(p) ==
    /\ pc[p] \in LockedPcs
    /\ UNCHANGED <<disk, serving>>
    /\ Exit(p, "Crashed")

\* The manager keeps the service alive: it starts what is at the live path.
ServiceStarts ==
    /\ serving = Down
    /\ serving' = disk["live"]
    /\ UNCHANGED <<disk, lock, pc, want, known, last, base>>

ServiceDies ==
    /\ serving # Down
    /\ serving' = Down
    /\ UNCHANGED <<disk, lock, pc, want, known, last, base>>

\* The `mv` that the half-done message asks the operator for.
OperatorMoves ==
    /\ last = "HalfDone" /\ lock = NoProc
    /\ disk["displaced"] # Absent
    /\ Rename("displaced", "prev")
    /\ UNCHANGED <<serving, lock, pc, want, known, last, base>>

----------------------------------------------------------------------------
Step(p) ==
    \/ Acquire(p)     \/ Busy(p)        \/ Preflight(p)
    \/ FetchFeed(p)   \/ Compare(p)     \/ Download(p)
    \/ Stage(p)       \/ Staged(p)      \/ StageFails(p)  \/ Candidate(p)
    \/ CopyBegins(p)  \/ CopyEnds(p)    \/ CopyFails(p)
    \/ Swap(p)        \/ SwapFails(p)   \/ Restart(p)
    \/ HealthOk(p)    \/ HealthFails(p)
    \/ HasPrevious(p) \/ RollbackProbe(p) \/ Anchor(p)

Next ==
    \/ \E p \in Proc : Start(p) \/ Step(p) \/ Crash(p)
    \/ ServiceStarts \/ ServiceDies \/ OperatorMoves

Spec == Init /\ [][Next]_vars

\* A process that runs keeps running: every wait in the code is bounded.
FairSpec == Spec /\ \A p \in Proc : WF_vars(Step(p))

----------------------------------------------------------------------------
(* properties *)

TypeOK ==
    /\ disk \in [Path -> Content]
    /\ serving \in Bin \union {Down}
    /\ lock \in Proc \union {NoProc}
    /\ pc \in [Proc -> Pc]
    /\ want \in [Proc -> [ver : Int, bin : Bin \union {Absent}]]
    /\ known \in [Proc -> Int]
    /\ last \in Outcomes
    /\ base \in [live : Bin, prev : Bin \union {Absent}]

Trusted == Local \union Signed

\* The live path always holds a complete executable that the operator put
\* there or the release key signed, never a truncated, missing or unverified
\* one, whatever the network served and wherever a run was killed; so does
\* everything a rollback or a recovery could put there, and so the service
\* never runs anything else.
OnlyTrustedRuns ==
    /\ disk["live"] \in Trusted
    /\ disk["prev"] \in Trusted \union {Absent}
    /\ disk["displaced"] \in Trusted \union {Absent}
    /\ serving \in Trusted \union {Down}

Kept == {disk["live"], disk["prev"], disk["displaced"]}

\* No run, however it ends, loses the executable that was live when it began;
\* a rollback loses neither that one nor the one it restores (".prev" kept,
\* "so it is itself reversible").
NothingLost ==
    /\ base.live \in Kept
    /\ \A p \in Proc : pc[p] \in RollbackPcs => base.prev \in Kept

\* What a run reported is what is on disk when it returns: exit 0 has the new
\* release live and the old one as `.prev`, exit 5 has the old one back, exit
\* 3 names which of the two is live, and a refusal left the live path alone.
OutcomeIsTrue ==
    lock = NoProc =>
      /\ last = "Updated" =>
           /\ disk["live"] \in Signed /\ Ver[disk["live"]] > Ver[base.live]
           /\ disk["prev"] = base.live
      /\ last \in {"Recovered", "PreviousLive"} =>
           disk["live"] = base.live /\ disk["prev"] = base.live
      /\ last = "CandidateLive" =>
           disk["live"] # base.live /\ disk["prev"] = base.live
      /\ last \in {"AlreadyCurrent", "NotServing", "Refused", "NotNewer",
                  "RbRefused", "RbIoError", "NoPrevious"} =>
           disk["live"] = base.live /\ disk["prev"] = base.prev
      /\ last = "IoError" => disk["live"] = base.live
      /\ last \in {"RolledBack", "RolledBackOnline", "Unhealthy"} =>
           disk["live"] = base.prev /\ disk["prev"] = base.live
      /\ last = "HalfDone" /\ disk["displaced"] # Absent =>
           base.live \in {disk["live"], disk["displaced"]}

\* A success (exit 0) or a verified recovery (exit 5) is never fabricated: as
\* long as no other run begins, what answers on the socket reports the version
\* of the executable at the live path, even if an earlier run was killed
\* between its swap and its restart.
VerifiedServing ==
    lock = NoProc /\ last \in {"Updated", "AlreadyCurrent", "Recovered",
                               "RolledBack"}
      => serving = Down \/ Ver[serving] = Ver[disk["live"]]

\* Whatever is killed or fails, and wherever: what is live, anchored or serving
\* was authenticated, and no executable's only copy is overwritten.
BinariesAreSafe == OnlyTrustedRuns /\ NothingLost

\* What a run reports is what is on disk and, where it claims so, what serves.
ReportIsTrue == OutcomeIsTrue /\ VerifiedServing

\* What a half-done rollback left at `.rollback-displaced` is never lost to a
\* later run: "the displaced binary's ONLY copy; overwriting it here ... would
\* be data loss dressed as success".
LeftoverKept ==
    [][disk["displaced"] # Absent => disk["displaced"] \in Kept']_vars

\* How many steps of a run are left at most, from each of its lines.
Ahead(l) ==
    CASE l = "lockUpdate"   -> 19 [] l = "preUpdate"    -> 18 [] l = "feed"       -> 17
      [] l = "compare"      -> 16 [] l = "download"     -> 15 [] l = "stage"      -> 14
      [] l = "staging"      -> 13 [] l = "candidate"    -> 12 [] l = "preserve"   -> 11
      [] l = "preserving"   -> 10 [] l = "swap"         -> 9  [] l = "restart"    -> 8
      [] l = "health"       -> 7  [] l = "restore"      -> 6  [] l = "restoring"  -> 5
      [] l = "unswap"       -> 4  [] l = "restart2"     -> 3  [] l = "health2"    -> 2
      [] l = "lockRollback" -> 12 [] l = "preRollback"  -> 11 [] l = "hasPrev"    -> 10
      [] l = "rbStage"      -> 9  [] l = "rbStaging"    -> 8  [] l = "rbProbe"    -> 7
      [] l = "rbDisplace"   -> 6  [] l = "rbDisplacing" -> 5  [] l = "rbSwap"     -> 4
      [] l = "rbAnchor"     -> 3  [] l = "rbRestart"    -> 2
      [] l \in {"rbHealth", "current"} -> 1
      [] OTHER -> 0

\* No run goes back to a line it has left: a recovery is not recovered from, a
\* rollback is not retried, and a run holds the lock for 18 steps at most.
RunsGoForward ==
    [][\A p \in Proc : pc[p] # "idle" /\ pc'[p] # pc[p] =>
          Ahead(pc'[p]) < Ahead(pc[p])]_vars

\* Each run comes to its end, and takes nobody else's only copy with it.
RunsAreOrderly == LeftoverKept /\ RunsGoForward

(***************************************************************************)
(* The inductive invariant: what holds at each line of the run that has    *)
(* the lock.                                                               *)
(***************************************************************************)
\* The lock is held by exactly the process that is inside a run.
LockInv == \A p \in Proc : pc[p] \in LockedPcs <=> lock = p

BaseInv == base.live \in Trusted /\ base.prev \in Trusted \union {Absent}

\* Until its swap a run has changed nothing but `.new`, `.tmp`, and, in an
\* update's last step before it, `.prev`.
BeforeSwap == {"preUpdate", "preRollback", "feed", "compare", "current",
               "download", "stage", "staging", "candidate", "preserve",
               "preserving", "hasPrev", "rbStage", "rbStaging", "rbProbe",
               "rbDisplace", "rbDisplacing", "rbSwap"}
FilesInv(p) ==
    /\ pc[p] \in BeforeSwap \union {"swap"} => disk["live"] = base.live
    /\ pc[p] \in BeforeSwap => disk["prev"] = base.prev

\* After its comparison an update knows the version it replaces and holds a
\* newer authenticated entry; from `preserve` on the candidate has named it.
AfterCompare == UpdatePcs \ {"feed", "compare", "current"}
HasCandidate == {"preserve", "preserving", "swap"}
CandidateIsLive == {"restart", "health", "restore", "restoring", "unswap"}
UpdateInv(p) ==
    /\ pc[p] \in UpdatePcs \ {"feed"} =>
         want[p].bin \in Bin /\ IsCalVer(want[p].ver)
    /\ pc[p] = "current" => known[p] = Ver[disk["live"]]
    /\ pc[p] \in AfterCompare =>
         /\ known[p] = Ver[base.live] /\ IsCalVer(known[p])
         /\ want[p].ver > known[p]
    /\ pc[p] \in AfterCompare \ {"download"} => want[p].bin \in Signed
    /\ pc[p] \in HasCandidate \union {"candidate"} =>
         disk["new"] = want[p].bin
    /\ pc[p] \in HasCandidate \union CandidateIsLive =>
         Ver[want[p].bin] = want[p].ver
    /\ pc[p] \in CandidateIsLive => disk["live"] = want[p].bin
    /\ pc[p] \in CandidateIsLive \union {"swap", "restart2", "health2"} =>
         disk["prev"] = base.live
    /\ pc[p] = "unswap" => disk["new"] = base.live
    /\ pc[p] \in {"restart2", "health2"} => disk["live"] = base.live

RollbackInv(p) ==
    /\ pc[p] \in RollbackPcs \ {"hasPrev"} => base.prev # Absent
    /\ pc[p] \in {"rbProbe", "rbDisplace", "rbDisplacing", "rbSwap"} =>
         disk["new"] = base.prev
    /\ pc[p] \in {"rbDisplace", "rbDisplacing"} => disk["displaced"] = Absent
    /\ pc[p] \in {"rbSwap", "rbAnchor"} => disk["displaced"] = base.live
    /\ pc[p] \in {"rbAnchor", "rbRestart", "rbHealth"} =>
         disk["live"] = base.prev
    /\ pc[p] = "rbAnchor" => disk["prev"] = base.prev
    /\ pc[p] \in {"rbRestart", "rbHealth"} => disk["prev"] = base.live
    /\ pc[p] \in {"rbDisplace", "rbDisplacing", "rbSwap", "rbAnchor",
                  "rbRestart", "rbHealth"} =>
         known[p] \in {Ver[base.prev], NoVersion}

RunInv == \A p \in Proc : FilesInv(p) /\ UpdateInv(p) /\ RollbackInv(p)

\* The invariant that every step preserves.
IInv == TypeOK /\ LockInv /\ BaseInv /\ RunInv /\ OnlyTrustedRuns
          /\ NothingLost /\ OutcomeIsTrue /\ VerifiedServing

\* A run that holds the lock ends and frees it, and a run that was killed
\* does not keep it: "a crashed updater cannot wedge the next one".
LockIsReleased == \A p \in Proc : lock = p ~> lock = NoProc

\* "rollback half done -- the previous binary is live" (agent/README.md): when
\* a rollback reports half done, the live path holds what `.prev` holds and
\* the displaced file is the other binary.
HalfDoneIsTrue ==
    lock = NoProc /\ last = "HalfDone" /\ disk["displaced"] # Absent
      => disk["live"] = disk["prev"]

\* What an install promises, whatever the steps: see InstallContract.
Contract == INSTANCE InstallContract
              WITH live <- disk["live"], prev <- disk["prev"],
                   holder <- lock, start <- base

\* The transaction implements InstallContract: only the lock holder replaces
\* the live executable, and only by a newer signed release with the old one
\* already saved, by the saved one, or by a rollback's exchange.
ImplementsContract == Contract!Spec
=============================================================================

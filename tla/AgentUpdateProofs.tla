------------------------- MODULE AgentUpdateProofs -------------------------
(***************************************************************************)
(* Proofs about AgentUpdate, for any number of processes, executables and  *)
(* feeds.                                                                  *)
(***************************************************************************)
EXTENDS AgentUpdate, TLAPS

\* Only the lock holder is inside a run.
LEMMA OthersOutside ==
    ASSUME LockInv, NEW p \in Proc, lock = p, NEW q \in Proc, q # p
    PROVE  pc[q] \notin LockedPcs
  BY DEF LockInv

\* The sets of program counters, related once and for all.
LEMMA PcSets ==
    /\ UpdatePcs \subseteq LockedPcs /\ RollbackPcs \subseteq LockedPcs
    /\ BeforeSwap \subseteq LockedPcs /\ AfterCompare \subseteq UpdatePcs
    /\ HasCandidate \subseteq UpdatePcs /\ CandidateIsLive \subseteq UpdatePcs
    /\ LockedPcs \subseteq Pc
    /\ "idle" \notin LockedPcs
    /\ "lockUpdate" \notin LockedPcs /\ "lockRollback" \notin LockedPcs
    /\ {"idle", "lockUpdate", "lockRollback"} \subseteq Pc
  BY DEF UpdatePcs, RollbackPcs, BeforeSwap, AfterCompare, HasCandidate,
         CandidateIsLive, LockedPcs, Pc

\* Outside a run the line-by-line invariant says nothing.
LEMMA OutsideRun ==
    ASSUME NEW q \in Proc, pc[q] \notin LockedPcs
    PROVE  FilesInv(q) /\ UpdateInv(q) /\ RollbackInv(q)
  BY DEF FilesInv, UpdateInv, RollbackInv, UpdatePcs, RollbackPcs, BeforeSwap,
         AfterCompare, HasCandidate, CandidateIsLive, LockedPcs

\* A step of the lock holder that stays in its run: what is left to show is
\* about the files and about its own line.
LEMMA StaysInRun ==
    ASSUME IInv, NEW p \in Proc, lock = p, NEW l \in LockedPcs,
           Goto(p, l), Running,
           TypeOK', OnlyTrustedRuns', NothingLost',
           FilesInv(p)', UpdateInv(p)', RollbackInv(p)'
    PROVE  IInv'
<1>1. pc \in [Proc -> Pc] /\ p # NoProc
  BY ConstantsAssumption DEF IInv, TypeOK
<1>2. pc'[p] = l /\ \A q \in Proc : q # p => pc'[q] = pc[q]
  BY <1>1 DEF Goto
<1>3. \A q \in Proc : q # p => pc'[q] \notin LockedPcs
  BY <1>2, OthersOutside DEF IInv
<1>4. LockInv'
  BY <1>2, <1>3 DEF LockInv, Running
<1>5. RunInv'
  <2> SUFFICES ASSUME NEW q \in Proc, q # p
               PROVE  (FilesInv(q) /\ UpdateInv(q) /\ RollbackInv(q))'
    BY DEF RunInv
  <2>1. pc'[q] \notin LockedPcs
    BY <1>3
  <2> QED
    BY <2>1 DEF FilesInv, UpdateInv, RollbackInv, UpdatePcs, RollbackPcs,
       BeforeSwap, AfterCompare, HasCandidate, CandidateIsLive, LockedPcs
<1>6. BaseInv'
  BY DEF IInv, BaseInv, Running
<1>7. OutcomeIsTrue' /\ VerifiedServing'
  BY <1>1 DEF OutcomeIsTrue, VerifiedServing, Running
<1> QED
  BY <1>4, <1>5, <1>6, <1>7 DEF IInv

\* The lock holder's run returns: what is left to show is that its outcome is
\* true and that no file was lost.
LEMMA RunEnds ==
    ASSUME IInv, NEW p \in Proc, lock = p, NEW o \in Outcomes, Exit(p, o),
           disk' \in [Path -> Content],
           disk'["live"] = disk["live"], disk'["prev"] = disk["prev"],
           disk'["displaced"] = disk["displaced"],
           serving' \in {serving, Down},
           OutcomeIsTrue', VerifiedServing'
    PROVE  IInv'
<1>1. /\ TypeOK /\ LockInv /\ BaseInv /\ OnlyTrustedRuns /\ NothingLost
      /\ p # NoProc
  BY ConstantsAssumption DEF IInv, TypeOK
<1>2. \A q \in Proc : pc'[q] \notin LockedPcs
  BY <1>1, OthersOutside, PcSets DEF TypeOK, Exit, Goto
<1>3. TypeOK'
  <2>1. NoFeed \in [ver : Int, bin : Bin \union {Absent}]
    BY DEF NoFeed
  <2> QED
    BY <1>1, <2>1, PcSets DEF TypeOK, Exit, Goto, NoVersion
<1>4. LockInv'
  BY <1>2, ConstantsAssumption DEF LockInv, Exit
<1>5. RunInv'
  <2> SUFFICES ASSUME NEW q \in Proc
               PROVE  (FilesInv(q) /\ UpdateInv(q) /\ RollbackInv(q))'
    BY DEF RunInv
  <2>1. pc'[q] \notin LockedPcs
    BY <1>2
  <2> QED
    BY <2>1 DEF FilesInv, UpdateInv, RollbackInv, UpdatePcs, RollbackPcs,
       BeforeSwap, AfterCompare, HasCandidate, CandidateIsLive, LockedPcs
<1>6. BaseInv' /\ OnlyTrustedRuns'
  BY <1>1 DEF BaseInv, OnlyTrustedRuns, Exit
<1>7. NothingLost'
  BY <1>1, <1>2, PcSets DEF NothingLost, Kept, Exit
<1> QED
  BY <1>3, <1>4, <1>5, <1>6, <1>7 DEF IInv

----------------------------------------------------------------------------
\* What a step of a process inside its run may assume.
LEMMA InsideRun ==
    ASSUME IInv, NEW p \in Proc, pc[p] \in LockedPcs
    PROVE  /\ lock = p /\ TypeOK /\ BaseInv /\ OnlyTrustedRuns /\ NothingLost
           /\ FilesInv(p) /\ UpdateInv(p) /\ RollbackInv(p)
  BY DEF IInv, LockInv, RunInv

\* A step inside a run that touches neither files nor service.
LEMMA QuietMove ==
    ASSUME IInv, NEW p \in Proc, pc[p] \in LockedPcs, NEW l \in LockedPcs,
           Goto(p, l), Running, UNCHANGED <<disk, serving>>,
           want' \in [Proc -> [ver : Int, bin : Bin \union {Absent}]],
           known' \in [Proc -> Int],
           l \in RollbackPcs => base.prev \in Kept,
           FilesInv(p)', UpdateInv(p)', RollbackInv(p)'
    PROVE  IInv'
<1>1. lock = p /\ TypeOK /\ OnlyTrustedRuns /\ NothingLost
  BY InsideRun
<1>2. TypeOK'
  BY <1>1, PcSets DEF TypeOK, Goto, Running
<1>3. OnlyTrustedRuns'
  BY <1>1 DEF OnlyTrustedRuns
<1>4. NothingLost'
  <2>1. \A q \in Proc : pc'[q] \in RollbackPcs => base.prev \in Kept
    BY <1>1 DEF NothingLost, Goto, TypeOK
  <2> QED
    BY <1>1, <2>1 DEF NothingLost, Kept, Running
<1> QED
  BY <1>1, <1>2, <1>3, <1>4, StaysInRun

\* A run that returns before its swap, with live and `.prev` as they were.
LEMMA QuietExit ==
    ASSUME IInv, NEW p \in Proc, pc[p] \in BeforeSwap,
           NEW o \in {"NotServing", "Refused", "NotNewer", "IoError",
                      "RbRefused", "RbIoError", "NoPrevious", "HalfDone",
                      "Crashed"},
           Exit(p, o), UNCHANGED serving, disk' \in [Path -> Content],
           disk'["live"] = disk["live"], disk'["prev"] = disk["prev"],
           disk'["displaced"] = disk["displaced"]
    PROVE  IInv'
<1>1. lock = p /\ TypeOK /\ FilesInv(p)
  BY InsideRun, PcSets
<1>2. disk["live"] = base.live /\ disk["prev"] = base.prev
  BY <1>1 DEF FilesInv
<1>3. OutcomeIsTrue' /\ VerifiedServing'
  BY <1>2 DEF OutcomeIsTrue, VerifiedServing, Exit
<1>4. o \in Outcomes
  BY DEF Outcomes, UpdateOutcomes, RollbackOutcomes
<1> QED
  BY <1>1, <1>3, <1>4, RunEnds

----------------------------------------------------------------------------
(* one lemma per action *)

LEMMA StartStep ==
    ASSUME IInv, NEW p \in Proc, Start(p) \/ Busy(p)
    PROVE  IInv'
<1>1. PICK l \in {"idle", "lockUpdate", "lockRollback"} : Goto(p, l)
  BY DEF Start, Busy
<1>2. UNCHANGED <<disk, serving, want, known>> /\ Running
  BY DEF Start, Busy
<1>3. pc[p] \notin LockedPcs /\ lock # p
  BY PcSets DEF Start, Busy, IInv, LockInv
<1>4. /\ pc'[p] = l /\ l \notin LockedPcs
      /\ \A q \in Proc : q # p => pc'[q] = pc[q]
  BY <1>1, PcSets DEF Goto, IInv, TypeOK
<1>5. TypeOK' /\ LockInv' /\ BaseInv' /\ OnlyTrustedRuns'
  BY <1>1, <1>2, <1>3, <1>4, PcSets
     DEF IInv, TypeOK, LockInv, BaseInv, OnlyTrustedRuns, Running, Goto
<1>6. RunInv'
  <2> SUFFICES ASSUME NEW q \in Proc
               PROVE  (FilesInv(q) /\ UpdateInv(q) /\ RollbackInv(q))'
    BY DEF RunInv
  <2>1. CASE q = p
    BY <1>4, <2>1 DEF FilesInv, UpdateInv, RollbackInv, UpdatePcs, RollbackPcs,
       BeforeSwap, AfterCompare, HasCandidate, CandidateIsLive, LockedPcs
  <2>2. CASE q # p
    BY <1>2, <1>4, <2>2 DEF IInv, RunInv, FilesInv, UpdateInv, RollbackInv,
       Running
  <2> QED
    BY <2>1, <2>2
<1>7. NothingLost'
  BY <1>2, <1>4, PcSets DEF IInv, NothingLost, Kept, Running
<1>8. OutcomeIsTrue' /\ VerifiedServing'
  BY <1>2 DEF IInv, OutcomeIsTrue, VerifiedServing, Running
<1> QED
  BY <1>5, <1>6, <1>7, <1>8 DEF IInv

LEMMA AcquireStep ==
    ASSUME IInv, NEW p \in Proc, Acquire(p)
    PROVE  IInv'
<1> DEFINE l == IF pc[p] = "lockUpdate" THEN "preUpdate" ELSE "preRollback"
<1>1. p # NoProc /\ \A q \in Proc : pc[q] \notin LockedPcs
  BY ConstantsAssumption DEF Acquire, IInv, LockInv
<1>2. /\ pc'[p] = l /\ l \in {"preUpdate", "preRollback"} /\ l \in LockedPcs
      /\ \A q \in Proc : q # p => pc'[q] = pc[q]
  BY DEF Acquire, Goto, IInv, TypeOK, LockedPcs
<1>3. base' = [live |-> disk["live"], prev |-> disk["prev"]]
  BY DEF Acquire
<1>4. TypeOK'
  <2>1. disk["live"] \in Bin /\ disk["prev"] \in Bin \union {Absent}
    BY ConstantsAssumption DEF IInv, OnlyTrustedRuns, Trusted
  <2> QED
    BY <1>2, <2>1, PcSets DEF Acquire, Goto, IInv, TypeOK
<1>5. LockInv'
  BY <1>1, <1>2 DEF LockInv, Acquire
<1>6. BaseInv' /\ OnlyTrustedRuns'
  BY <1>3 DEF IInv, BaseInv, OnlyTrustedRuns, Acquire
<1>7. RunInv'
  <2> SUFFICES ASSUME NEW q \in Proc
               PROVE  (FilesInv(q) /\ UpdateInv(q) /\ RollbackInv(q))'
    BY DEF RunInv
  <2>1. CASE q = p
    BY <1>2, <1>3, <2>1 DEF FilesInv, UpdateInv, RollbackInv, UpdatePcs,
       RollbackPcs, BeforeSwap, AfterCompare, HasCandidate, CandidateIsLive,
       Acquire
  <2>2. CASE q # p
    BY <1>1, <1>2, <2>2 DEF FilesInv, UpdateInv, RollbackInv, UpdatePcs,
       RollbackPcs, BeforeSwap, AfterCompare, HasCandidate, CandidateIsLive,
       LockedPcs
  <2> QED
    BY <2>1, <2>2
<1>8. NothingLost'
  BY <1>3 DEF NothingLost, Kept, Acquire
<1>9. OutcomeIsTrue' /\ VerifiedServing'
  BY <1>1 DEF OutcomeIsTrue, VerifiedServing, Acquire
<1> QED
  BY <1>4, <1>5, <1>6, <1>7, <1>8, <1>9 DEF IInv

LEMMA PreflightStep ==
    ASSUME IInv, NEW p \in Proc, Preflight(p)
    PROVE  IInv'
<1>1. pc[p] \in {"preUpdate", "preRollback"} /\ pc[p] \in BeforeSwap
  BY DEF Preflight, BeforeSwap
<1>2. lock = p /\ TypeOK /\ FilesInv(p)
  BY <1>1, InsideRun, PcSets
<1>3. CASE \E o \in {"Refused", "RbRefused"} : Exit(p, o)
  BY <1>1, <1>2, <1>3, QuietExit DEF Preflight, TypeOK
<1>4. ASSUME NEW l \in {"feed", "hasPrev"}, Goto(p, l), Running,
             UNCHANGED <<want, known>>
      PROVE  IInv'
  <2>1. pc'[p] = l /\ l \in LockedPcs
    BY <1>2, <1>4 DEF Goto, TypeOK, LockedPcs, UpdatePcs, RollbackPcs
  <2>2. FilesInv(p)' /\ UpdateInv(p)' /\ RollbackInv(p)'
    BY <1>1, <1>2, <1>4, <2>1 DEF Running, Preflight, FilesInv, UpdateInv,
       RollbackInv, UpdatePcs, RollbackPcs, BeforeSwap, AfterCompare,
       HasCandidate, CandidateIsLive
  <2>3. base.prev \in Kept
    BY <1>1, <1>2 DEF FilesInv, Kept
  <2> QED
    BY <1>1, <1>2, <1>4, <2>1, <2>2, <2>3, QuietMove, PcSets
       DEF Preflight, TypeOK
<1> QED
  BY <1>3, <1>4 DEF Preflight

LEMMA FetchFeedStep ==
    ASSUME IInv, NEW p \in Proc, FetchFeed(p)
    PROVE  IInv'
<1>1. pc[p] = "feed" /\ pc[p] \in BeforeSwap
  BY DEF FetchFeed, BeforeSwap
<1>2. lock = p /\ TypeOK /\ FilesInv(p)
  BY <1>1, InsideRun, PcSets
<1>3. CASE Exit(p, "Refused")
  BY <1>1, <1>2, <1>3, QuietExit DEF FetchFeed, TypeOK
<1>4. ASSUME NEW doc \in Feeds, doc \in Authentic,
             want' = [want EXCEPT ![p] = doc], Goto(p, "compare"),
             UNCHANGED known, Running
      PROVE  IInv'
  <2>1. pc'[p] = "compare" /\ want'[p] = doc
    BY <1>2, <1>4 DEF Goto, TypeOK
  <2>2. /\ doc \in [ver : Int, bin : Bin \union {Absent}]
        /\ doc.bin \in Bin /\ IsCalVer(doc.ver)
    BY <1>4, ConstantsAssumption
  <2>3. "compare" \in LockedPcs /\ "compare" \notin RollbackPcs
    BY DEF LockedPcs, UpdatePcs, RollbackPcs
  <2>4. FilesInv(p)' /\ UpdateInv(p)' /\ RollbackInv(p)'
    BY <1>1, <1>2, <1>4, <2>1, <2>2 DEF Running, FetchFeed, FilesInv,
       UpdateInv, RollbackInv, UpdatePcs, RollbackPcs, BeforeSwap,
       AfterCompare, HasCandidate, CandidateIsLive
  <2> QED
    BY <1>1, <1>2, <1>4, <2>2, <2>3, <2>4, QuietMove, PcSets
       DEF FetchFeed, TypeOK
<1> QED
  BY <1>3, <1>4 DEF FetchFeed, VerifyFeed

LEMMA CompareStep ==
    ASSUME IInv, NEW p \in Proc, Compare(p)
    PROVE  IInv'
<1>1. pc[p] = "compare" /\ pc[p] \in BeforeSwap
  BY DEF Compare, BeforeSwap
<1>2. lock = p /\ TypeOK /\ OnlyTrustedRuns /\ FilesInv(p) /\ UpdateInv(p)
  BY <1>1, InsideRun, PcSets
<1>3. /\ disk["live"] = base.live /\ want[p].bin \in Bin
      /\ IsCalVer(want[p].ver) /\ want[p].ver \in Int
  BY <1>1, <1>2 DEF FilesInv, UpdateInv, TypeOK, UpdatePcs
<1>4. Ver[base.live] \in Int
  BY <1>2, ConstantsAssumption DEF TypeOK
<1>5. CASE \E o \in {"Refused", "NotNewer"} : Exit(p, o)
  BY <1>1, <1>2, <1>5, QuietExit DEF Compare, TypeOK
<1>6. ASSUME NEW l \in {"current", "download"}, Goto(p, l), Running,
             UNCHANGED want,
             known' = [known EXCEPT ![p] = Ver[base.live]],
             l = "download" => /\ IsCalVer(Ver[base.live])
                               /\ Newer(want[p].ver, Ver[base.live])
      PROVE  IInv'
  <2>1. pc'[p] = l /\ l \in LockedPcs /\ l \notin RollbackPcs
    BY <1>2, <1>6 DEF Goto, TypeOK, LockedPcs, UpdatePcs, RollbackPcs
  <2>2. known' \in [Proc -> Int] /\ known'[p] = Ver[base.live]
    BY <1>2, <1>4, <1>6 DEF TypeOK
  <2>3. FilesInv(p)' /\ UpdateInv(p)' /\ RollbackInv(p)'
    BY <1>1, <1>2, <1>3, <1>6, <2>1, <2>2 DEF Running, Compare, Newer,
       FilesInv, UpdateInv, RollbackInv, UpdatePcs, RollbackPcs, BeforeSwap,
       AfterCompare, HasCandidate, CandidateIsLive
  <2> QED
    BY <1>1, <1>2, <1>6, <2>1, <2>2, <2>3, QuietMove, PcSets
       DEF Compare, TypeOK
<1>7. PICK v \in Probe("live") :
         \/ v = NoVersion /\ Exit(p, "Refused")
         \/ /\ disk["live"] = want[p].bin
            /\ v # NoVersion
            /\ known' = [known EXCEPT ![p] = v]
            /\ Goto(p, "current")
            /\ UNCHANGED want /\ Running
         \/ /\ disk["live"] # want[p].bin
            /\ v # NoVersion
            /\ \/ v = SourceBuild /\ Exit(p, "NotNewer")
               \/ v # SourceBuild /\ ~IsCalVer(v) /\ Exit(p, "Refused")
               \/ IsCalVer(v) /\ ~Newer(want[p].ver, v) /\ Exit(p, "NotNewer")
               \/ /\ IsCalVer(v) /\ Newer(want[p].ver, v)
                  /\ known' = [known EXCEPT ![p] = v]
                  /\ Goto(p, "download")
                  /\ UNCHANGED want /\ Running
  BY DEF Compare
<1>8. v # NoVersion => v = Ver[base.live]
  BY <1>3, <1>7 DEF Probe
<1> QED
  BY <1>5, <1>6, <1>7, <1>8

LEMMA DownloadStep ==
    ASSUME IInv, NEW p \in Proc, Download(p)
    PROVE  IInv'
<1>1. pc[p] = "download" /\ pc[p] \in BeforeSwap
  BY DEF Download, BeforeSwap
<1>2. lock = p /\ TypeOK /\ FilesInv(p) /\ UpdateInv(p)
  BY <1>1, InsideRun, PcSets
<1>3. CASE Exit(p, "Refused")
  BY <1>1, <1>2, <1>3, QuietExit DEF Download, TypeOK
<1>4. ASSUME NEW bytes \in Bin, bytes \in Signed,
             want' = [want EXCEPT ![p].bin = bytes], Goto(p, "stage"),
             UNCHANGED known, Running
      PROVE  IInv'
  <2>1. /\ pc'[p] = "stage" /\ want'[p].bin = bytes
        /\ want'[p].ver = want[p].ver
    BY <1>2, <1>4 DEF Goto, TypeOK
  <2>2. want' \in [Proc -> [ver : Int, bin : Bin \union {Absent}]]
    BY <1>2, <1>4 DEF TypeOK
  <2>3. "stage" \in LockedPcs /\ "stage" \notin RollbackPcs
    BY DEF LockedPcs, UpdatePcs, RollbackPcs
  <2>4. FilesInv(p)' /\ UpdateInv(p)' /\ RollbackInv(p)'
    BY <1>1, <1>2, <1>4, <2>1 DEF Running, Download, FilesInv, UpdateInv,
       RollbackInv, UpdatePcs, RollbackPcs, BeforeSwap, AfterCompare,
       HasCandidate, CandidateIsLive
  <2> QED
    BY <1>1, <1>2, <1>4, <2>2, <2>3, <2>4, QuietMove, PcSets
       DEF Download, TypeOK
<1> QED
  BY <1>3, <1>4 DEF Download, VerifyBinary

\* A step of an update that writes only `.new` or `.tmp`.
LEMMA ScratchMove ==
    ASSUME IInv, NEW p \in Proc, pc[p] \in LockedPcs,
           NEW l \in LockedPcs, Goto(p, l), Running,
           NEW path \in {"new", "tmp"}, NEW c \in Content, Write(path, c),
           UNCHANGED <<serving, want, known>>,
           l \in RollbackPcs => base.prev \in Kept,
           FilesInv(p)', UpdateInv(p)', RollbackInv(p)'
    PROVE  IInv'
<1>1. lock = p /\ TypeOK /\ OnlyTrustedRuns /\ NothingLost
  BY InsideRun
<1>2. /\ disk' \in [Path -> Content]
      /\ disk'["live"] = disk["live"] /\ disk'["prev"] = disk["prev"]
      /\ disk'["displaced"] = disk["displaced"]
  BY <1>1 DEF Write, TypeOK, Path
<1>3. TypeOK'
  BY <1>1, <1>2, PcSets DEF TypeOK, Goto, Running
<1>4. OnlyTrustedRuns'
  BY <1>1, <1>2 DEF OnlyTrustedRuns
<1>5. NothingLost'
  <2>1. \A q \in Proc : pc'[q] \in RollbackPcs => base.prev \in Kept
    BY <1>1 DEF NothingLost, Goto, TypeOK
  <2> QED
    BY <1>1, <1>2, <2>1 DEF NothingLost, Kept, Running
<1> QED
  BY <1>1, <1>3, <1>4, <1>5, StaysInRun

LEMMA StageStep ==
    ASSUME IInv, NEW p \in Proc, Stage(p) \/ Staged(p) \/ StageFails(p)
    PROVE  IInv'
<1>1. pc[p] \in {"stage", "staging"} /\ pc[p] \in BeforeSwap
  BY DEF Stage, Staged, StageFails, BeforeSwap
<1>2. lock = p /\ TypeOK /\ FilesInv(p) /\ UpdateInv(p)
  BY <1>1, InsideRun, PcSets
<1>3. CASE StageFails(p)
  BY <1>1, <1>2, <1>3, QuietExit DEF StageFails, TypeOK
<1>4. ASSUME NEW l \in {"staging", "candidate"}, NEW c \in Content,
             Goto(p, l), Running, Write("new", c),
             UNCHANGED <<serving, want, known>>,
             l = "candidate" => c = want[p].bin
      PROVE  IInv'
  <2>1. pc'[p] = l /\ l \in LockedPcs /\ l \notin RollbackPcs
    BY <1>2, <1>4 DEF Goto, TypeOK, LockedPcs, UpdatePcs, RollbackPcs
  <2>2. /\ disk'["live"] = disk["live"] /\ disk'["prev"] = disk["prev"]
        /\ disk'["new"] = c
    BY <1>2, <1>4 DEF Write, TypeOK, Path
  <2>3. FilesInv(p)' /\ UpdateInv(p)' /\ RollbackInv(p)'
    BY <1>1, <1>2, <1>4, <2>1, <2>2 DEF Running, FilesInv, UpdateInv,
       RollbackInv, UpdatePcs, RollbackPcs, BeforeSwap, AfterCompare,
       HasCandidate, CandidateIsLive
  <2> QED
    BY <1>1, <1>4, <2>1, <2>3, ScratchMove, PcSets
<1>5. want[p].bin \in Content /\ Partial \in Content
  BY <1>1, <1>2 DEF UpdateInv, UpdatePcs, Content
<1> QED
  BY <1>3, <1>4, <1>5 DEF Stage, Staged

LEMMA CandidateStep ==
    ASSUME IInv, NEW p \in Proc, Candidate(p)
    PROVE  IInv'
<1>1. pc[p] = "candidate" /\ pc[p] \in BeforeSwap
  BY DEF Candidate, BeforeSwap
<1>2. lock = p /\ TypeOK /\ FilesInv(p) /\ UpdateInv(p)
  BY <1>1, InsideRun, PcSets
<1>3. CASE Exit(p, "IoError") /\ disk' \in {disk, [disk EXCEPT !["new"] = Absent]}
  <2>1. /\ disk' \in [Path -> Content]
        /\ disk'["live"] = disk["live"] /\ disk'["prev"] = disk["prev"]
        /\ disk'["displaced"] = disk["displaced"]
    BY <1>2, <1>3 DEF TypeOK, Path, Content
  <2> QED
    BY <1>1, <1>3, <2>1, QuietExit DEF Candidate
<1>4. CASE /\ want[p].ver \in Probe("new") /\ Goto(p, "preserve")
           /\ UNCHANGED <<disk, want, known>> /\ Running
  <2>1. pc'[p] = "preserve"
    BY <1>2, <1>4 DEF Goto, TypeOK
  <2>2. "preserve" \in LockedPcs /\ "preserve" \notin RollbackPcs
    BY DEF LockedPcs, UpdatePcs, RollbackPcs
  <2>3. Ver[want[p].bin] = want[p].ver
    BY <1>1, <1>2, <1>4 DEF Probe, UpdateInv, UpdatePcs, NoVersion, IsCalVer
  <2>4. FilesInv(p)' /\ UpdateInv(p)' /\ RollbackInv(p)'
    BY <1>1, <1>2, <1>4, <2>1, <2>3 DEF Running, FilesInv, UpdateInv,
       RollbackInv, UpdatePcs, RollbackPcs, BeforeSwap, AfterCompare,
       HasCandidate, CandidateIsLive
  <2> QED
    BY <1>1, <1>2, <1>4, <2>2, <2>4, QuietMove, PcSets DEF Candidate, TypeOK
<1> QED
  BY <1>3, <1>4 DEF Candidate

\* A step inside a run that changes files or the service.
LEMMA FileMove ==
    ASSUME IInv, NEW p \in Proc, pc[p] \in LockedPcs, NEW l \in LockedPcs,
           Goto(p, l), Running, UNCHANGED <<want, known>>,
           disk' \in [Path -> Content], serving' \in {serving, Down},
           disk'["live"] \in Trusted,
           disk'["prev"] \in Trusted \union {Absent},
           disk'["displaced"] \in Trusted \union {Absent},
           base.live \in Kept', l \in RollbackPcs => base.prev \in Kept',
           FilesInv(p)', UpdateInv(p)', RollbackInv(p)'
    PROVE  IInv'
<1>1. lock = p /\ TypeOK /\ OnlyTrustedRuns
  BY InsideRun
<1>2. TypeOK'
  BY <1>1, PcSets DEF TypeOK, Goto, Running
<1>3. OnlyTrustedRuns'
  BY <1>1 DEF OnlyTrustedRuns, Trusted
<1>4. NothingLost'
  <2>1. \A q \in Proc : pc'[q] \in RollbackPcs => q = p
    BY <1>1, OthersOutside, PcSets DEF IInv, Goto, TypeOK
  <2>2. pc'[p] = l
    BY <1>1 DEF Goto, TypeOK
  <2> QED
    BY <2>1, <2>2 DEF NothingLost, Running
<1> QED
  BY <1>1, <1>2, <1>3, <1>4, StaysInRun

LEMMA CopyBeginsStep ==
    ASSUME IInv, NEW p \in Proc, CopyBegins(p)
    PROVE  IInv'
<1>1. PICK c \in Copies : pc[p] = c.at /\ Goto(p, c.doing)
  BY DEF CopyBegins
<1>2. /\ c.at \in LockedPcs /\ c.doing \in LockedPcs
      /\ c.doing \in RollbackPcs => c.at \in RollbackPcs
      /\ <<c.at, c.doing>> \in { <<"preserve", "preserving">>,
           <<"restore", "restoring">>, <<"rbStage", "rbStaging">>,
           <<"rbDisplace", "rbDisplacing">> }
  BY DEF Copies, LockedPcs, UpdatePcs, RollbackPcs
<1>3. /\ lock = p /\ TypeOK /\ FilesInv(p) /\ UpdateInv(p) /\ RollbackInv(p)
      /\ NothingLost
  BY <1>1, <1>2, InsideRun
<1>4. /\ disk'["live"] = disk["live"] /\ disk'["prev"] = disk["prev"]
      /\ disk'["new"] = disk["new"] /\ disk'["displaced"] = disk["displaced"]
  BY <1>3 DEF CopyBegins, Write, TypeOK, Path
<1>5. pc'[p] = c.doing
  BY <1>1, <1>3 DEF Goto, TypeOK
<1>6. FilesInv(p)' /\ UpdateInv(p)' /\ RollbackInv(p)'
  BY <1>1, <1>2, <1>3, <1>4, <1>5 DEF CopyBegins, Running, FilesInv,
     UpdateInv, RollbackInv, UpdatePcs, RollbackPcs, BeforeSwap, AfterCompare,
     HasCandidate, CandidateIsLive
<1>7. c.doing \in RollbackPcs => base.prev \in Kept
  BY <1>1, <1>2, <1>3 DEF NothingLost
<1> QED
  BY <1>1, <1>2, <1>6, <1>7, ScratchMove DEF CopyBegins, Content

LEMMA CopyEndsStep ==
    ASSUME IInv, NEW p \in Proc, CopyEnds(p)
    PROVE  IInv'
<1>1. PICK c \in Copies :
        /\ pc[p] = c.doing
        /\ disk' = [disk EXCEPT ![c.to] = disk[c.from], !["tmp"] = Absent]
        /\ Goto(p, c.next)
  BY DEF CopyEnds
<1>2. /\ c.doing \in LockedPcs /\ c.next \in LockedPcs
      /\ c.to \in Path \ {"tmp", "live"} /\ c.from \in {"live", "prev"}
  BY DEF Copies, LockedPcs, UpdatePcs, RollbackPcs, Path
<1>3. /\ lock = p /\ TypeOK /\ OnlyTrustedRuns /\ NothingLost /\ BaseInv
      /\ FilesInv(p) /\ UpdateInv(p) /\ RollbackInv(p)
  BY <1>1, <1>2, InsideRun
<1>4. pc'[p] = c.next
  BY <1>1, <1>3 DEF Goto, TypeOK
<1>5. disk' \in [Path -> Content]
  BY <1>1, <1>2, <1>3 DEF TypeOK, Path, Content
<1>6. /\ disk'[c.to] = disk[c.from]
      /\ \A x \in Path \ {"tmp"} : x # c.to => disk'[x] = disk[x]
  BY <1>1, <1>2, <1>3 DEF TypeOK, Path
<1>7. /\ disk'["live"] = disk["live"] /\ disk["live"] \in Trusted
      /\ disk'["prev"] \in Trusted \union {Absent}
      /\ disk'["displaced"] \in Trusted \union {Absent}
  BY <1>2, <1>3, <1>6 DEF OnlyTrustedRuns, Path
<1>8. CASE c.doing = "preserving"
  <2>1. c.to = "prev" /\ c.from = "live" /\ c.next = "swap"
    BY <1>8 DEF Copies
  <2>2. disk'["prev"] = base.live /\ disk'["new"] = disk["new"]
    BY <1>1, <1>3, <1>6, <1>8, <2>1 DEF FilesInv, BeforeSwap, Path
  <2>3. FilesInv(p)' /\ UpdateInv(p)' /\ RollbackInv(p)'
    BY <1>1, <1>3, <1>4, <1>7, <1>8, <2>1, <2>2 DEF CopyEnds, Running,
       FilesInv, UpdateInv, RollbackInv, UpdatePcs, RollbackPcs, BeforeSwap,
       AfterCompare, HasCandidate, CandidateIsLive
  <2>4. base.live \in Kept' /\ c.next \notin RollbackPcs
    BY <2>1, <2>2 DEF Kept, RollbackPcs
  <2> QED
    BY <1>1, <1>2, <1>5, <1>7, <2>3, <2>4, FileMove DEF CopyEnds
<1>9. CASE c.doing = "restoring"
  <2>1. c.to = "new" /\ c.from = "prev" /\ c.next = "unswap"
    BY <1>9 DEF Copies
  <2>2. /\ disk'["prev"] = disk["prev"] /\ disk'["new"] = disk["prev"]
        /\ disk["prev"] = base.live
    BY <1>1, <1>3, <1>6, <1>9, <2>1 DEF UpdateInv, CandidateIsLive, Path
  <2>3. FilesInv(p)' /\ UpdateInv(p)' /\ RollbackInv(p)'
    BY <1>1, <1>3, <1>4, <1>7, <1>9, <2>1, <2>2 DEF CopyEnds, Running,
       FilesInv, UpdateInv, RollbackInv, UpdatePcs, RollbackPcs, BeforeSwap,
       AfterCompare, HasCandidate, CandidateIsLive
  <2>4. base.live \in Kept' /\ c.next \notin RollbackPcs
    BY <2>1, <2>2 DEF Kept, RollbackPcs
  <2> QED
    BY <1>1, <1>2, <1>5, <1>7, <2>3, <2>4, FileMove DEF CopyEnds
<1>10. CASE c.doing = "rbStaging"
  <2>1. c.to = "new" /\ c.from = "prev" /\ c.next = "rbProbe"
    BY <1>10 DEF Copies
  <2>2. /\ disk["live"] = base.live /\ disk["prev"] = base.prev
        /\ disk'["prev"] = disk["prev"] /\ disk'["new"] = disk["prev"]
    BY <1>1, <1>3, <1>6, <1>10, <2>1 DEF FilesInv, BeforeSwap, Path
  <2>3. FilesInv(p)' /\ UpdateInv(p)' /\ RollbackInv(p)'
    BY <1>1, <1>3, <1>4, <1>7, <1>10, <2>1, <2>2 DEF CopyEnds, Running,
       FilesInv, UpdateInv, RollbackInv, UpdatePcs, RollbackPcs, BeforeSwap,
       AfterCompare, HasCandidate, CandidateIsLive
  <2>4. base.live \in Kept' /\ base.prev \in Kept'
    BY <1>7, <2>2 DEF Kept
  <2> QED
    BY <1>1, <1>2, <1>5, <1>7, <2>3, <2>4, FileMove DEF CopyEnds
<1>11. CASE c.doing = "rbDisplacing"
  <2>1. c.to = "displaced" /\ c.from = "live" /\ c.next = "rbSwap"
    BY <1>11 DEF Copies
  <2>2. /\ disk["live"] = base.live /\ disk["prev"] = base.prev
        /\ disk'["prev"] = disk["prev"] /\ disk'["new"] = disk["new"]
        /\ disk'["displaced"] = base.live
    BY <1>1, <1>3, <1>6, <1>11, <2>1 DEF FilesInv, BeforeSwap, Path
  <2>3. FilesInv(p)' /\ UpdateInv(p)' /\ RollbackInv(p)'
    BY <1>1, <1>3, <1>4, <1>7, <1>11, <2>1, <2>2 DEF CopyEnds, Running,
       FilesInv, UpdateInv, RollbackInv, UpdatePcs, RollbackPcs, BeforeSwap,
       AfterCompare, HasCandidate, CandidateIsLive
  <2>4. base.live \in Kept' /\ base.prev \in Kept'
    BY <1>7, <2>2 DEF Kept
  <2> QED
    BY <1>1, <1>2, <1>5, <1>7, <2>3, <2>4, FileMove DEF CopyEnds
<1> QED
  BY <1>8, <1>9, <1>10, <1>11 DEF Copies

LEMMA CopyFailsStep ==
    ASSUME IInv, NEW p \in Proc, CopyFails(p)
    PROVE  IInv'
<1>1. PICK c \in Copies : pc[p] \in {c.at, c.doing} /\ Exit(p, c.fail)
  BY DEF CopyFails
<1>2. pc[p] \in LockedPcs
  BY <1>1 DEF Copies, LockedPcs, UpdatePcs, RollbackPcs
<1>3. lock = p /\ TypeOK /\ OnlyTrustedRuns /\ UpdateInv(p)
  BY <1>2, InsideRun
<1>4. /\ disk' \in [Path -> Content]
      /\ disk'["live"] = disk["live"] /\ disk'["prev"] = disk["prev"]
      /\ disk'["displaced"] = disk["displaced"]
  BY <1>3 DEF CopyFails, TypeOK, Path, Content
<1>5. CASE c.fail \in {"IoError", "RbIoError"}
  <2>1. pc[p] \in BeforeSwap
    BY <1>1, <1>5 DEF Copies, BeforeSwap
  <2> QED
    BY <1>1, <1>4, <1>5, <2>1, QuietExit DEF CopyFails
<1>6. CASE c.fail = "CandidateLive"
  <2>1. pc[p] \in {"restore", "restoring"}
    BY <1>1, <1>6 DEF Copies
  <2>2. /\ disk["live"] = want[p].bin /\ Ver[want[p].bin] = want[p].ver
        /\ want[p].ver > Ver[base.live] /\ disk["prev"] = base.live
    BY <1>3, <2>1 DEF UpdateInv, UpdatePcs, AfterCompare, CandidateIsLive,
       HasCandidate
  <2>3. disk["live"] # base.live
    <3>1. Ver[base.live] \in Int
      BY <1>3, ConstantsAssumption DEF TypeOK
    <3> QED
      BY <2>2, <3>1
  <2>4. OutcomeIsTrue' /\ VerifiedServing'
    BY <1>1, <1>4, <1>6, <2>2, <2>3 DEF OutcomeIsTrue, VerifiedServing, Exit
  <2> QED
    BY <1>1, <1>3, <1>4, <1>6, <2>4, RunEnds
       DEF CopyFails, Outcomes, UpdateOutcomes
<1> QED
  BY <1>5, <1>6 DEF Copies

LEMMA SwapStep ==
    ASSUME IInv, NEW p \in Proc, Swap(p)
    PROVE  IInv'
<1>1. PICK s \in { <<"swap", "restart">>, <<"unswap", "restart2">>,
                   <<"rbSwap", "rbAnchor">> } :
         pc[p] = s[1] /\ Goto(p, s[2])
  BY DEF Swap
<1>2. s[1] \in LockedPcs /\ s[2] \in LockedPcs
  BY DEF LockedPcs, UpdatePcs, RollbackPcs
<1>3. /\ lock = p /\ TypeOK /\ OnlyTrustedRuns /\ BaseInv
      /\ FilesInv(p) /\ UpdateInv(p) /\ RollbackInv(p)
  BY <1>1, <1>2, InsideRun
<1>4. pc'[p] = s[2]
  BY <1>1, <1>3 DEF Goto, TypeOK
<1>5. /\ disk' \in [Path -> Content] /\ disk'["live"] = disk["new"]
      /\ disk'["prev"] = disk["prev"] /\ disk'["displaced"] = disk["displaced"]
  BY <1>3 DEF Swap, Rename, TypeOK, Path, Content
<1>6. CASE s[1] = "swap"
  <2>1. s[2] = "restart"
    BY <1>6
  <2>2. disk["new"] = want[p].bin /\ want[p].bin \in Signed
    BY <1>1, <1>3, <1>6 DEF UpdateInv, UpdatePcs, AfterCompare, HasCandidate
  <2>3. disk["prev"] = base.live
    BY <1>1, <1>3, <1>6 DEF UpdateInv
  <2>4. FilesInv(p)' /\ UpdateInv(p)' /\ RollbackInv(p)'
    BY <1>1, <1>3, <1>4, <1>5, <1>6, <2>1, <2>2, <2>3 DEF Swap, Running, FilesInv, UpdateInv, RollbackInv,
       UpdatePcs, RollbackPcs, BeforeSwap, AfterCompare, HasCandidate,
       CandidateIsLive
  <2>5. base.live \in Kept' /\ s[2] \notin RollbackPcs /\ disk'["live"] \in Trusted
    BY <1>5, <2>1, <2>2, <2>3 DEF Kept, RollbackPcs, Trusted
  <2> QED
    BY <1>1, <1>2, <1>3, <1>5, <2>4, <2>5, FileMove DEF Swap, OnlyTrustedRuns
<1>7. CASE s[1] = "unswap"
  <2>1. s[2] = "restart2"
    BY <1>7
  <2>2. disk["new"] = base.live /\ disk["prev"] = base.live
    BY <1>1, <1>3, <1>7 DEF UpdateInv, CandidateIsLive
  <2>3. FilesInv(p)' /\ UpdateInv(p)' /\ RollbackInv(p)'
    BY <1>1, <1>3, <1>4, <1>5, <1>7, <2>1, <2>2 DEF Swap, Running, FilesInv, UpdateInv, RollbackInv,
       UpdatePcs, RollbackPcs, BeforeSwap, AfterCompare, HasCandidate,
       CandidateIsLive
  <2>4. base.live \in Kept' /\ s[2] \notin RollbackPcs /\ disk'["live"] \in Trusted
    BY <1>3, <1>5, <2>1, <2>2 DEF Kept, RollbackPcs, BaseInv
  <2> QED
    BY <1>1, <1>2, <1>3, <1>5, <2>3, <2>4, FileMove DEF Swap, OnlyTrustedRuns
<1>8. CASE s[1] = "rbSwap"
  <2>1. s[2] = "rbAnchor"
    BY <1>8
  <2>2. /\ disk["new"] = base.prev /\ disk["displaced"] = base.live
        /\ disk["prev"] = base.prev /\ base.prev # Absent
    BY <1>1, <1>3, <1>8 DEF FilesInv, BeforeSwap, RollbackInv, RollbackPcs
  <2>3. FilesInv(p)' /\ UpdateInv(p)' /\ RollbackInv(p)'
    BY <1>1, <1>3, <1>4, <1>5, <1>8, <2>1, <2>2 DEF Swap, Running, FilesInv, UpdateInv, RollbackInv,
       UpdatePcs, RollbackPcs, BeforeSwap, AfterCompare, HasCandidate,
       CandidateIsLive
  <2>4. base.live \in Kept' /\ base.prev \in Kept' /\ disk'["live"] \in Trusted
    BY <1>3, <1>5, <2>2 DEF Kept, BaseInv
  <2> QED
    BY <1>1, <1>2, <1>3, <1>5, <2>3, <2>4, FileMove DEF Swap, OnlyTrustedRuns
<1> QED
  BY <1>6, <1>7, <1>8

LEMMA SwapFailsStep ==
    ASSUME IInv, NEW p \in Proc, SwapFails(p)
    PROVE  IInv'
<1>1. pc[p] \in {"swap", "unswap", "rbSwap"} /\ pc[p] \in LockedPcs
  BY DEF SwapFails, LockedPcs, UpdatePcs, RollbackPcs
<1>2. /\ lock = p /\ TypeOK /\ FilesInv(p) /\ UpdateInv(p)
  BY <1>1, InsideRun
<1>3. CASE pc[p] = "rbSwap"
  <2>1. pc[p] \in BeforeSwap /\ Exit(p, "RbIoError")
    BY <1>3 DEF SwapFails, BeforeSwap
  <2> QED
    BY <1>2, <2>1, QuietExit DEF SwapFails, TypeOK
<1>4. CASE pc[p] = "swap"
  <2>1. Exit(p, "IoError") /\ UNCHANGED <<disk, serving>>
    BY <1>4 DEF SwapFails
  <2>2. disk["live"] = base.live
    BY <1>2, <1>4 DEF FilesInv
  <2>3. OutcomeIsTrue' /\ VerifiedServing'
    BY <2>1, <2>2 DEF OutcomeIsTrue, VerifiedServing, Exit
  <2> QED
    BY <1>2, <2>1, <2>3, RunEnds DEF TypeOK, Outcomes, UpdateOutcomes
<1>5. CASE pc[p] = "unswap"
  <2>1. Exit(p, "CandidateLive") /\ UNCHANGED <<disk, serving>>
    BY <1>5 DEF SwapFails
  <2>2. /\ disk["live"] = want[p].bin /\ Ver[want[p].bin] = want[p].ver
        /\ want[p].ver > Ver[base.live] /\ disk["prev"] = base.live
    BY <1>2, <1>5 DEF UpdateInv, UpdatePcs, AfterCompare, CandidateIsLive,
       HasCandidate
  <2>3. disk["live"] # base.live
    <3>1. Ver[base.live] \in Int
      BY <1>2, ConstantsAssumption DEF TypeOK
    <3> QED
      BY <2>2, <3>1
  <2>4. OutcomeIsTrue' /\ VerifiedServing'
    BY <2>1, <2>2, <2>3 DEF OutcomeIsTrue, VerifiedServing, Exit
  <2> QED
    BY <1>2, <2>1, <2>4, RunEnds DEF TypeOK, Outcomes, UpdateOutcomes
<1> QED
  BY <1>1, <1>3, <1>4, <1>5

\* An update that restored the old binary ends without having verified it, or
\* a rollback ends without having verified what it put back.
LEMMA UnverifiedExit ==
    ASSUME IInv, NEW p \in Proc,
           \/ pc[p] \in {"restart2", "health2"} /\ Exit(p, "PreviousLive")
           \/ pc[p] \in {"rbRestart", "rbHealth"} /\ Exit(p, "Unhealthy"),
           UNCHANGED disk, serving' \in {serving, Down}
    PROVE  IInv'
<1>1. pc[p] \in LockedPcs
  BY DEF LockedPcs, UpdatePcs, RollbackPcs
<1>2. /\ lock = p /\ TypeOK /\ UpdateInv(p) /\ RollbackInv(p)
  BY <1>1, InsideRun
<1>3. CASE pc[p] \in {"restart2", "health2"} /\ Exit(p, "PreviousLive")
  <2>1. disk["live"] = base.live /\ disk["prev"] = base.live
    BY <1>2, <1>3 DEF UpdateInv
  <2>2. OutcomeIsTrue' /\ VerifiedServing'
    BY <1>3, <2>1 DEF OutcomeIsTrue, VerifiedServing, Exit
  <2> QED
    BY <1>2, <1>3, <2>2, RunEnds DEF TypeOK, Outcomes, UpdateOutcomes
<1>4. CASE pc[p] \in {"rbRestart", "rbHealth"} /\ Exit(p, "Unhealthy")
  <2>1. disk["live"] = base.prev /\ disk["prev"] = base.live
    BY <1>2, <1>4 DEF RollbackInv
  <2>2. OutcomeIsTrue' /\ VerifiedServing'
    BY <1>4, <2>1 DEF OutcomeIsTrue, VerifiedServing, Exit
  <2> QED
    BY <1>2, <1>4, <2>2, RunEnds DEF TypeOK, Outcomes, RollbackOutcomes
<1> QED
  BY <1>3, <1>4

\* A run that goes on after the restart or the health poll, files untouched.
LEMMA ServiceMove ==
    ASSUME IInv, NEW p \in Proc, UNCHANGED disk, serving' \in {serving, Down},
           NEW s \in { <<"restart", "health">>, <<"restart2", "health2">>,
                      <<"rbRestart", "rbHealth">>, <<"restart", "restore">>,
                      <<"health", "restore">> },
           pc[p] = s[1], Goto(p, s[2]), UNCHANGED <<want, known>>, Running
    PROVE  IInv'
<1>1. /\ s[1] \in LockedPcs /\ s[2] \in LockedPcs
      /\ s[2] \in RollbackPcs => s[1] \in RollbackPcs
  BY DEF LockedPcs, UpdatePcs, RollbackPcs
<1>2. /\ lock = p /\ TypeOK /\ OnlyTrustedRuns /\ NothingLost
      /\ FilesInv(p) /\ UpdateInv(p) /\ RollbackInv(p)
  BY <1>1, InsideRun
<1>3. pc'[p] = s[2]
  BY <1>2 DEF Goto, TypeOK
<1>4. FilesInv(p)' /\ UpdateInv(p)' /\ RollbackInv(p)'
  BY <1>2, <1>3 DEF Running, FilesInv, UpdateInv, RollbackInv,
       UpdatePcs, RollbackPcs, BeforeSwap, AfterCompare, HasCandidate,
       CandidateIsLive
<1>5. base.live \in Kept' /\ (s[2] \in RollbackPcs => base.prev \in Kept')
  BY <1>1, <1>2 DEF NothingLost, Kept
<1> QED
  BY <1>1, <1>2, <1>4, <1>5, FileMove DEF TypeOK, OnlyTrustedRuns

LEMMA RestartStep ==
    ASSUME IInv, NEW p \in Proc, Restart(p)
    PROVE  IInv'
  BY UnverifiedExit, ServiceMove DEF Restart

LEMMA HealthFailsStep ==
    ASSUME IInv, NEW p \in Proc, HealthFails(p)
    PROVE  IInv'
<1>1. CASE pc[p] = "current" /\ Exit(p, "NotServing")
  <2>1. pc[p] \in BeforeSwap
    BY <1>1 DEF BeforeSwap
  <2> QED
    BY <1>1, <2>1, QuietExit DEF HealthFails, IInv, TypeOK
<1>2. CASE pc[p] = "health" /\ Goto(p, "restore")
  BY <1>2, ServiceMove DEF HealthFails, Exit
<1> QED
  BY <1>1, <1>2, UnverifiedExit DEF HealthFails

LEMMA HealthOkStep ==
    ASSUME IInv, NEW p \in Proc, HealthOk(p)
    PROVE  IInv'
<1>1. pc[p] \in {"current", "health", "health2", "rbHealth"}
      /\ pc[p] \in LockedPcs
  BY DEF HealthOk, LockedPcs, UpdatePcs, RollbackPcs
<1>2. /\ lock = p /\ TypeOK /\ FilesInv(p) /\ UpdateInv(p) /\ RollbackInv(p)
      /\ UNCHANGED <<disk, serving>>
  BY <1>1, InsideRun DEF HealthOk
<1>3. CASE pc[p] = "current"
  <2>1. /\ Verified(known[p]) /\ Exit(p, "AlreadyCurrent")
        /\ known[p] = Ver[disk["live"]]
        /\ disk["live"] = base.live /\ disk["prev"] = base.prev
    BY <1>2, <1>3 DEF HealthOk, FilesInv, BeforeSwap, UpdateInv
  <2>2. OutcomeIsTrue' /\ VerifiedServing'
    BY <1>2, <2>1 DEF OutcomeIsTrue, VerifiedServing, Exit, Verified
  <2> QED
    BY <1>2, <2>1, <2>2, RunEnds DEF TypeOK, Outcomes, UpdateOutcomes
<1>4. CASE pc[p] = "health"
  <2>1. /\ Verified(want[p].ver) /\ Exit(p, "Updated")
        /\ disk["live"] = want[p].bin /\ Ver[want[p].bin] = want[p].ver
        /\ want[p].ver > Ver[base.live] /\ want[p].bin \in Signed
        /\ disk["prev"] = base.live
    BY <1>2, <1>4 DEF HealthOk, UpdateInv, UpdatePcs, AfterCompare,
       HasCandidate, CandidateIsLive
  <2>2. OutcomeIsTrue' /\ VerifiedServing'
    BY <1>2, <2>1 DEF OutcomeIsTrue, VerifiedServing, Exit, Verified
  <2> QED
    BY <1>2, <2>1, <2>2, RunEnds DEF TypeOK, Outcomes, UpdateOutcomes
<1>5. CASE pc[p] = "health2"
  <2>1. /\ Verified(known[p]) /\ Exit(p, "Recovered")
        /\ known[p] = Ver[base.live]
        /\ disk["live"] = base.live /\ disk["prev"] = base.live
    BY <1>2, <1>5 DEF HealthOk, UpdateInv, UpdatePcs, AfterCompare
  <2>2. OutcomeIsTrue' /\ VerifiedServing'
    BY <1>2, <2>1 DEF OutcomeIsTrue, VerifiedServing, Exit, Verified
  <2> QED
    BY <1>2, <2>1, <2>2, RunEnds DEF TypeOK, Outcomes, UpdateOutcomes
<1>6. CASE pc[p] = "rbHealth"
  <2> DEFINE o == IF known[p] = NoVersion THEN "RolledBackOnline"
                                          ELSE "RolledBack"
  <2>1. /\ Verified(known[p]) /\ Exit(p, o)
        /\ known[p] \in {Ver[base.prev], NoVersion}
        /\ disk["live"] = base.prev /\ disk["prev"] = base.live
    BY <1>2, <1>6 DEF HealthOk, RollbackInv
  <2>2. OutcomeIsTrue' /\ VerifiedServing'
    BY <1>2, <2>1 DEF OutcomeIsTrue, VerifiedServing, Exit, Verified
  <2>3. o \in Outcomes
    BY DEF Outcomes, RollbackOutcomes
  <2> HIDE DEF o
  <2> QED
    BY <1>2, <2>1, <2>2, <2>3, RunEnds DEF TypeOK
<1> QED
  BY <1>1, <1>3, <1>4, <1>5, <1>6

LEMMA HasPreviousStep ==
    ASSUME IInv, NEW p \in Proc, HasPrevious(p)
    PROVE  IInv'
<1>1. pc[p] = "hasPrev" /\ pc[p] \in BeforeSwap
  BY DEF HasPrevious, BeforeSwap
<1>2. /\ lock = p /\ TypeOK /\ FilesInv(p) /\ UpdateInv(p) /\ RollbackInv(p)
  BY <1>1, InsideRun, PcSets
<1>3. CASE \E o \in {"NoPrevious", "RbRefused"} : Exit(p, o)
  BY <1>1, <1>2, <1>3, QuietExit DEF HasPrevious, TypeOK
<1>4. CASE /\ disk["prev"] # Absent /\ Goto(p, "rbStage")
           /\ UNCHANGED <<want, known>> /\ Running
  <2>1. pc'[p] = "rbStage" /\ "rbStage" \in LockedPcs
    BY <1>2, <1>4 DEF Goto, TypeOK, LockedPcs, RollbackPcs
  <2>2. disk["live"] = base.live /\ disk["prev"] = base.prev
    BY <1>1, <1>2 DEF FilesInv
  <2>3. FilesInv(p)' /\ UpdateInv(p)' /\ RollbackInv(p)'
    BY <1>1, <1>2, <1>4, <2>1, <2>2 DEF HasPrevious, Running, FilesInv, UpdateInv, RollbackInv,
       UpdatePcs, RollbackPcs, BeforeSwap, AfterCompare, HasCandidate,
       CandidateIsLive
  <2> QED
    BY <1>1, <1>2, <1>4, <2>1, <2>2, <2>3, QuietMove, PcSets
       DEF HasPrevious, TypeOK, Kept
<1> QED
  BY <1>3, <1>4 DEF HasPrevious

LEMMA RollbackProbeStep ==
    ASSUME IInv, NEW p \in Proc, RollbackProbe(p)
    PROVE  IInv'
<1>1. pc[p] = "rbProbe" /\ pc[p] \in BeforeSwap
  BY DEF RollbackProbe, BeforeSwap
<1>2. /\ lock = p /\ TypeOK /\ FilesInv(p) /\ UpdateInv(p) /\ RollbackInv(p)
  BY <1>1, InsideRun, PcSets
<1>3. CASE Exit(p, "HalfDone") /\ disk' \in {disk, [disk EXCEPT !["new"] = Absent]}
  <2>1. /\ disk' \in [Path -> Content]
        /\ disk'["live"] = disk["live"] /\ disk'["prev"] = disk["prev"]
        /\ disk'["displaced"] = disk["displaced"]
    BY <1>2, <1>3 DEF TypeOK, Path, Content
  <2> QED
    BY <1>1, <1>3, <2>1, QuietExit DEF RollbackProbe
<1>4. ASSUME NEW v \in Probe("new"), known' = [known EXCEPT ![p] = v],
             disk["displaced"] = Absent, Goto(p, "rbDisplace"),
             UNCHANGED <<disk, want>>, Running
      PROVE  IInv'
  <2>1. pc'[p] = "rbDisplace" /\ "rbDisplace" \in LockedPcs
    BY <1>2, <1>4 DEF Goto, TypeOK, LockedPcs, RollbackPcs
  <2>2. /\ disk["new"] = base.prev /\ base.prev \in Bin
        /\ disk["live"] = base.live /\ disk["prev"] = base.prev
    BY <1>1, <1>2 DEF RollbackInv, RollbackPcs, TypeOK, FilesInv
  <2>3. v \in {Ver[base.prev], NoVersion} /\ v \in Int
    BY <2>2, ConstantsAssumption DEF Probe, NoVersion
  <2>4. known' \in [Proc -> Int] /\ known'[p] = v
    BY <1>2, <1>4, <2>3 DEF TypeOK
  <2>5. FilesInv(p)' /\ UpdateInv(p)' /\ RollbackInv(p)'
    BY <1>1, <1>2, <1>4, <2>1, <2>2, <2>3, <2>4 DEF RollbackProbe, Running, FilesInv, UpdateInv, RollbackInv,
       UpdatePcs, RollbackPcs, BeforeSwap, AfterCompare, HasCandidate,
       CandidateIsLive
  <2> QED
    BY <1>1, <1>2, <1>4, <2>1, <2>2, <2>4, <2>5, QuietMove, PcSets
       DEF RollbackProbe, TypeOK, Kept
<1> QED
  BY <1>3, <1>4 DEF RollbackProbe

LEMMA AnchorStep ==
    ASSUME IInv, NEW p \in Proc, Anchor(p)
    PROVE  IInv'
<1>1. pc[p] = "rbAnchor" /\ pc[p] \in LockedPcs
  BY DEF Anchor, LockedPcs, RollbackPcs
<1>2. /\ lock = p /\ TypeOK /\ OnlyTrustedRuns /\ BaseInv
      /\ FilesInv(p) /\ UpdateInv(p) /\ RollbackInv(p)
  BY <1>1, InsideRun
<1>3. /\ disk["live"] = base.prev /\ disk["displaced"] = base.live
      /\ disk["prev"] = base.prev /\ base.prev # Absent
  BY <1>1, <1>2 DEF RollbackInv, RollbackPcs
<1>4. CASE UNCHANGED disk /\ Exit(p, "HalfDone")
  <2>1. OutcomeIsTrue' /\ VerifiedServing'
    BY <1>3, <1>4 DEF OutcomeIsTrue, VerifiedServing, Exit
  <2> QED
    BY <1>2, <1>4, <2>1, RunEnds DEF Anchor, TypeOK, Outcomes, RollbackOutcomes
<1>5. CASE /\ Rename("displaced", "prev") /\ Goto(p, "rbRestart")
           /\ UNCHANGED <<want, known>> /\ Running
  <2>1. pc'[p] = "rbRestart" /\ "rbRestart" \in LockedPcs
    BY <1>2, <1>5 DEF Goto, TypeOK, LockedPcs, RollbackPcs
  <2>2. /\ disk' \in [Path -> Content] /\ disk'["live"] = base.prev
        /\ disk'["prev"] = base.live /\ disk'["displaced"] = Absent
    BY <1>2, <1>3, <1>5 DEF Rename, TypeOK, Path, Content
  <2>3. FilesInv(p)' /\ UpdateInv(p)' /\ RollbackInv(p)'
    BY <1>1, <1>2, <1>5, <2>1, <2>2 DEF Running, FilesInv, UpdateInv, RollbackInv,
       UpdatePcs, RollbackPcs, BeforeSwap, AfterCompare, HasCandidate,
       CandidateIsLive
  <2>4. base.live \in Kept' /\ base.prev \in Kept'
    BY <2>2 DEF Kept
  <2>5. disk'["live"] \in Trusted /\ disk'["prev"] \in Trusted
    BY <1>2, <1>3, <2>2 DEF BaseInv
  <2> QED
    BY <1>1, <1>5, <2>1, <2>2, <2>3, <2>4, <2>5, FileMove DEF Anchor
<1> QED
  BY <1>4, <1>5 DEF Anchor

LEMMA CrashStep ==
    ASSUME IInv, NEW p \in Proc, Crash(p)
    PROVE  IInv'
<1>1. lock = p /\ TypeOK
  BY InsideRun DEF Crash
<1>2. OutcomeIsTrue' /\ VerifiedServing'
  BY DEF OutcomeIsTrue, VerifiedServing, Crash, Exit
<1> QED
  BY <1>1, <1>2, RunEnds DEF Crash, TypeOK, Outcomes

LEMMA StepStep ==
    ASSUME IInv, NEW p \in Proc, Start(p) \/ Step(p) \/ Crash(p)
    PROVE  IInv'
  BY StartStep, AcquireStep, PreflightStep, FetchFeedStep, CompareStep,
     DownloadStep, StageStep, CandidateStep, CopyBeginsStep, CopyEndsStep,
     CopyFailsStep, SwapStep, SwapFailsStep, RestartStep, HealthOkStep,
     HealthFailsStep, HasPreviousStep, RollbackProbeStep, AnchorStep, CrashStep
     DEF Step

\* The service starts what is live, or dies.
LEMMA ServiceStep ==
    ASSUME IInv, ServiceStarts \/ ServiceDies
    PROVE  IInv'
<1>1. UNCHANGED <<disk, lock, pc, want, known, last, base>>
      /\ serving' \in {disk["live"], Down}
  BY DEF ServiceStarts, ServiceDies
<1>2. TypeOK' /\ OnlyTrustedRuns'
  BY <1>1, ConstantsAssumption DEF IInv, TypeOK, OnlyTrustedRuns, Trusted
<1>3. LockInv' /\ BaseInv' /\ NothingLost' /\ OutcomeIsTrue'
  BY <1>1 DEF IInv, LockInv, BaseInv, NothingLost, Kept, OutcomeIsTrue
<1>4. RunInv'
  BY <1>1 DEF IInv, RunInv, FilesInv, UpdateInv, RollbackInv
<1>5. VerifiedServing'
  BY <1>1 DEF VerifiedServing
<1> QED
  BY <1>2, <1>3, <1>4, <1>5 DEF IInv

LEMMA OperatorStep ==
    ASSUME IInv, OperatorMoves
    PROVE  IInv'
<1>1. /\ UNCHANGED <<serving, lock, pc, want, known, last, base>>
      /\ lock = NoProc /\ last = "HalfDone"
      /\ TypeOK /\ OnlyTrustedRuns /\ LockInv
  BY DEF OperatorMoves, IInv
<1>2. /\ disk' \in [Path -> Content] /\ disk'["live"] = disk["live"]
      /\ disk'["prev"] = disk["displaced"] /\ disk'["displaced"] = Absent
  BY <1>1 DEF OperatorMoves, Rename, TypeOK, Path, Content
<1>3. \A q \in Proc : pc'[q] \notin LockedPcs
  BY <1>1, ConstantsAssumption DEF LockInv
<1>4. TypeOK' /\ LockInv' /\ BaseInv'
  BY <1>1, <1>2 DEF IInv, TypeOK, LockInv, BaseInv
<1>5. OnlyTrustedRuns'
  BY <1>1, <1>2 DEF OnlyTrustedRuns
<1>6. RunInv'
  <2> SUFFICES ASSUME NEW q \in Proc
               PROVE  (FilesInv(q) /\ UpdateInv(q) /\ RollbackInv(q))'
    BY DEF RunInv
  <2> QED
    BY <1>3 DEF FilesInv, UpdateInv, RollbackInv, UpdatePcs, RollbackPcs,
       BeforeSwap, AfterCompare, HasCandidate, CandidateIsLive, LockedPcs
<1>7. NothingLost'
  BY <1>1, <1>2, <1>3, PcSets
     DEF IInv, OutcomeIsTrue, OperatorMoves, NothingLost, Kept
<1>8. OutcomeIsTrue' /\ VerifiedServing'
  BY <1>1, <1>2 DEF OutcomeIsTrue, VerifiedServing
<1> QED
  BY <1>4, <1>5, <1>6, <1>7, <1>8 DEF IInv

----------------------------------------------------------------------------
LEMMA InitInv == Init => IInv
<1> SUFFICES ASSUME Init PROVE IInv
  OBVIOUS
<1>1. TypeOK
  <2>1. NoFeed \in [ver : Int, bin : Bin \union {Absent}]
    BY DEF NoFeed
  <2> QED
    BY <2>1, PcSets, ConstantsAssumption DEF Init, TypeOK, NoVersion, Outcomes
<1>2. \A q \in Proc : pc[q] \notin LockedPcs
  BY PcSets DEF Init
<1>3. LockInv
  BY <1>2, ConstantsAssumption DEF Init, LockInv
<1>4. RunInv
  BY <1>2, OutsideRun DEF RunInv
<1>5. BaseInv /\ OnlyTrustedRuns /\ OutcomeIsTrue /\ VerifiedServing
  BY DEF Init, BaseInv, OnlyTrustedRuns, Trusted, OutcomeIsTrue, VerifiedServing
<1>6. NothingLost
  BY <1>2, PcSets DEF Init, NothingLost, Kept
<1> QED
  BY <1>1, <1>3, <1>4, <1>5, <1>6 DEF IInv

LEMMA NextInv == IInv /\ [Next]_vars => IInv'
<1> SUFFICES ASSUME IInv, [Next]_vars PROVE IInv'
  OBVIOUS
<1>1. CASE UNCHANGED vars
  BY <1>1 DEF vars, IInv, TypeOK, LockInv, BaseInv, RunInv, FilesInv,
     UpdateInv, RollbackInv, OnlyTrustedRuns, NothingLost, Kept,
     OutcomeIsTrue, VerifiedServing
<1> QED
  BY <1>1, StepStep, ServiceStep, OperatorStep DEF Next

\* The invariant holds in every reachable state, for any number of updaters,
\* executables and feeds.
THEOREM Invariance == Spec => []IInv
  BY InitInv, NextInv, PTL DEF Spec

\* Every variable keeps its type.
THEOREM TypeCorrect == Spec => []TypeOK
<1>1. IInv => TypeOK
  BY DEF IInv
<1> QED
  BY <1>1, Invariance, PTL

\* Whatever the network serves and wherever a run is killed, the live path and
\* the service hold only complete, trusted executables.
THEOREM OnlyTrustedRunsHolds == Spec => []OnlyTrustedRuns
<1>1. IInv => OnlyTrustedRuns
  BY DEF IInv
<1> QED
  BY <1>1, Invariance, PTL

\* No run loses the executable it found live; no rollback loses either of the
\* two it exchanges.
THEOREM NothingLostHolds == Spec => []NothingLost
<1>1. IInv => NothingLost
  BY DEF IInv
<1> QED
  BY <1>1, Invariance, PTL

\* Every outcome a run reports is true of the files it leaves.
THEOREM OutcomeIsTrueHolds == Spec => []OutcomeIsTrue
<1>1. IInv => OutcomeIsTrue
  BY DEF IInv
<1> QED
  BY <1>1, Invariance, PTL

\* Exit 0 and exit 5 are reported only for a service that serves the version
\* of the live executable.
THEOREM VerifiedServingHolds == Spec => []VerifiedServing
<1>1. IInv => VerifiedServing
  BY DEF IInv
<1> QED
  BY <1>1, Invariance, PTL

\* Some of the run is left wherever the lock is held.
LEMMA AheadIs ==
    /\ Ahead("idle") = 0
    /\ \A l \in LockedPcs : Ahead(l) \in Nat \ {0}
<1>1. Ahead("idle") = 0
  BY DEF Ahead
<1>2. \A l \in UpdatePcs : Ahead(l) \in Nat \ {0}
  BY DEF Ahead, UpdatePcs
<1>3. \A l \in RollbackPcs : Ahead(l) \in Nat \ {0}
  BY DEF Ahead, RollbackPcs
<1>4. Ahead("preUpdate") = 18 /\ Ahead("preRollback") = 11
  BY DEF Ahead
<1> QED
  BY <1>1, <1>2, <1>3, <1>4 DEF LockedPcs

\* A step of a process moves it alone, and forward.
LEMMA StepGoesForward ==
    ASSUME pc \in [Proc -> Pc], NEW p \in Proc, Step(p) \/ Crash(p)
    PROVE  \E l : pc' = [pc EXCEPT ![p] = l] /\ Ahead(l) < Ahead(pc[p])
<1> USE DEF Goto, Exit
<1>1. CASE Acquire(p) \/ Busy(p) \/ Preflight(p)
  BY <1>1 DEF Acquire, Busy, Preflight, Ahead
<1>2. CASE FetchFeed(p) \/ Compare(p) \/ Download(p)
  BY <1>2 DEF FetchFeed, Compare, Download, Ahead
<1>3. CASE Stage(p) \/ Staged(p) \/ StageFails(p) \/ Candidate(p)
  BY <1>3 DEF Stage, Staged, StageFails, Candidate, Ahead
<1>4. CASE CopyBegins(p) \/ CopyEnds(p) \/ CopyFails(p)
  <2>1. PICK c \in Copies :
          \/ pc[p] = c.at /\ pc' = [pc EXCEPT ![p] = c.doing]
          \/ pc[p] = c.doing /\ pc' = [pc EXCEPT ![p] = c.next]
          \/ pc[p] \in {c.at, c.doing} /\ pc' = [pc EXCEPT ![p] = "idle"]
    BY <1>4 DEF CopyBegins, CopyEnds, CopyFails
  <2>2. c.at \in LockedPcs /\ c.doing \in LockedPcs /\ c.next \in LockedPcs
    BY DEF Copies, LockedPcs, UpdatePcs, RollbackPcs
  <2>3. Ahead(c.next) = Ahead(c.doing) - 1 /\ Ahead(c.doing) = Ahead(c.at) - 1
    <3>1. CASE c.at = "preserve"
      BY <3>1 DEF Copies, Ahead
    <3>2. CASE c.at = "restore"
      BY <3>2 DEF Copies, Ahead
    <3>3. CASE c.at = "rbStage"
      BY <3>3 DEF Copies, Ahead
    <3>4. CASE c.at = "rbDisplace"
      BY <3>4 DEF Copies, Ahead
    <3> QED
      BY <3>1, <3>2, <3>3, <3>4 DEF Copies
  <2> QED
    BY <2>1, <2>2, <2>3, AheadIs
<1>5. CASE Swap(p) \/ SwapFails(p) \/ Restart(p)
  BY <1>5 DEF Swap, SwapFails, Restart, Ahead
<1>6. CASE HealthOk(p) \/ HealthFails(p)
  BY <1>6 DEF HealthOk, HealthFails, Ahead
<1>7. CASE HasPrevious(p) \/ RollbackProbe(p) \/ Anchor(p)
  BY <1>7 DEF HasPrevious, RollbackProbe, Anchor, Ahead
<1>8. CASE Crash(p)
  <2>1. pc' = [pc EXCEPT ![p] = "idle"] /\ pc[p] \in LockedPcs
    BY <1>8 DEF Crash
  <2>2. Ahead("idle") < Ahead(pc[p])
    BY <2>1, AheadIs
  <2> QED
    BY <2>1, <2>2
<1> QED
  BY <1>1, <1>2, <1>3, <1>4, <1>5, <1>6, <1>7, <1>8 DEF Step

\* Every run takes 19 steps at most, however its recovery fails (`run_update`,
\* `run_rollback`): what fairness adds in `LockIsReleased` is that they are taken.
THEOREM RunsEnd == Spec => RunsGoForward
<1>1. TypeOK /\ [Next]_vars =>
        [\A p \in Proc : pc[p] # "idle" /\ pc'[p] # pc[p] =>
             Ahead(pc'[p]) < Ahead(pc[p])]_vars
  <2> SUFFICES ASSUME TypeOK, Next, NEW p \in Proc, pc[p] # "idle", pc'[p] # pc[p]
               PROVE  Ahead(pc'[p]) < Ahead(pc[p])
    BY DEF vars
  <2>1. pc \in [Proc -> Pc]
    BY DEF TypeOK
  <2>2. PICK q \in Proc : Start(q) \/ Step(q) \/ Crash(q)
    BY DEF Next, ServiceStarts, ServiceDies, OperatorMoves
  <2>3. CASE Start(q)
    BY <2>1, <2>3 DEF Start, Goto
  <2>4. CASE Step(q) \/ Crash(q)
    BY <2>1, <2>4, StepGoesForward
  <2> QED
    BY <2>2, <2>3, <2>4
<1> QED
  BY <1>1, TypeCorrect, PTL DEF Spec, RunsGoForward

\* No run overwrites what a half-done rollback left behind.
THEOREM LeftoverKeptHolds == Spec => LeftoverKept
<1>1. IInv /\ [Next]_vars =>
        [disk["displaced"] # Absent => disk["displaced"] \in Kept']_vars
  <2> SUFFICES ASSUME IInv, Next, disk["displaced"] # Absent
               PROVE  disk["displaced"] \in Kept'
    BY DEF vars
  <2>1. disk \in [Path -> Content]
    BY DEF IInv, TypeOK
  <2>2. ASSUME NEW p \in Proc, Start(p) \/ Step(p) \/ Crash(p)
        PROVE  disk["displaced"] \in Kept'
    <3>1. CASE CopyEnds(p)
      <4>1. PICK c \in Copies :
              /\ pc[p] = c.doing
              /\ disk' = [disk EXCEPT ![c.to] = disk[c.from], !["tmp"] = Absent]
        BY <3>1 DEF CopyEnds
      <4>2. c.to # "displaced"
        <5>1. c.doing \in LockedPcs /\ (c.to = "displaced" => c.doing = "rbDisplacing")
          BY DEF Copies, LockedPcs, UpdatePcs, RollbackPcs
        <5>2. RollbackInv(p)
          BY <4>1, <5>1, InsideRun
        <5> QED
          BY <4>1, <5>1, <5>2 DEF RollbackInv
      <4>3. c.to \in Path
        BY DEF Copies, Path
      <4> QED
        BY <2>1, <4>1, <4>2, <4>3 DEF Kept, Path
    <3>2. CASE Swap(p) \/ Anchor(p)
      BY <2>1, <3>2 DEF Swap, Anchor, Rename, Kept, Path
    <3>3. CASE Start(p) \/ Crash(p) \/ Acquire(p) \/ Busy(p)
      BY <3>3 DEF Start, Crash, Acquire, Busy, Kept
    <3>4. CASE \/ Preflight(p) \/ FetchFeed(p) \/ Compare(p) \/ Download(p)
               \/ StageFails(p) \/ SwapFails(p) \/ Restart(p) \/ HealthOk(p)
               \/ HealthFails(p) \/ HasPrevious(p)
      BY <3>4 DEF Preflight, FetchFeed, Compare, Download, StageFails,
         SwapFails, Restart, HealthOk, HealthFails, HasPrevious, Kept
    <3>5. CASE \/ Stage(p) \/ Staged(p) \/ Candidate(p) \/ CopyBegins(p)
               \/ CopyFails(p) \/ RollbackProbe(p)
      BY <2>1, <3>5 DEF Stage, Staged, Candidate, CopyBegins, CopyFails,
         RollbackProbe, Write, Kept, Path
    <3> QED
      BY <2>2, <3>1, <3>2, <3>3, <3>4, <3>5 DEF Step
  <2>3. CASE ServiceStarts \/ ServiceDies
    BY <2>3 DEF ServiceStarts, ServiceDies, Kept
  <2>4. CASE OperatorMoves
    BY <2>1, <2>4 DEF OperatorMoves, Rename, Kept, Path
  <2> QED
    BY <2>2, <2>3, <2>4 DEF Next
<1> QED
  BY <1>1, Invariance, PTL DEF Spec, LeftoverKept

----------------------------------------------------------------------------
(* the transaction implements InstallContract *)

\* A step that leaves live, `.prev`, the lock and the base alone is a stutter.
LEMMA Stutter ==
    ASSUME disk'["live"] = disk["live"], disk'["prev"] = disk["prev"],
           UNCHANGED <<lock, base>>
    PROVE  UNCHANGED Contract!cvars
  BY DEF Contract!cvars

\* A run's return closes the transaction.
LEMMA CloseStep ==
    ASSUME IInv, NEW p \in Proc, pc[p] \in LockedPcs,
           NEW o, Exit(p, o),
           disk'["live"] = disk["live"], disk'["prev"] = disk["prev"]
    PROVE  Contract!Next
<1>1. lock = p /\ p # NoProc
  BY InsideRun, ConstantsAssumption
<1> QED
  BY <1>1 DEF Contract!Next, Contract!Close, Exit

LEMMA CopyRefines ==
    ASSUME IInv, NEW p \in Proc, CopyEnds(p)
    PROVE  [Contract!Next]_Contract!cvars
<1>1. PICK c \in Copies :
        /\ pc[p] = c.doing
        /\ disk' = [disk EXCEPT ![c.to] = disk[c.from], !["tmp"] = Absent]
        /\ Goto(p, c.next)
  BY DEF CopyEnds
<1>2. /\ c.doing \in LockedPcs
      /\ c.to \in Path \ {"tmp", "live"} /\ c.from \in {"live", "prev"}
      /\ c.to = "prev" => c.from = "live" /\ c.doing = "preserving"
  BY DEF Copies, LockedPcs, UpdatePcs, RollbackPcs, Path
<1>3. lock = p /\ p # NoProc /\ TypeOK /\ FilesInv(p)
  BY <1>1, <1>2, InsideRun, ConstantsAssumption
<1>4. /\ disk'["live"] = disk["live"]
      /\ c.to # "prev" => disk'["prev"] = disk["prev"]
      /\ c.to = "prev" => disk'["prev"] = disk["live"]
  BY <1>1, <1>2, <1>3 DEF TypeOK, Path
<1>5. CASE c.to = "prev"
  <2>1. disk["live"] = base.live
    BY <1>1, <1>2, <1>3, <1>5 DEF FilesInv, BeforeSwap
  <2> QED
    BY <1>3, <1>4, <1>5, <2>1
       DEF CopyEnds, Running, Contract!Next, Contract!Save
<1>6. CASE c.to # "prev"
  BY <1>4, <1>6, Stutter DEF CopyEnds, Running
<1> QED
  BY <1>5, <1>6

LEMMA SwapRefines ==
    ASSUME IInv, NEW p \in Proc, Swap(p)
    PROVE  Contract!Next
<1>1. pc[p] \in {"swap", "unswap", "rbSwap"} /\ pc[p] \in LockedPcs
  BY DEF Swap, LockedPcs, UpdatePcs, RollbackPcs
<1>2. /\ lock = p /\ p # NoProc /\ TypeOK
      /\ FilesInv(p) /\ UpdateInv(p) /\ RollbackInv(p)
  BY <1>1, InsideRun, ConstantsAssumption
<1>3. /\ disk'["live"] = disk["new"] /\ disk'["prev"] = disk["prev"]
      /\ UNCHANGED <<lock, base>>
  BY <1>2 DEF Swap, Rename, TypeOK, Path, Running
<1>4. CASE pc[p] = "swap"
  <2>1. /\ disk["live"] = base.live /\ disk["prev"] = base.live
        /\ disk["new"] = want[p].bin /\ want[p].bin \in Signed
        /\ Ver[want[p].bin] = want[p].ver /\ Ver[base.live] > 0
        /\ want[p].ver > Ver[base.live]
    BY <1>2, <1>4 DEF FilesInv, UpdateInv, UpdatePcs, AfterCompare,
       HasCandidate, IsCalVer
  <2> QED
    BY <1>2, <1>3, <2>1 DEF Contract!Next, Contract!Install
<1>5. CASE pc[p] = "unswap"
  <2>1. disk["new"] = base.live /\ disk["prev"] = base.live
    BY <1>2, <1>5 DEF UpdateInv, CandidateIsLive
  <2> QED
    BY <1>2, <1>3, <2>1 DEF Contract!Next, Contract!Recover
<1>6. CASE pc[p] = "rbSwap"
  <2>1. /\ disk["live"] = base.live /\ disk["prev"] = base.prev
        /\ disk["new"] = base.prev /\ base.prev # Absent
    BY <1>2, <1>6 DEF FilesInv, BeforeSwap, RollbackInv, RollbackPcs
  <2> QED
    BY <1>2, <1>3, <2>1 DEF Contract!Next, Contract!RollBack
<1> QED
  BY <1>1, <1>4, <1>5, <1>6

LEMMA AnchorRefines ==
    ASSUME IInv, NEW p \in Proc, Anchor(p)
    PROVE  Contract!Next
<1>1. pc[p] = "rbAnchor" /\ pc[p] \in LockedPcs
  BY DEF Anchor, LockedPcs, RollbackPcs
<1>2. lock = p /\ p # NoProc /\ TypeOK /\ RollbackInv(p)
  BY <1>1, InsideRun, ConstantsAssumption
<1>3. CASE UNCHANGED disk /\ Exit(p, "HalfDone")
  BY <1>1, <1>3, CloseStep
<1>4. CASE Rename("displaced", "prev") /\ Running
  <2>1. disk["live"] = base.prev /\ disk["displaced"] = base.live
    BY <1>1, <1>2 DEF RollbackInv
  <2>2. disk'["live"] = disk["live"] /\ disk'["prev"] = base.live
    BY <1>2, <1>4, <2>1 DEF Rename, TypeOK, Path
  <2> QED
    BY <1>2, <1>4, <2>1, <2>2 DEF Running, Contract!Next, Contract!KeepDisplaced
<1> QED
  BY <1>3, <1>4 DEF Anchor

\* The actions that write only `.new` or `.tmp`, or nothing.
LEMMA OtherRefines ==
    ASSUME IInv, NEW p \in Proc,
           \/ Preflight(p) \/ FetchFeed(p) \/ Compare(p) \/ Download(p)
           \/ Stage(p) \/ Staged(p) \/ StageFails(p) \/ Candidate(p)
           \/ CopyBegins(p) \/ CopyFails(p) \/ SwapFails(p) \/ Restart(p)
           \/ HealthOk(p) \/ HealthFails(p) \/ HasPrevious(p)
           \/ RollbackProbe(p) \/ Crash(p)
    PROVE  [Contract!Next]_Contract!cvars
<1>1. pc[p] \in LockedPcs
  BY DEF Preflight, FetchFeed, Compare, Download, Stage, Staged, StageFails,
     Candidate, CopyBegins, CopyFails, SwapFails, Restart, HealthOk,
     HealthFails, HasPrevious, RollbackProbe, Crash, Copies, LockedPcs,
     UpdatePcs, RollbackPcs
<1>2. disk \in [Path -> Content]
  BY DEF IInv, TypeOK
<1>3. disk'["live"] = disk["live"] /\ disk'["prev"] = disk["prev"]
  BY <1>2 DEF Preflight, FetchFeed, Compare, Download, Stage, Staged,
     StageFails, Candidate, CopyBegins, CopyFails, SwapFails, Restart,
     HealthOk, HealthFails, HasPrevious, RollbackProbe, Crash, Write, Path
<1>4. UNCHANGED <<lock, base>> \/ \E o \in Outcomes \union {"none"} : Exit(p, o)
  BY DEF Preflight, FetchFeed, Compare, Download, Stage, Staged, StageFails,
     Candidate, CopyBegins, CopyFails, SwapFails, Restart, HealthOk,
     HealthFails, HasPrevious, RollbackProbe, Crash, Running, Copies,
     Outcomes, UpdateOutcomes, RollbackOutcomes
<1> QED
  BY <1>1, <1>3, <1>4, Stutter, CloseStep

LEMMA EnvironmentRefines ==
    ASSUME IInv, \/ \E p \in Proc : Start(p) \/ Busy(p) \/ Acquire(p)
                 \/ ServiceStarts \/ ServiceDies \/ OperatorMoves
    PROVE  [Contract!Next]_Contract!cvars
<1>1. CASE \/ \E p \in Proc : Start(p) \/ Busy(p)
           \/ ServiceStarts \/ ServiceDies
  BY <1>1, Stutter DEF Start, Busy, ServiceStarts, ServiceDies, Running
<1>2. ASSUME NEW p \in Proc, Acquire(p)
      PROVE  Contract!Next
  BY <1>2 DEF Acquire, Contract!Next, Contract!Open
<1>3. CASE OperatorMoves
  <2>1. /\ disk'["live"] = disk["live"] /\ disk'["prev"] = disk["displaced"]
        /\ disk["displaced"] \in Bin /\ lock = NoProc /\ UNCHANGED <<lock, base>>
    BY <1>3, ConstantsAssumption
       DEF OperatorMoves, Rename, IInv, TypeOK, Path, OnlyTrustedRuns, Trusted
  <2> QED
    BY <2>1 DEF Contract!Next, Contract!PlaceByHand
<1> QED
  BY <1>1, <1>2, <1>3

\* Every behaviour of the transaction, seen through the live executable, the
\* rollback anchor and the lock, is one that InstallContract allows.
THEOREM Implementation == Spec => ImplementsContract
<1>1. Init => Contract!Init
  BY ConstantsAssumption DEF Init, Contract!Init
<1>2. IInv /\ [Next]_vars => [Contract!Next]_Contract!cvars
  <2> SUFFICES ASSUME IInv, [Next]_vars
               PROVE  [Contract!Next]_Contract!cvars
    OBVIOUS
  <2>1. CASE UNCHANGED vars
    BY <2>1, Stutter DEF vars
  <2> QED
    BY <2>1, CopyRefines, SwapRefines, AnchorRefines, OtherRefines,
       EnvironmentRefines DEF Next, Step
<1> QED
  BY <1>1, <1>2, Invariance, PTL DEF Spec, ImplementsContract, Contract!Spec

\* Whatever is killed or fails, only authenticated executables are live,
\* anchored or serving, and no only copy of one is overwritten.
THEOREM BinariesStaySafe == Spec => []BinariesAreSafe
  BY OnlyTrustedRunsHolds, NothingLostHolds, PTL DEF BinariesAreSafe

\* Every reported outcome is true of the files and of the service.
THEOREM ReportsAreTrue == Spec => []ReportIsTrue
  BY OutcomeIsTrueHolds, VerifiedServingHolds, PTL DEF ReportIsTrue

\* No run goes back, nor over what an earlier one left behind.
THEOREM RunsStayOrderly == Spec => RunsAreOrderly
  BY LeftoverKeptHolds, RunsEnd, PTL DEF RunsAreOrderly
=============================================================================

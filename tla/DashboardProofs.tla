-------------------------- MODULE DashboardProofs --------------------------
(***************************************************************************)
(* Proofs about the dashboard: its page, for any tiles, any length of the  *)
(* undo history and any number of edits, changes, Full views and readings; *)
(* and its containers panel, for any names of hosts and containers.        *)
(***************************************************************************)
EXTENDS Dashboard, Containers, SequenceTheorems, TLAPS

----------------------------------------------------------------------------
(* The inductive invariant.                                                *)

Snapshot == [revision : Nat, layout : SUBSET Tile, shared : Nat]

saving == call.kind \in {"edit", "undo"}

\* An answer is in: of the call under way, of the read under way.
CallIsDone == busy /\ call.st = "done"
ViewIsIn   == view.st = "answered"

CallTypeOK ==
    /\ call.kind \in {"none", "edit", "undo", "change"}
    /\ busy => call.st \in {"asked", "done", "failed"}
    /\ saving /\ call.st = "asked" => call.next \in SUBSET Tile
    /\ CallIsDone => call.answer \in Snapshot

ViewTypeOK ==
    /\ view.st \in {"none", "asked", "answered"}
    /\ pending => view.version \in 0..acknowledgementVersion
    /\ ViewIsIn => view.answer \in Snapshot

HistoryTypeOK ==
    /\ undo \in Seq(SUBSET Tile) /\ trail \in Seq(SUBSET Tile)
    /\ unheard \in BOOLEAN

FullTypeOK ==
    /\ fullTile \in Tile \cup {NoTile} /\ body \in Tile \cup {NoTile}
    /\ loaded \in BOOLEAN /\ fullGeneration \in Nat
    /\ panelReads \in
         SUBSET [tile : Tile, generation : Nat, st : {"asked", "rows", "refused"}]

OverviewTypeOK ==
    /\ stored \in Snapshot /\ model \in Snapshot
    /\ acknowledgementVersion \in Nat
    /\ CallTypeOK
    /\ ViewTypeOK
    /\ HistoryTypeOK

\* Of two readings of the store, b is the later, or the same.
NotBefore(b, a) ==
    /\ a.revision <= b.revision /\ a.shared <= b.shared
    /\ a.revision = b.revision => a.layout = b.layout

\* All that was read from the store was read from it, and what a call answers
\* is later than what the page shows.
AnswersAreOfTheStore ==
    /\ NotBefore(stored, model)
    /\ ViewIsIn => NotBefore(stored, view.answer)
    /\ CallIsDone => NotBefore(stored, call.answer) /\ NotBefore(call.answer, model)

\* The layout an edit replaces is the one shown, for the page paints nothing
\* while it saves.
EditsAreOfWhatIsShown ==
    saving /\ call.st \in {"asked", "done"} =>
        /\ call.before = model
        /\ call.st = "done" => call.answer.revision = model.revision + 1

\* A read's answer that went back is older by its revision, or was asked for
\* before a change: it will not be painted.
ToldFromOlder(shown) ==
    \/ view.version # acknowledgementVersion
    \/ view.answer.revision < shown.revision
    \/ view.answer.shared >= shown.shared

OlderReadsAreTold ==
    /\ ViewIsIn => ToldFromOlder(model)
    /\ ViewIsIn /\ saving /\ call.st = "done" => ToldFromOlder(call.answer)
    /\ pending /\ call.kind = "change" => view.version # acknowledgementVersion

\* What the history will be once the call under way is answered is a suffix
\* of the trail already.
Expected ==
    IF ~saving \/ call.st # "done" THEN undo
    ELSE IF call.kind = "undo" THEN Forgotten ELSE Append(undo, call.before.layout)

HistoryIsOfTheTrail ==
    /\ ~unheard => IsSuffix(Expected, trail)
    /\ call.kind = "edit" /\ call.st = "done" =>
         IsSuffix(<<call.before.layout>>, trail)
    /\ call.kind = "undo" => undo # <<>>

\* A reading of the Full view that is open is of its tile.
ReadingsAreOfTheirView ==
    \A r \in panelReads :
        /\ r.generation <= fullGeneration
        /\ r.generation = fullGeneration /\ fullTile # NoTile => r.tile = fullTile

\* The overview and its edits; the Full view of a tile.
OverviewInv ==
    /\ OverviewTypeOK
    /\ AnswersAreOfTheStore
    /\ EditsAreOfWhatIsShown
    /\ OlderReadsAreTold
    /\ HistoryIsOfTheTrail

FullInv ==
    /\ FullTypeOK
    /\ ReadingsAreOfTheirView
    /\ BodyIsOfTheTile

PageInv == OverviewInv /\ FullInv

----------------------------------------------------------------------------
(* Sequences of which one is a suffix of the other.                        *)

\* A suffix is the other's end, item by item.
LEMMA SuffixPoints ==
    ASSUME NEW S, NEW s \in Seq(S), NEW t \in Seq(S)
    PROVE  IsSuffix(s, t) <=>
             /\ Len(s) <= Len(t)
             /\ \A i \in 1..Len(s) : s[i] = t[Len(t) - Len(s) + i]
<1> SUFFICES ASSUME Len(s) <= Len(t)
             PROVE  s = SubSeq(t, Len(t) - Len(s) + 1, Len(t))
                      <=> \A i \in 1..Len(s) : s[i] = t[Len(t) - Len(s) + i]
  BY DEF IsSuffix
<1> DEFINE last == SubSeq(t, Len(t) - Len(s) + 1, Len(t))
<1>1. /\ last \in Seq(S) /\ Len(last) = Len(s)
      /\ \A i \in 1..Len(s) : last[i] = t[Len(t) - Len(s) + i]
  OBVIOUS
<1>2. s = last <=> \A i \in 1..Len(s) : s[i] = last[i]
  BY <1>1, SeqEqual
<1> QED
  BY <1>1, <1>2

\* What an edit adds at both ends keeps the one a suffix of the other.
LEMMA SuffixAppend ==
    ASSUME NEW S, NEW s \in Seq(S), NEW t \in Seq(S), NEW x \in S, IsSuffix(s, t)
    PROVE  IsSuffix(Append(s, x), Append(t, x))
<1> DEFINE u == Append(s, x)
           v == Append(t, x)
<1>1. /\ Len(s) <= Len(t)
      /\ \A i \in 1..Len(s) : s[i] = t[Len(t) - Len(s) + i]
  BY SuffixPoints
<1>2. /\ u \in Seq(S) /\ v \in Seq(S)
      /\ Len(u) = Len(s) + 1 /\ Len(v) = Len(t) + 1
      /\ \A i \in 1..Len(s) : u[i] = s[i]
      /\ \A i \in 1..Len(t) : v[i] = t[i]
      /\ u[Len(s) + 1] = x /\ v[Len(t) + 1] = x
  OBVIOUS
<1> HIDE DEF u, v
<1>3. ASSUME NEW i \in 1..Len(u)
      PROVE  u[i] = v[Len(v) - Len(u) + i]
  <2>1. CASE i = Len(s) + 1
    BY <1>2, <2>1
  <2>2. CASE i \in 1..Len(s)
    <3>1. /\ Len(t) - Len(s) + i \in 1..Len(t)
          /\ Len(v) - Len(u) + i = Len(t) - Len(s) + i
      BY <1>1, <1>2, <2>2
    <3> QED
      BY <1>1, <1>2, <2>2, <3>1
  <2> QED
    BY <1>2, <2>1, <2>2
<1>4. Len(u) <= Len(v)
  BY <1>1, <1>2
<1>5. IsSuffix(u, v)
  BY <1>2, <1>3, <1>4, SuffixPoints
<1> QED
  BY <1>5 DEF u, v

\* What is left of a history without its last item.
LEMMA FrontIsShorter ==
    ASSUME NEW S, NEW w \in Seq(S), Len(w) >= 1
    PROVE  /\ SubSeq(w, 1, Len(w) - 1) \in Seq(S)
           /\ Len(SubSeq(w, 1, Len(w) - 1)) = Len(w) - 1
           /\ \A i \in 1..Len(w) - 1 : SubSeq(w, 1, Len(w) - 1)[i] = w[i]
<1> DEFINE n == Len(w) - 1
<1>1. /\ 1 \in Int /\ n \in Nat /\ n \in Int /\ n - 1 + 1 = n
      /\ \A i \in 1..n : w[i] \in S /\ 1 + i - 1 = i
  OBVIOUS
<1> HIDE DEF n
<1>2. /\ SubSeq(w, 1, n) \in Seq(S)
      /\ Len(SubSeq(w, 1, n)) = IF 1 <= n THEN n - 1 + 1 ELSE 0
      /\ \A i \in 1..n - 1 + 1 : SubSeq(w, 1, n)[i] = w[1 + i - 1]
  BY <1>1, SubSeqProperties
<1>3. /\ SubSeq(w, 1, n) \in Seq(S) /\ Len(SubSeq(w, 1, n)) = n
      /\ \A i \in 1..n : SubSeq(w, 1, n)[i] = w[i]
  BY <1>1, <1>2
<1> QED
  BY <1>3 DEF n

\* So does dropping the last item of both.
LEMMA SuffixFront ==
    ASSUME NEW S, NEW s \in Seq(S), NEW t \in Seq(S), s # <<>>, IsSuffix(s, t)
    PROVE  IsSuffix(SubSeq(s, 1, Len(s) - 1), SubSeq(t, 1, Len(t) - 1))
<1> DEFINE u == SubSeq(s, 1, Len(s) - 1)
           v == SubSeq(t, 1, Len(t) - 1)
<1>1. /\ Len(s) >= 1 /\ Len(s) <= Len(t)
      /\ \A i \in 1..Len(s) : s[i] = t[Len(t) - Len(s) + i]
  BY SuffixPoints, EmptySeq
<1>2. /\ u \in Seq(S) /\ Len(u) = Len(s) - 1
      /\ \A i \in 1..Len(s) - 1 : u[i] = s[i]
  BY <1>1, FrontIsShorter
<1>3. /\ v \in Seq(S) /\ Len(v) = Len(t) - 1
      /\ \A i \in 1..Len(t) - 1 : v[i] = t[i]
  BY <1>1, FrontIsShorter
<1> HIDE DEF u, v
<1>4. ASSUME NEW i \in 1..Len(u)
      PROVE  u[i] = v[Len(v) - Len(u) + i]
  <2>1. /\ i \in 1..Len(s) /\ i \in 1..Len(s) - 1
        /\ Len(v) - Len(u) + i = Len(t) - Len(s) + i
        /\ Len(t) - Len(s) + i \in 1..Len(t) - 1
    BY <1>1, <1>2, <1>3
  <2> QED
    BY <1>1, <1>2, <1>3, <2>1
<1>5. Len(u) <= Len(v)
  BY <1>1, <1>2, <1>3
<1>6. IsSuffix(u, v)
  BY <1>2, <1>3, <1>4, <1>5, SuffixPoints
<1> QED
  BY <1>6 DEF u, v

\* The oldest item may be forgotten.
LEMMA SuffixTail ==
    ASSUME NEW S, NEW s \in Seq(S), NEW t \in Seq(S), s # <<>>, IsSuffix(s, t)
    PROVE  IsSuffix(Tail(s), t)
<1> DEFINE u == Tail(s)
<1>1. /\ Len(s) >= 1 /\ Len(s) <= Len(t)
      /\ \A i \in 1..Len(s) : s[i] = t[Len(t) - Len(s) + i]
  BY SuffixPoints, EmptySeq
<1>2. /\ u \in Seq(S) /\ Len(u) = Len(s) - 1
      /\ \A i \in 1..Len(s) - 1 : u[i] = s[i + 1]
  BY <1>1
<1> HIDE DEF u
<1>3. ASSUME NEW i \in 1..Len(u)
      PROVE  u[i] = t[Len(t) - Len(u) + i]
  <2>1. /\ i \in 1..Len(s) - 1 /\ i + 1 \in 1..Len(s)
        /\ Len(t) - Len(u) + i = Len(t) - Len(s) + (i + 1)
    BY <1>1, <1>2
  <2> QED
    BY <1>1, <1>2, <2>1
<1>4. Len(u) <= Len(t)
  BY <1>1, <1>2
<1>5. IsSuffix(u, t)
  BY <1>2, <1>3, <1>4, SuffixPoints
<1> QED
  BY <1>5 DEF u

\* Nothing is a suffix of everything, and the last item of what it ends.
LEMMA SuffixShort ==
    ASSUME NEW S, NEW t \in Seq(S), NEW x \in S
    PROVE  /\ IsSuffix(<<>>, t)
           /\ IsSuffix(<<x>>, Append(t, x))
           /\ <<x>> = Append(<<>>, x)
<1>1. <<>> \in Seq(S) /\ Len(<<>>) = 0
  OBVIOUS
<1>2. IsSuffix(<<>>, t)
  <2>1. SubSeq(t, Len(t) + 1, Len(t)) = <<>>
    BY SubSeqEmpty
  <2> QED
    BY <1>1, <2>1 DEF IsSuffix
<1>3. <<x>> = Append(<<>>, x)
  OBVIOUS
<1> QED
  BY <1>1, <1>2, <1>3, SuffixAppend

----------------------------------------------------------------------------
(* The first state.                                                        *)

LEMMA DashInitInv == DashInit => PageInv
<1> SUFFICES ASSUME DashInit
             PROVE  PageInv
  OBVIOUS
<1>1. /\ call.kind = "none" /\ view.st = "none" /\ ~saving /\ ~busy /\ ~pending /\ ~ViewIsIn
      /\ ~CallIsDone
  BY DEF DashInit, NoCall, NoView, saving, busy, pending, ViewIsIn, CallIsDone
<1>2. stored \in Snapshot /\ model = stored
  BY DEF DashInit, Snapshot
<1>3. OverviewTypeOK
  <2>1. CallTypeOK /\ ViewTypeOK
    BY <1>1 DEF CallTypeOK, ViewTypeOK
  <2>2. undo \in Seq(SUBSET Tile) /\ trail \in Seq(SUBSET Tile) /\ acknowledgementVersion \in Nat
    BY DEF DashInit
  <2>3. unheard \in BOOLEAN
    BY Zenon DEF DashInit
  <2> QED
    BY <1>2, <2>1, <2>2, <2>3 DEF OverviewTypeOK, HistoryTypeOK
<1>4. AnswersAreOfTheStore
  BY <1>1, <1>2 DEF AnswersAreOfTheStore, NotBefore, Snapshot
<1>5. EditsAreOfWhatIsShown /\ OlderReadsAreTold
  BY <1>1 DEF EditsAreOfWhatIsShown, OlderReadsAreTold
<1>6. HistoryIsOfTheTrail
  <2>1. undo = <<>> /\ trail = <<>> /\ trail \in Seq({1})
    BY DEF DashInit
  <2>2. IsSuffix(undo, trail)
    BY <2>1, SuffixShort
  <2> QED
    BY <1>1, <2>2 DEF HistoryIsOfTheTrail, Expected
<1>7. FullInv
  <2>1. loaded \in BOOLEAN
    BY Zenon DEF DashInit
  <2>2. /\ fullTile = NoTile /\ body = NoTile /\ fullGeneration \in Nat /\ panelReads = {}
    BY DEF DashInit
  <2> QED
    BY <2>1, <2>2 DEF FullInv, FullTypeOK, ReadingsAreOfTheirView, BodyIsOfTheTile
<1> QED
  BY <1>3, <1>4, <1>5, <1>6, <1>7 DEF PageInv, OverviewInv

----------------------------------------------------------------------------
(* The Full view.                                                          *)

LEMMA FullStays ==
    ASSUME FullInv, UNCHANGED <<fullVars, model>>
    PROVE  FullInv'
  BY DEF FullInv, FullTypeOK, ReadingsAreOfTheirView, BodyIsOfTheTile, fullVars

\* A Full view that is left leaves no reading of the generation to come.
LEMMA FullLeft ==
    ASSUME FullInv, fullTile' = NoTile, fullGeneration' = NextGeneration, loaded' = FALSE,
           UNCHANGED <<body, panelReads>>
    PROVE  FullInv'
<1>1. loaded' \in BOOLEAN
  BY Zenon
<1>2. FullTypeOK'
  BY <1>1 DEF FullInv, FullTypeOK, NextGeneration
<1>3. ReadingsAreOfTheirView' /\ BodyIsOfTheTile'
  BY DEF FullInv, FullTypeOK, ReadingsAreOfTheirView, BodyIsOfTheTile, NextGeneration
<1> QED
  BY <1>2, <1>3 DEF FullInv

\* Whatever layout is painted, the Full view of a tile that it hides is left.
FullIsRendered ==
    IF TileGone
    THEN /\ fullTile' = NoTile /\ fullGeneration' = NextGeneration
         /\ loaded' = FALSE /\ UNCHANGED <<body, panelReads>>
    ELSE UNCHANGED fullVars

LEMMA FullRendered ==
    ASSUME FullInv, FullIsRendered
    PROVE  FullInv'
<1>1. CASE TileGone
  BY <1>1, FullLeft DEF FullIsRendered
<1>2. CASE ~TileGone
  <2>1. UNCHANGED fullVars
    BY <1>2 DEF FullIsRendered
  <2>2. FullTypeOK' /\ ReadingsAreOfTheirView'
    BY <2>1 DEF FullInv, FullTypeOK, ReadingsAreOfTheirView, fullVars
  <2>3. BodyIsOfTheTile'
    BY <1>2, <2>1 DEF FullInv, TileGone, BodyIsOfTheTile, fullVars
  <2> QED
    BY <2>2, <2>3 DEF FullInv
<1> QED
  BY <1>1, <1>2

\* The first reading of a Full view is asked for under its own generation.
LEMMA OpenFullKeeps ==
    ASSUME FullInv, OverviewTypeOK, NEW t \in Tile, OpenFull(t)
    PROVE  FullInv'
<1>1. /\ fullTile' = t /\ loaded' = FALSE /\ fullGeneration' = fullGeneration + 1
      /\ panelReads' = panelReads \cup {Reading(t, fullGeneration + 1)}
      /\ body' = body /\ model' = model /\ t \in model.layout
  BY DEF OpenFull, NextGeneration, pageVars
<1>2. /\ Reading(t, fullGeneration + 1) \in
           [tile : Tile, generation : Nat, st : {"asked", "rows", "refused"}]
      /\ Reading(t, fullGeneration + 1).tile = t
      /\ Reading(t, fullGeneration + 1).generation = fullGeneration + 1
  BY DEF FullInv, FullTypeOK, Reading
<1>3. loaded' \in BOOLEAN
  BY <1>1, Zenon
<1>4. FullTypeOK'
  BY <1>1, <1>2, <1>3 DEF FullInv, FullTypeOK
<1>5. ReadingsAreOfTheirView'
  BY <1>1, <1>2 DEF FullInv, FullTypeOK, ReadingsAreOfTheirView
<1>6. BodyIsOfTheTile'
  BY <1>1 DEF BodyIsOfTheTile
<1> QED
  BY <1>4, <1>5, <1>6 DEF FullInv

LEMMA PanelTickKeeps ==
    ASSUME FullInv, PanelTick
    PROVE  FullInv'
<1>1. /\ fullTile # NoTile /\ UNCHANGED <<fullTile, fullGeneration, loaded, body, model>>
      /\ panelReads' = panelReads \cup {Reading(fullTile, fullGeneration)}
  BY DEF PanelTick, pageVars
<1>2. /\ Reading(fullTile, fullGeneration) \in
           [tile : Tile, generation : Nat, st : {"asked", "rows", "refused"}]
      /\ Reading(fullTile, fullGeneration).tile = fullTile
      /\ Reading(fullTile, fullGeneration).generation = fullGeneration
  BY <1>1 DEF FullInv, FullTypeOK, Reading
<1>3. FullTypeOK'
  BY <1>1, <1>2 DEF FullInv, FullTypeOK
<1>4. ReadingsAreOfTheirView' /\ BodyIsOfTheTile'
  BY <1>1, <1>2 DEF FullInv, FullTypeOK, ReadingsAreOfTheirView, BodyIsOfTheTile
<1> QED
  BY <1>3, <1>4 DEF FullInv

LEMMA PanelRunsKeeps ==
    ASSUME FullInv, PanelRuns
    PROVE  FullInv'
<1> PICK r \in panelReads : \E st \in {"rows", "refused"} :
          panelReads' = (panelReads \ {r}) \cup {[r EXCEPT !.st = st]}
  BY DEF PanelRuns
<1> PICK st \in {"rows", "refused"} :
          panelReads' = (panelReads \ {r}) \cup {[r EXCEPT !.st = st]}
  OBVIOUS
<1> DEFINE q == [r EXCEPT !.st = st]
<1>1. UNCHANGED <<fullTile, fullGeneration, loaded, body, model>>
  BY DEF PanelRuns, pageVars
<1>2. /\ q \in [tile : Tile, generation : Nat, st : {"asked", "rows", "refused"}]
      /\ q.tile = r.tile /\ q.generation = r.generation
  BY DEF FullInv, FullTypeOK
<1>3. panelReads' = (panelReads \ {r}) \cup {q}
  OBVIOUS
<1> HIDE DEF q
<1>4. FullTypeOK'
  BY <1>1, <1>2, <1>3 DEF FullInv, FullTypeOK
<1>5. ReadingsAreOfTheirView' /\ BodyIsOfTheTile'
  BY <1>1, <1>2, <1>3 DEF FullInv, FullTypeOK, ReadingsAreOfTheirView, BodyIsOfTheTile
<1> QED
  BY <1>4, <1>5 DEF FullInv

\* A reading that is painted is of the Full view that is open, if one is.
LEMMA GotReadingKeeps ==
    ASSUME FullInv, GotReading
    PROVE  FullInv'
<1> PICK r \in panelReads :
        /\ IF r.st = "rows" /\ r.generation = fullGeneration
           THEN loaded' = (loaded \/ fullTile = r.tile) /\ body' = r.tile
           ELSE UNCHANGED <<loaded, body>>
        /\ panelReads' = panelReads \ {r}
  BY DEF GotReading
<1>1. UNCHANGED <<fullTile, fullGeneration, model>>
  BY DEF GotReading, pageVars
<1>2. r.tile \in Tile /\ r.generation \in Nat
  BY DEF FullInv, FullTypeOK
<1>3. /\ loaded' \in BOOLEAN /\ body' \in {body, r.tile}
      /\ body' # body => r.generation = fullGeneration
      /\ loaded' /\ ~loaded => body' = r.tile /\ fullTile = r.tile
  BY Zenon DEF FullInv, FullTypeOK
<1>4. FullTypeOK'
  BY <1>1, <1>2, <1>3 DEF FullInv, FullTypeOK
<1>5. ReadingsAreOfTheirView'
  BY <1>1 DEF FullInv, ReadingsAreOfTheirView
<1>6. fullTile # NoTile => fullTile \in model.layout
  BY DEF FullInv, BodyIsOfTheTile
<1>7. ASSUME fullTile # NoTile, loaded'
      PROVE  body' = fullTile
  <2>1. r.generation = fullGeneration => r.tile = fullTile
    BY <1>7 DEF FullInv, ReadingsAreOfTheirView
  <2>2. CASE loaded
    BY <1>3, <1>7, <2>1, <2>2 DEF FullInv, BodyIsOfTheTile
  <2>3. CASE ~loaded
    BY <1>3, <1>7, <2>3
  <2> QED
    BY <2>2, <2>3
<1>8. BodyIsOfTheTile'
  BY <1>1, <1>6, <1>7 DEF BodyIsOfTheTile
<1> QED
  BY <1>4, <1>5, <1>8 DEF FullInv

----------------------------------------------------------------------------
(* The overview: asking for a read, and its answer.                        *)

\* A read of the overview is asked for, or what was under way stays; none is
\* asked for while an edit or a change is under way.
AsksAtMost ==
    \/ view' = view
    \/ ~busy' /\ view'.st = "asked" /\ view'.version = acknowledgementVersion

\* What the history is compared by changes only with these.
LEMMA HistoryStays ==
    ASSUME HistoryIsOfTheTrail, UNCHANGED <<call, undo, trail, unheard>>
    PROVE  HistoryIsOfTheTrail'
  BY DEF HistoryIsOfTheTrail, Expected, Forgotten, saving, IsSuffix

LEMMA AskedIsTyped ==
    ASSUME OverviewTypeOK, AsksAtMost, UNCHANGED acknowledgementVersion
    PROVE  /\ ViewTypeOK'
           /\ ViewIsIn' => ViewIsIn /\ view' = view
           /\ pending' /\ busy' => pending /\ view' = view
  BY DEF OverviewTypeOK, ViewTypeOK, AsksAtMost, pending, ViewIsIn

LEMMA AskingKeeps ==
    ASSUME OverviewInv, AsksAtMost,
           UNCHANGED <<stored, pageVars, call, trail, unheard>>
    PROVE  OverviewInv'
<1>1. /\ UNCHANGED <<stored, model, undo, acknowledgementVersion, call, trail, unheard>>
      /\ OverviewTypeOK
  BY DEF pageVars, OverviewInv
<1>2. /\ ViewTypeOK'
      /\ ViewIsIn' => ViewIsIn /\ view' = view
      /\ pending' /\ busy' => pending /\ view' = view
  BY <1>1, AskedIsTyped
<1>3. OverviewTypeOK'
  BY <1>1, <1>2 DEF OverviewTypeOK, CallTypeOK, HistoryTypeOK, busy, saving, CallIsDone
<1>4. AnswersAreOfTheStore' /\ EditsAreOfWhatIsShown'
  BY <1>1, <1>2 DEF OverviewInv, AnswersAreOfTheStore, EditsAreOfWhatIsShown, busy, saving,
                    CallIsDone
<1>5. OlderReadsAreTold'
  BY <1>1, <1>2 DEF OverviewInv, OlderReadsAreTold, ToldFromOlder, busy, saving
<1>6. HistoryIsOfTheTrail'
  BY <1>1, HistoryStays DEF OverviewInv
<1> QED
  BY <1>3, <1>4, <1>5, <1>6 DEF OverviewInv

\* What a read finds in the store is as late as all that was read before.
LEMMA ViewRunsKeeps ==
    ASSUME OverviewInv, ViewRuns
    PROVE  OverviewInv'
<1>1. /\ UNCHANGED <<stored, model, undo, acknowledgementVersion, call, trail, unheard>>
      /\ OverviewTypeOK
  BY DEF ViewRuns, pageVars, OverviewInv
<1>2. /\ view.st = "asked" /\ view'.st = "answered"
      /\ view'.answer = stored /\ view'.version = view.version
  BY DEF ViewRuns
<1>3. OverviewTypeOK'
  BY <1>1, <1>2 DEF OverviewTypeOK, CallTypeOK, ViewTypeOK, HistoryTypeOK, busy, saving,
                    CallIsDone, pending, ViewIsIn
<1>4. AnswersAreOfTheStore' /\ EditsAreOfWhatIsShown'
  BY <1>1, <1>2 DEF OverviewInv, OverviewTypeOK, Snapshot, AnswersAreOfTheStore, NotBefore,
                    EditsAreOfWhatIsShown, busy, saving, CallIsDone, ViewIsIn
<1>5. OlderReadsAreTold'
  BY <1>1, <1>2 DEF OverviewInv, AnswersAreOfTheStore, NotBefore, CallIsDone,
                    OlderReadsAreTold, ToldFromOlder, busy, saving, pending
<1>6. HistoryIsOfTheTrail'
  BY <1>1, HistoryStays DEF OverviewInv
<1> QED
  BY <1>3, <1>4, <1>5, <1>6 DEF OverviewInv

\* With no history there is nothing to compare, but for an edit that is made.
LEMMA HistoryMayGo ==
    ASSUME OverviewInv, undo' \in {<<>>, undo}, undo' # undo => ~busy,
           unheard' = (unheard /\ undo' # <<>>), UNCHANGED <<call, trail>>
    PROVE  HistoryIsOfTheTrail'
<1>1. /\ undo \in Seq(SUBSET Tile) /\ trail \in Seq(SUBSET Tile)
      /\ HistoryIsOfTheTrail
  BY DEF OverviewInv, OverviewTypeOK, HistoryTypeOK
<1>2. CASE undo' = undo /\ unheard' = unheard
  BY <1>1, <1>2, HistoryStays
<1>3. CASE undo' = <<>>
  <2>1. IsSuffix(<<>>, trail)
    BY <1>1, SuffixShort
  <2>2. call.kind = "undo" => undo' # <<>>
    BY <1>1, <1>3 DEF HistoryIsOfTheTrail, busy
  <2>3. CASE call.kind = "edit" /\ call.st = "done"
    <3>1. call.before.layout \in SUBSET Tile
      BY <2>3 DEF OverviewInv, OverviewTypeOK, Snapshot, EditsAreOfWhatIsShown, saving
    <3>2. Append(<<>>, call.before.layout) = <<call.before.layout>>
      BY <1>1, <3>1, SuffixShort
    <3>3. IsSuffix(<<call.before.layout>>, trail)
      BY <1>1, <2>3 DEF HistoryIsOfTheTrail
    <3>4. Expected' = <<call.before.layout>>
      BY <1>3, <2>3, <3>2 DEF Expected, saving
    <3> QED
      BY <2>3, <3>3, <3>4 DEF HistoryIsOfTheTrail, IsSuffix
  <2>4. CASE ~(call.kind = "edit" /\ call.st = "done")
    <3>1. Expected' = <<>>
      BY <1>3, <2>2, <2>4 DEF Expected, saving
    <3> QED
      BY <2>1, <2>2, <2>4, <3>1 DEF HistoryIsOfTheTrail, IsSuffix
  <2> QED
    BY <2>3, <2>4
<1>4. (undo' = undo /\ unheard' = unheard) \/ undo' = <<>>
  BY Zenon DEF OverviewInv, OverviewTypeOK, HistoryTypeOK
<1> QED
  BY <1>2, <1>3, <1>4

\* What is painted is not of before what is shown: it has its version and is
\* not of an older revision, so that it is not of older shared settings either.
LEMMA PaintedIsNotOlder ==
    ASSUME OverviewInv, view.st = "answered", Paintable(view)
    PROVE  /\ ~busy /\ view.answer \in Snapshot
           /\ model.revision <= view.answer.revision /\ model.shared <= view.answer.shared
           /\ NotBefore(stored, view.answer)
<1>1. model \in Snapshot /\ view.answer \in Snapshot
  BY DEF OverviewInv, OverviewTypeOK, ViewTypeOK, ViewIsIn
<1>2. /\ ~busy /\ view.version = acknowledgementVersion
      /\ ~(view.answer.revision < model.revision)
  BY DEF Paintable, IsOfBefore, IsOlder
<1>3. ToldFromOlder(model) /\ NotBefore(stored, view.answer)
  BY DEF OverviewInv, OlderReadsAreTold, AnswersAreOfTheStore, ViewIsIn
<1> QED
  BY <1>1, <1>2, <1>3 DEF ToldFromOlder, Snapshot

LEMMA GotViewKeeps ==
    ASSUME OverviewInv, GotView
    PROVE  OverviewInv'
<1>1. /\ UNCHANGED <<stored, acknowledgementVersion, call, trail>>
      /\ view.st = "answered" /\ view' = NoView
      /\ unheard' = (unheard /\ undo' # <<>>)
      /\ OverviewTypeOK
  BY DEF GotView, OverviewInv
<1>2. \/ Paintable(view) /\ model' = view.answer /\ undo' \in {<<>>, undo}
      \/ model' = model /\ undo' = undo
  BY Zenon DEF GotView
<1>3. view'.st = "none" /\ ~pending' /\ ~ViewIsIn'
  BY <1>1 DEF NoView, pending, ViewIsIn
<1>4. model' \in Snapshot /\ NotBefore(stored, model') /\ (busy => model' = model /\ undo' = undo)
  BY <1>1, <1>2, PaintedIsNotOlder DEF OverviewInv, OverviewTypeOK, AnswersAreOfTheStore
<1>5. undo' \in {<<>>, undo} /\ undo' \in Seq(SUBSET Tile)
  <2>1. undo \in Seq(SUBSET Tile) /\ <<>> \in Seq(SUBSET Tile)
    BY <1>1 DEF OverviewTypeOK, HistoryTypeOK
  <2>2. undo' = <<>> \/ undo' = undo
    BY <1>2
  <2> QED
    BY <2>1, <2>2
<1>6. unheard' \in BOOLEAN
  BY <1>1, Zenon
<1>7. OverviewTypeOK'
  BY <1>1, <1>3, <1>4, <1>5, <1>6
     DEF OverviewTypeOK, CallTypeOK, ViewTypeOK, HistoryTypeOK, busy, saving, CallIsDone
<1>8. AnswersAreOfTheStore' /\ EditsAreOfWhatIsShown'
  BY <1>1, <1>3, <1>4 DEF OverviewInv, AnswersAreOfTheStore, EditsAreOfWhatIsShown, busy,
                          saving, CallIsDone
<1>9. OlderReadsAreTold'
  BY <1>3 DEF OlderReadsAreTold
<1>10. HistoryIsOfTheTrail'
  BY <1>1, <1>4, <1>5, HistoryMayGo
<1> QED
  BY <1>7, <1>8, <1>9, <1>10 DEF OverviewInv

\* An edit, or an undo of one, is asked for from what is shown.
LEMMA SaveKeeps ==
    ASSUME OverviewInv, NEW kind \in {"edit", "undo"}, NEW layout \in SUBSET Tile,
           Save(kind, layout), kind = "undo" => undo # <<>>
    PROVE  OverviewInv'
<1>1. /\ UNCHANGED <<stored, model, undo, acknowledgementVersion, view, trail, unheard>>
      /\ ~busy /\ OverviewTypeOK
  BY DEF Save, pageVars, OverviewInv
<1>2. /\ call'.kind = kind /\ call'.st = "asked" /\ call'.next = layout
      /\ call'.before = model
  BY DEF Save
<1>3. OverviewTypeOK'
  <2>1. CallTypeOK'
    BY <1>2 DEF CallTypeOK, busy, saving, CallIsDone
  <2>2. ViewTypeOK' /\ HistoryTypeOK'
    BY <1>1 DEF OverviewTypeOK, ViewTypeOK, HistoryTypeOK, pending, ViewIsIn
  <2> QED
    BY <1>1, <2>1, <2>2 DEF OverviewTypeOK
<1>4. AnswersAreOfTheStore' /\ EditsAreOfWhatIsShown' /\ OlderReadsAreTold'
  BY <1>1, <1>2 DEF OverviewInv, AnswersAreOfTheStore, EditsAreOfWhatIsShown, CallIsDone,
                    OlderReadsAreTold, ToldFromOlder, busy, saving, pending, ViewIsIn
<1>5. HistoryIsOfTheTrail'
  <2>1. Expected' = undo /\ Expected = undo
    BY <1>1, <1>2 DEF Expected, saving, busy
  <2> QED
    BY <1>1, <1>2, <2>1 DEF OverviewInv, HistoryIsOfTheTrail, IsSuffix
<1> QED
  BY <1>3, <1>4, <1>5 DEF OverviewInv

\* An edit of the revision in the store replaces the layout that is shown.
LEMMA PersistsWhatIsShown ==
    ASSUME OverviewInv, saving, call.st = "asked", MayPersist(call.before)
    PROVE  call.before = model /\ model.revision = stored.revision
           /\ model.layout = stored.layout
<1>1. call.before = model
  BY DEF OverviewInv, EditsAreOfWhatIsShown
<1> QED
  BY <1>1 DEF OverviewInv, AnswersAreOfTheStore, NotBefore, MayPersist

LEMMA SaveRunsKeeps ==
    ASSUME OverviewInv, SaveRuns
    PROVE  OverviewInv'
<1>1. /\ UNCHANGED <<model, undo, acknowledgementVersion, view, unheard>>
      /\ saving /\ call.st = "asked" /\ OverviewTypeOK
  BY DEF SaveRuns, pageVars, OverviewInv, saving
<1>2. CASE call' = [kind |-> call.kind, st |-> "failed"] /\ UNCHANGED <<stored, trail>>
  <2>1. call'.kind = call.kind /\ call'.st = "failed" /\ UNCHANGED <<stored, trail>>
    BY <1>2
  <2>2. OverviewTypeOK'
    BY <1>1, <2>1 DEF OverviewTypeOK, CallTypeOK, ViewTypeOK, HistoryTypeOK, busy, saving,
                      CallIsDone, pending, ViewIsIn
  <2>3. AnswersAreOfTheStore' /\ EditsAreOfWhatIsShown' /\ OlderReadsAreTold'
    BY <1>1, <2>1 DEF OverviewInv, AnswersAreOfTheStore, EditsAreOfWhatIsShown, CallIsDone,
                      OlderReadsAreTold, ToldFromOlder, busy, saving, pending, ViewIsIn
  <2>4. Expected' = undo /\ Expected = undo
    BY <1>1, <2>1 DEF Expected, saving
  <2>5. HistoryIsOfTheTrail'
    BY <1>1, <2>1, <2>4 DEF OverviewInv, HistoryIsOfTheTrail, IsSuffix
  <2> QED
    BY <2>2, <2>3, <2>5 DEF OverviewInv
<1>3. CASE /\ MayPersist(call.before)
           /\ stored' = [stored EXCEPT !.revision = @ + 1, !.layout = call.next]
           /\ trail' = IF call.kind = "edit" THEN Append(trail, stored.layout)
                       ELSE SubSeq(trail, 1, Len(trail) - 1)
           /\ call' = [kind |-> call.kind, st |-> "done", before |-> call.before,
                       answer |-> stored']
  <2>1. /\ call'.kind = call.kind /\ call'.st = "done" /\ call'.before = call.before
        /\ call'.answer = stored'
    BY <1>3
  <2>2. /\ call.before = model /\ model.revision = stored.revision
        /\ model.layout = stored.layout
    BY <1>1, <1>3, PersistsWhatIsShown
  <2>3. stored \in Snapshot /\ model \in Snapshot /\ call.next \in SUBSET Tile
    BY <1>1 DEF OverviewTypeOK, CallTypeOK
  <2>4. /\ stored' \in Snapshot
        /\ stored'.revision = stored.revision + 1 /\ stored'.shared = stored.shared
    <3>1. stored'.revision = stored.revision + 1 /\ stored'.shared = stored.shared
      BY <1>3, <2>3 DEF Snapshot
    <3>2. stored' \in Snapshot
      <4> DEFINE n == stored.revision + 1
      <4>1. n \in Nat /\ stored' = [stored EXCEPT !.revision = n, !.layout = call.next]
        BY <1>3, <2>3 DEF Snapshot
      <4> HIDE DEF n
      <4> QED
        BY <2>3, <4>1 DEF Snapshot
    <3> QED
      BY <3>1, <3>2
  <2>5. trail' \in Seq(SUBSET Tile)
    BY <1>1, <1>3, <2>3 DEF OverviewTypeOK, HistoryTypeOK, Snapshot
  <2>6. OverviewTypeOK'
    BY <1>1, <2>1, <2>4, <2>5
       DEF OverviewTypeOK, CallTypeOK, ViewTypeOK, HistoryTypeOK, busy, saving, CallIsDone,
           pending, ViewIsIn
  <2>7. NotBefore(stored', stored) /\ NotBefore(stored', model)
    BY <2>2, <2>3, <2>4 DEF OverviewInv, AnswersAreOfTheStore, NotBefore, Snapshot
  <2>8. ViewIsIn => /\ view.answer \in Snapshot
                    /\ view.answer.revision < stored'.revision
                    /\ NotBefore(stored', view.answer)
    BY <1>1, <2>3, <2>4 DEF OverviewInv, OverviewTypeOK, ViewTypeOK, Snapshot,
                            AnswersAreOfTheStore, NotBefore
  <2>9. AnswersAreOfTheStore'
    <3>1. NotBefore(stored', stored')
      BY <2>4 DEF NotBefore, Snapshot
    <3> QED
      BY <1>1, <2>1, <2>7, <2>8, <3>1 DEF AnswersAreOfTheStore, ViewIsIn, CallIsDone
  <2>10. EditsAreOfWhatIsShown'
    BY <1>1, <2>1, <2>2, <2>4 DEF EditsAreOfWhatIsShown, saving
  <2>11. OlderReadsAreTold'
    BY <1>1, <2>1, <2>8 DEF OverviewInv, OlderReadsAreTold, ToldFromOlder, saving, pending,
                            ViewIsIn
  <2>12. HistoryIsOfTheTrail'
    <3>1. /\ undo \in Seq(SUBSET Tile) /\ trail \in Seq(SUBSET Tile)
          /\ stored.layout \in SUBSET Tile /\ call'.before.layout = stored.layout
      BY <1>1, <2>1, <2>2, <2>3 DEF OverviewTypeOK, HistoryTypeOK, Snapshot
    <3>2. ~unheard => IsSuffix(undo, trail)
      BY <1>1 DEF OverviewInv, HistoryIsOfTheTrail, Expected, saving
    <3>3. CASE call.kind = "edit"
      <4>1. trail' = Append(trail, stored.layout) /\ Expected' = Append(undo, stored.layout)
        BY <1>1, <1>3, <2>1, <3>1, <3>3 DEF Expected, saving
      <4>2. ~unheard => IsSuffix(Append(undo, stored.layout), Append(trail, stored.layout))
        BY <3>1, <3>2, SuffixAppend
      <4>3. IsSuffix(<<stored.layout>>, Append(trail, stored.layout))
        BY <3>1, SuffixShort
      <4> QED
        BY <1>1, <2>1, <3>1, <3>3, <4>1, <4>2, <4>3 DEF HistoryIsOfTheTrail, IsSuffix
    <3>4. CASE call.kind = "undo"
      <4>1. /\ trail' = SubSeq(trail, 1, Len(trail) - 1)
            /\ Expected' = SubSeq(undo, 1, Len(undo) - 1)
        BY <1>1, <1>3, <2>1, <3>4 DEF Expected, Forgotten, saving
      <4>2. undo # <<>>
        BY <3>4 DEF OverviewInv, HistoryIsOfTheTrail
      <4>3. ~unheard => IsSuffix(Expected', trail')
        BY <3>1, <3>2, <4>1, <4>2, SuffixFront
      <4> QED
        BY <1>1, <2>1, <3>4, <4>2, <4>3 DEF HistoryIsOfTheTrail, IsSuffix
    <3> QED
      BY <1>1, <3>3, <3>4 DEF saving
  <2> QED
    BY <2>6, <2>9, <2>10, <2>11, <2>12 DEF OverviewInv
<1> QED
  BY <1>2, <1>3 DEF SaveRuns

----------------------------------------------------------------------------
(* The overview: the answers to edits and changes.                         *)

\* The layout that is painted is rendered, and may have a read asked for.
LEMMA RenderRenders ==
    ASSUME Render(FALSE), ~busy'
    PROVE  FullIsRendered /\ AsksAtMost
<1>1. CASE TileGone
  BY <1>1 DEF Render, FullIsRendered, Refresh, Asked, AsksAtMost
<1>2. CASE ~TileGone
  BY <1>2 DEF Render, FullIsRendered, AsksAtMost
<1> QED
  BY <1>1, <1>2

\* When no call is under way any more, what is shown being the answer or what
\* it was, only the history is left to look at.
LEMMA AnsweredKeeps ==
    ASSUME OverviewInv, busy, call' = NoCall, AsksAtMost,
           model' = model \/ (call.st = "done" /\ model' = call.answer),
           call.kind = "change" \/ model' = call.answer \/ model' = model,
           UNCHANGED <<stored, acknowledgementVersion>>,
           HistoryTypeOK', ~unheard' => IsSuffix(undo', trail')
    PROVE  OverviewInv'
<1>1. /\ call'.kind = "none" /\ ~busy' /\ ~saving' /\ ~CallIsDone'
      /\ OverviewTypeOK
  BY DEF NoCall, busy, saving, CallIsDone, OverviewInv
<1>2. /\ ViewTypeOK'
      /\ ViewIsIn' => ViewIsIn /\ view' = view
  BY <1>1, AskedIsTyped
<1>3. model' \in Snapshot /\ NotBefore(stored, model')
  BY <1>1 DEF OverviewInv, OverviewTypeOK, CallTypeOK, CallIsDone, AnswersAreOfTheStore
<1>4. OverviewTypeOK'
  BY <1>1, <1>2, <1>3 DEF OverviewTypeOK, CallTypeOK
<1>5. AnswersAreOfTheStore' /\ EditsAreOfWhatIsShown'
  BY <1>1, <1>2, <1>3 DEF OverviewInv, AnswersAreOfTheStore, EditsAreOfWhatIsShown, ViewIsIn
<1>6. OlderReadsAreTold'
  <2>1. ASSUME ViewIsIn, view' = view
        PROVE  ToldFromOlder(model)' 
    <3>1. CASE call.kind = "change"
      BY <2>1, <3>1 DEF OverviewInv, OlderReadsAreTold, ToldFromOlder, ViewIsIn, pending
    <3>2. CASE model' = model
      BY <2>1, <3>2 DEF OverviewInv, OlderReadsAreTold, ToldFromOlder
    <3>3. CASE saving /\ call.st = "done" /\ model' = call.answer
      BY <2>1, <3>3 DEF OverviewInv, OlderReadsAreTold, ToldFromOlder
    <3> QED
      BY <1>1, <3>1, <3>2, <3>3 DEF OverviewTypeOK, CallTypeOK, busy, saving
  <2> QED
    BY <1>1, <1>2, <2>1 DEF OlderReadsAreTold, ToldFromOlder
<1>7. HistoryIsOfTheTrail'
  BY <1>1 DEF HistoryIsOfTheTrail, Expected, IsSuffix
<1> QED
  BY <1>4, <1>5, <1>6, <1>7 DEF OverviewInv

LEMMA GotSaveKeeps ==
    ASSUME OverviewInv, GotSave
    PROVE  OverviewInv' /\ FullIsRendered
<1>1. /\ UNCHANGED <<stored, acknowledgementVersion, trail, unheard>>
      /\ saving /\ busy /\ call.st = "done" /\ call' = NoCall
      /\ model' = call.answer /\ Render(FALSE)
      /\ undo' = IF call.kind = "undo" THEN Forgotten ELSE Remember(call.before)
  BY DEF GotSave, saving, busy
<1>2. FullIsRendered /\ AsksAtMost
  BY <1>1, RenderRenders DEF NoCall, busy
<1>3. /\ undo \in Seq(SUBSET Tile) /\ trail \in Seq(SUBSET Tile) /\ unheard \in BOOLEAN
      /\ call.before.layout \in SUBSET Tile
      /\ HistoryIsOfTheTrail
  BY <1>1 DEF OverviewInv, OverviewTypeOK, HistoryTypeOK, EditsAreOfWhatIsShown, Snapshot
<1>4. undo' \in Seq(SUBSET Tile) /\ (~unheard => IsSuffix(undo', trail))
  <2>1. CASE call.kind = "undo"
    <3>1. undo # <<>> /\ undo' = Forgotten /\ Expected = Forgotten
      BY <1>1, <1>3, <2>1 DEF HistoryIsOfTheTrail, Expected
    <3>2. Forgotten \in Seq(SUBSET Tile)
      BY <1>3, <3>1, FrontIsShorter, EmptySeq DEF Forgotten
    <3> QED
      BY <1>3, <3>1, <3>2 DEF HistoryIsOfTheTrail
  <2>2. CASE call.kind = "edit"
    <3> DEFINE longer == Append(undo, call.before.layout)
    <3>1. Expected = longer /\ undo' \in {longer, Tail(longer)}
      BY <1>1, <2>2 DEF Expected, Remember
    <3>2. longer \in Seq(SUBSET Tile) /\ longer # <<>> /\ Tail(longer) \in Seq(SUBSET Tile)
      BY <1>3
    <3> HIDE DEF longer
    <3>3. ~unheard => IsSuffix(longer, trail)
      BY <1>3, <3>1 DEF HistoryIsOfTheTrail
    <3>4. ~unheard => IsSuffix(Tail(longer), trail)
      BY <1>3, <3>2, <3>3, SuffixTail
    <3> QED
      BY <3>1, <3>2, <3>3, <3>4
  <2> QED
    BY <1>1, <2>1, <2>2 DEF saving
<1>5. HistoryTypeOK' /\ (~unheard' => IsSuffix(undo', trail'))
  BY <1>1, <1>3, <1>4 DEF HistoryTypeOK
<1>6. OverviewInv'
  BY <1>1, <1>2, <1>5, AnsweredKeeps
<1> QED
  BY <1>2, <1>6

LEMMA GotNoSaveKeeps ==
    ASSUME OverviewInv, GotNoSave
    PROVE  OverviewInv'
<1>1. /\ UNCHANGED <<stored, model, undo, acknowledgementVersion, trail>>
      /\ saving /\ busy /\ call.st \in {"done", "failed"} /\ call' = NoCall
      /\ unheard' = (unheard \/ call.st = "done")
      /\ Refresh(FALSE, FALSE)
  BY DEF GotNoSave, pageVars, saving, busy
<1>2. AsksAtMost
  BY <1>1 DEF AsksAtMost, Refresh, Asked, NoCall, busy
<1>3. unheard' \in BOOLEAN
  BY <1>1, Zenon
<1>4. HistoryTypeOK'
  BY <1>1, <1>3 DEF OverviewInv, OverviewTypeOK, HistoryTypeOK
<1>5. ASSUME ~unheard'
      PROVE  IsSuffix(undo', trail')
  <2>1. ~unheard /\ call.st = "failed"
    BY <1>1, <1>5
  <2> QED
    BY <1>1, <2>1 DEF OverviewInv, HistoryIsOfTheTrail, Expected, IsSuffix
<1> QED
  BY <1>1, <1>2, <1>4, <1>5, AnsweredKeeps

\* What is under way was asked for before the change.
LEMMA ChangeKeeps ==
    ASSUME OverviewInv, Change
    PROVE  OverviewInv'
<1>1. /\ UNCHANGED <<stored, model, undo, view, trail, unheard>>
      /\ ~busy /\ OverviewTypeOK
      /\ acknowledgementVersion' = acknowledgementVersion + 1
      /\ call'.kind = "change" /\ call'.st = "asked"
  BY DEF Change, NextVersion, OverviewInv
<1>2. OverviewTypeOK'
  <2>1. CallTypeOK'
    BY <1>1 DEF CallTypeOK, busy, saving, CallIsDone
  <2>2. ViewTypeOK' /\ HistoryTypeOK'
    BY <1>1 DEF OverviewTypeOK, ViewTypeOK, HistoryTypeOK, pending, ViewIsIn
  <2> QED
    BY <1>1, <2>1, <2>2 DEF OverviewTypeOK
<1>3. AnswersAreOfTheStore' /\ EditsAreOfWhatIsShown'
  BY <1>1 DEF OverviewInv, AnswersAreOfTheStore, EditsAreOfWhatIsShown, CallIsDone, busy,
              saving, ViewIsIn
<1>4. pending' => view'.version # acknowledgementVersion'
  BY <1>1 DEF OverviewTypeOK, ViewTypeOK, pending
<1>5. OlderReadsAreTold'
  BY <1>1, <1>4 DEF OlderReadsAreTold, ToldFromOlder, saving, pending, ViewIsIn
<1>6. HistoryIsOfTheTrail'
  BY <1>1 DEF OverviewInv, HistoryIsOfTheTrail, Expected, saving, busy, IsSuffix
<1> QED
  BY <1>2, <1>3, <1>5, <1>6 DEF OverviewInv

\* The settings that are shared get a version of their own.
LEMMA SharedIsLater ==
    ASSUME OverviewInv, stored' = [stored EXCEPT !.shared = @ + 1]
    PROVE  stored' \in Snapshot /\ stored'.layout = stored.layout
           /\ NotBefore(stored', stored') /\ NotBefore(stored', model)
           /\ (ViewIsIn => NotBefore(stored', view.answer))
           /\ (CallIsDone => NotBefore(stored', call.answer))
<1>1. stored \in Snapshot /\ model \in Snapshot
  BY DEF OverviewInv, OverviewTypeOK
<1>2. /\ stored'.revision = stored.revision /\ stored'.layout = stored.layout
      /\ stored'.shared = stored.shared + 1
  BY <1>1 DEF Snapshot
<1>3. stored' \in Snapshot
  BY <1>1 DEF Snapshot
<1>4. \A a \in Snapshot : NotBefore(stored, a) => NotBefore(stored', a)
  BY <1>1, <1>2 DEF NotBefore, Snapshot
<1>5. NotBefore(stored', stored')
  BY <1>3 DEF NotBefore, Snapshot
<1> QED
  BY <1>1, <1>2, <1>3, <1>4, <1>5
     DEF OverviewInv, OverviewTypeOK, CallTypeOK, ViewTypeOK, AnswersAreOfTheStore

LEMMA ChangeRunsKeeps ==
    ASSUME OverviewInv, ChangeRuns
    PROVE  OverviewInv'
<1>1. /\ UNCHANGED <<model, undo, acknowledgementVersion, view, trail, unheard>>
      /\ call.kind = "change" /\ call.st = "asked" /\ OverviewTypeOK
  BY DEF ChangeRuns, pageVars, OverviewInv
<1>2. /\ call'.kind = "change" /\ call'.st \in {"done", "failed"}
      /\ call'.st = "done" => call'.answer = stored'
      /\ stored' = stored \/ stored' = [stored EXCEPT !.shared = @ + 1]
      /\ call'.st = "done" => stored' = [stored EXCEPT !.shared = @ + 1]
  BY DEF ChangeRuns
<1>3. /\ stored' \in Snapshot
      /\ NotBefore(stored', model) /\ (ViewIsIn => NotBefore(stored', view.answer))
      /\ call'.st = "done" => NotBefore(stored', stored')
  BY <1>2, SharedIsLater DEF OverviewInv, OverviewTypeOK, AnswersAreOfTheStore
<1>4. OverviewTypeOK'
  <2>1. CallTypeOK'
    BY <1>2, <1>3 DEF CallTypeOK, busy, saving, CallIsDone
  <2>2. ViewTypeOK' /\ HistoryTypeOK'
    BY <1>1 DEF OverviewTypeOK, ViewTypeOK, HistoryTypeOK, pending, ViewIsIn
  <2> QED
    BY <1>1, <1>3, <2>1, <2>2 DEF OverviewTypeOK
<1>5. AnswersAreOfTheStore' /\ EditsAreOfWhatIsShown'
  BY <1>1, <1>2, <1>3 DEF AnswersAreOfTheStore, EditsAreOfWhatIsShown, CallIsDone, busy,
                          saving, ViewIsIn
<1>6. OlderReadsAreTold'
  BY <1>1, <1>2 DEF OverviewInv, OlderReadsAreTold, ToldFromOlder, saving, pending, ViewIsIn
<1>7. HistoryIsOfTheTrail'
  BY <1>1, <1>2 DEF OverviewInv, HistoryIsOfTheTrail, Expected, saving, IsSuffix
<1> QED
  BY <1>4, <1>5, <1>6, <1>7 DEF OverviewInv

LEMMA GotChangeKeeps ==
    ASSUME OverviewInv, GotChange
    PROVE  OverviewInv' /\ FullIsRendered
<1>1. /\ UNCHANGED <<stored, undo, acknowledgementVersion, trail, unheard>>
      /\ call.kind = "change" /\ busy /\ ~saving /\ call' = NoCall
      /\ model' = model \/ (call.st = "done" /\ model' = call.answer)
      /\ Render(FALSE)
  BY DEF GotChange, saving, busy
<1>2. FullIsRendered /\ AsksAtMost
  BY <1>1, RenderRenders DEF NoCall, busy
<1>3. HistoryTypeOK' /\ (~unheard' => IsSuffix(undo', trail'))
  BY <1>1 DEF OverviewInv, OverviewTypeOK, HistoryTypeOK, HistoryIsOfTheTrail, Expected, IsSuffix
<1>4. OverviewInv'
  BY <1>1, <1>2, <1>3, AnsweredKeeps
<1> QED
  BY <1>2, <1>4

LEMMA SaveSettingsKeeps ==
    ASSUME OverviewInv, SaveSettings
    PROVE  OverviewInv'
<1>1. /\ UNCHANGED <<model, undo, acknowledgementVersion, call, view, trail, unheard>>
      /\ stored' = [stored EXCEPT !.shared = @ + 1] /\ OverviewTypeOK
  BY DEF SaveSettings, pageVars, OverviewInv
<1>2. /\ stored' \in Snapshot /\ NotBefore(stored', model)
      /\ (ViewIsIn => NotBefore(stored', view.answer))
      /\ (CallIsDone => NotBefore(stored', call.answer))
  BY <1>1, SharedIsLater
<1>3. OverviewTypeOK'
  BY <1>1, <1>2 DEF OverviewTypeOK, CallTypeOK, ViewTypeOK, HistoryTypeOK, busy, saving,
                    CallIsDone, pending, ViewIsIn
<1>4. AnswersAreOfTheStore' /\ EditsAreOfWhatIsShown' /\ OlderReadsAreTold'
  BY <1>1, <1>2 DEF OverviewInv, AnswersAreOfTheStore, EditsAreOfWhatIsShown, CallIsDone,
                    OlderReadsAreTold, ToldFromOlder, busy, saving, pending, ViewIsIn
<1>5. HistoryIsOfTheTrail'
  BY <1>1, HistoryStays DEF OverviewInv
<1> QED
  BY <1>3, <1>4, <1>5 DEF OverviewInv

----------------------------------------------------------------------------
(* Every step of the page and of its commands keeps the invariant.         *)

LEMMA EditKeeps ==
    ASSUME OverviewInv, Edit \/ Undo
    PROVE  OverviewInv'
<1>1. model.layout \in SUBSET Tile /\ undo \in Seq(SUBSET Tile)
  BY DEF OverviewInv, OverviewTypeOK, HistoryTypeOK, Snapshot
<1>2. CASE Edit
  <2> PICK t \in Tile :
        Save("edit", IF t \in model.layout THEN model.layout \ {t} ELSE model.layout \cup {t})
    BY <1>2 DEF Edit
  <2>1. (IF t \in model.layout THEN model.layout \ {t} ELSE model.layout \cup {t})
          \in SUBSET Tile
    BY <1>1
  <2> QED
    BY <2>1, SaveKeeps
<1>3. CASE Undo
  <2>1. undo # <<>> /\ Save("undo", undo[Len(undo)])
    BY <1>3 DEF Undo
  <2>2. undo[Len(undo)] \in SUBSET Tile
    BY <1>1, <2>1, EmptySeq
  <2> QED
    BY <2>1, <2>2, SaveKeeps
<1> QED
  BY <1>2, <1>3

LEMMA PageStep == PageInv /\ [DashNext]_dashVars => PageInv'
<1> SUFFICES ASSUME PageInv, [DashNext]_dashVars
             PROVE  OverviewInv' /\ FullInv'
  BY DEF PageInv
<1>0. OverviewInv /\ OverviewTypeOK /\ FullInv
  BY DEF PageInv, OverviewInv
<1>1. CASE Tick
  <2>1. /\ UNCHANGED <<stored, pageVars, call, fullVars, trail, unheard>> /\ AsksAtMost
    BY <1>1 DEF Tick, Refresh, Asked, AsksAtMost, busy
  <2> QED
    BY <1>0, <2>1, AskingKeeps, FullStays DEF pageVars
<1>2. CASE ViewRuns
  BY <1>0, <1>2, ViewRunsKeeps, FullStays DEF ViewRuns, pageVars
<1>3. CASE GotView
  <2>1. \/ FullIsRendered
        \/ UNCHANGED <<model, fullVars>>
    BY <1>3 DEF GotView, FullIsRendered
  <2> QED
    BY <1>0, <1>3, <2>1, GotViewKeeps, FullRendered, FullStays
<1>4. CASE Edit \/ Undo
  <2>1. UNCHANGED <<fullVars, model>>
    BY <1>4 DEF Edit, Undo, Save, pageVars
  <2> QED
    BY <1>0, <1>4, <2>1, EditKeeps, FullStays
<1>5. CASE SaveRuns
  BY <1>0, <1>5, SaveRunsKeeps, FullStays DEF SaveRuns, pageVars
<1>6. CASE GotSave
  BY <1>0, <1>6, GotSaveKeeps, FullRendered
<1>7. CASE GotNoSave
  BY <1>0, <1>7, GotNoSaveKeeps, FullStays DEF GotNoSave, pageVars
<1>8. CASE Change
  BY <1>0, <1>8, ChangeKeeps, FullStays DEF Change
<1>9. CASE ChangeRuns
  BY <1>0, <1>9, ChangeRunsKeeps, FullStays DEF ChangeRuns, pageVars
<1>10. CASE GotChange
  BY <1>0, <1>10, GotChangeKeeps, FullRendered
<1>11. ASSUME NEW t \in Tile, OpenFull(t)
       PROVE  OverviewInv' /\ FullInv'
  <2>1. UNCHANGED <<stored, pageVars, call, trail, unheard>> /\ AsksAtMost
    BY <1>11 DEF OpenFull, Refresh, Asked, AsksAtMost, busy
  <2> QED
    BY <1>0, <1>11, <2>1, AskingKeeps, OpenFullKeeps
<1>12. CASE LeaveFull
  <2>1. /\ UNCHANGED <<stored, pageVars, call, trail, unheard>> /\ AsksAtMost
    BY <1>12 DEF LeaveFull, Refresh, Asked, AsksAtMost, busy
  <2>2. /\ fullTile' = NoTile /\ fullGeneration' = NextGeneration /\ loaded' = FALSE
        /\ UNCHANGED <<body, panelReads>>
    BY <1>12 DEF LeaveFull
  <2> QED
    BY <1>0, <2>1, <2>2, AskingKeeps, FullLeft
<1>13. CASE PanelTick \/ PanelRuns \/ GotReading
  <2>1. UNCHANGED <<stored, pageVars, call, trail, unheard>> /\ AsksAtMost
    BY <1>13 DEF PanelTick, PanelRuns, GotReading, AsksAtMost
  <2> QED
    BY <1>0, <1>13, <2>1, AskingKeeps, PanelTickKeeps, PanelRunsKeeps, GotReadingKeeps
<1>14. CASE OpenSettings \/ CloseSettings \/ UNCHANGED dashVars
  <2>1. UNCHANGED <<stored, pageVars, call, fullVars, trail, unheard>> /\ AsksAtMost
    BY <1>14 DEF OpenSettings, CloseSettings, dashVars, Asked, AsksAtMost, busy
  <2> QED
    BY <1>0, <2>1, AskingKeeps, FullStays DEF pageVars
<1>15. CASE SaveSettings
  BY <1>0, <1>15, SaveSettingsKeeps, FullStays DEF SaveSettings, pageVars
<1> QED
  BY <1>1, <1>2, <1>3, <1>4, <1>5, <1>6, <1>7, <1>8, <1>9, <1>10, <1>11, <1>12, <1>13,
     <1>14, <1>15 DEF DashNext

----------------------------------------------------------------------------
(* Theorems.                                                               *)

\* Whatever the page asks and whenever the answers come, all that it holds of
\* the store was read from it, in an order that the revisions and versions
\* tell, and its undo history follows what its edits replaced.
THEOREM PageIsInductive == DashSpec => []PageInv
  BY DashInitInv, PageStep, PTL DEF DashSpec

\* An undo reverses the last edits of this page, and a Full view shows its own
\* tile's rows.
THEOREM UndoAndBodyAreTrue == DashSpec => []DashInv
<1>1. PageInv => DashInv
  <2> SUFFICES ASSUME PageInv
               PROVE  DashInv
    OBVIOUS
  <2>1. BodyIsOfTheTile
    BY DEF PageInv, FullInv
  <2>2. UndoReversesTheLastEdits
    BY DEF PageInv, OverviewInv, HistoryIsOfTheTrail, Expected, UndoReversesTheLastEdits,
           busy, saving
  <2> QED
    BY <2>1, <2>2 DEF DashInv
<1> QED
  BY <1>1, PageIsInductive, PTL

\* What is painted is later than what was shown, and an edit replaces the
\* layout that was shown.
LEMMA ShownStep ==
    ASSUME PageInv, [DashNext]_dashVars
    PROVE  /\ model'.revision >= model.revision /\ model'.shared >= model.shared
           /\ stored'.layout # stored.layout => call.before.layout = stored.layout
<1>0. OverviewInv /\ OverviewTypeOK
  BY DEF PageInv, OverviewInv
<1>1. model \in Snapshot /\ stored \in Snapshot
  BY <1>0 DEF OverviewTypeOK
<1>2. ASSUME model' # model
      PROVE  /\ stored' = stored
             /\ model'.revision >= model.revision /\ model'.shared >= model.shared
  <2>1. CASE GotView
    <3>1. model' = view.answer /\ Paintable(view) /\ view.st = "answered" /\ stored' = stored
      BY <1>2, <2>1 DEF GotView
    <3> QED
      BY <1>0, <1>1, <3>1, PaintedIsNotOlder DEF Snapshot
  <2>2. CASE GotSave \/ GotChange
    <3>1. CallIsDone /\ model' = call.answer /\ stored' = stored
      BY <1>2, <2>2 DEF GotSave, GotChange, CallIsDone, busy
    <3>2. call.answer \in Snapshot /\ NotBefore(call.answer, model)
      BY <1>0, <3>1 DEF OverviewInv, OverviewTypeOK, CallTypeOK, AnswersAreOfTheStore
    <3> QED
      BY <1>1, <3>1, <3>2 DEF NotBefore, Snapshot
  <2> QED
    BY <1>2, <2>1, <2>2
       DEF DashNext, Tick, ViewRuns, Edit, Undo, Save, SaveRuns, GotNoSave, Change, ChangeRuns,
           OpenFull, LeaveFull, PanelTick, PanelRuns, GotReading, OpenSettings, SaveSettings,
           CloseSettings, pageVars, dashVars
<1>3. ASSUME stored'.layout # stored.layout
      PROVE  call.before.layout = stored.layout
  <2>1. CASE SaveRuns
    BY <1>0, <1>3, <2>1, PersistsWhatIsShown DEF SaveRuns, saving
  <2>2. CASE ChangeRuns \/ SaveSettings
    <3>1. stored' = stored \/ stored' = [stored EXCEPT !.shared = @ + 1]
      BY <2>2 DEF ChangeRuns, SaveSettings
    <3> QED
      BY <1>0, <1>3, <3>1, SharedIsLater
  <2> QED
    BY <1>3, <2>1, <2>2
       DEF DashNext, Tick, ViewRuns, GotView, Edit, Undo, Save, GotSave, GotNoSave, Change,
           GotChange, OpenFull, LeaveFull, PanelTick, PanelRuns, GotReading, OpenSettings,
           CloseSettings, pageVars, dashVars
<1>4. model' = model => model'.revision >= model.revision /\ model'.shared >= model.shared
  BY <1>1 DEF Snapshot
<1> QED
  BY <1>2, <1>3, <1>4

\* What the page shows never goes back, and no edit replaces a layout that the
\* page did not show.
THEOREM PageNeverGoesBack == DashSpec => ShownNeverGoesBack
  BY PageIsInductive, ShownStep, PTL DEF DashSpec, ShownNeverGoesBack

----------------------------------------------------------------------------
(* The containers panel, for any names of hosts and containers and any     *)
(* grace.                                                                  *)

\* What a pass holds is no older than what was sighted before it.
PassIsLast ==
    /\ pass.time <= now /\ pass.heard \subseteq pass.configured
    /\ pass.targets \subseteq pass.configured
    /\ pass.heard # {} => pass.at \in {"record", "apply"}
    /\ pass.answered # {} => pass.ran
    /\ \A s \in Scope, n \in Name :
          /\ told[s][n] <= sighted[s][n] /\ sighted[s][n] <= now
          /\ onDisk.sighted[s][n] <= now
          /\ pass.at # "idle" => sighted[s][n] <= pass.time
          /\ pass.at # "apply" => told[s][n] = sighted[s][n]

\* The panel knows of hosts of the last snapshot only, and this pass's are
\* polled still or have left since.
SectionsAreOfTheSet ==
    /\ panel.sections \subseteq polled \cup left
    /\ pass.at \in {"fetch", "record", "apply"} => pass.configured \subseteq polled \cup pass.left

\* A date that a render holds is no older than what the panel was told of,
\* unless the pass that told it has its container listed.
RenderIsOfThisPass ==
    render.reading => \A s \in Scope, n \in Name : render.due[s][n] # Never =>
        /\ pass.at # "idle" => render.due[s][n] >= told[s][n]
        /\ pass.at = "apply" => render.due[s][n] >= sighted[s][n] \/ Saw(s, n)
        /\ pass.at = "idle" => \/ render.due[s][n] >= told[s][n] \/ n \in Listed(s)
                               \/ s # Here /\ s \notin panel.sections

PanelInd ==
    /\ ContainersTypeOK /\ RecordsAreTrue
    /\ PassIsLast /\ SectionsAreOfTheSet /\ RenderIsOfThisPass

\* The shapes of what the modules call nothing.
LEMMA NothingIsTyped ==
    /\ NoRecord \in PresenceRecord /\ Unseen \in Times
    /\ NoPass \in PassType /\ NewPanel \in PanelType /\ NoRender \in RenderType
<1> USE ContainersAssumption
<1>1. NoRecord \in PresenceRecord
  BY SMT DEF NoRecord, PresenceRecord, Never, Unknown, Theirs
<1>2. Unseen \in Times
  BY SMT DEF Unseen, Times, Never
<1>3. NoRender \in RenderType
  BY <1>2, SMT DEF NoRender, RenderType
<1>4. [s \in Scope |-> Never] \in [Scope -> 0..LastTick]
  BY SMT DEF Never
<1>5. NewPanel \in PanelType
  BY <1>4, SMT DEF NewPanel, PanelType
<1>6. NoPass \in PassType
  BY SMT DEF NoPass, PassType, Never
<1> QED BY <1>1, <1>2, <1>3, <1>5, <1>6

\* One field of a pass is changed.
LEMMA PassChanges ==
    ASSUME NEW p \in PassType
    PROVE  /\ \A x \in {"idle", "local", "hosts", "fetch", "record", "apply"} :
                 [p EXCEPT !.at = x] \in PassType
           /\ \A x \in 0..LastTick : [p EXCEPT !.time = x] \in PassType
           /\ \A x \in BOOLEAN : [p EXCEPT !.ran = x] \in PassType
           /\ \A x \in SUBSET Runtime : /\ [p EXCEPT !.answered = x] \in PassType
                                         /\ [p EXCEPT !.failed = x] \in PassType
           /\ \A x \in [Runtime -> SUBSET Name] : [p EXCEPT !.list = x] \in PassType
           /\ \A x \in SUBSET Remote : /\ [p EXCEPT !.configured = x] \in PassType
                                        /\ [p EXCEPT !.targets = x] \in PassType
                                        /\ [p EXCEPT !.heard = x] \in PassType
                                        /\ [p EXCEPT !.left = x] \in PassType
           /\ \A x \in [Remote -> SUBSET Name] : [p EXCEPT !.got = x] \in PassType
<1> USE DEF PassType
<1>1. \A x \in {"idle", "local", "hosts", "fetch", "record", "apply"} :
        [p EXCEPT !.at = x] \in PassType
  BY SMT
<1>2. /\ \A x \in 0..LastTick : [p EXCEPT !.time = x] \in PassType
      /\ \A x \in BOOLEAN : [p EXCEPT !.ran = x] \in PassType
  BY SMT
<1>3. \A x \in SUBSET Runtime : [p EXCEPT !.answered = x] \in PassType
  BY SMT
<1>4. \A x \in SUBSET Runtime : [p EXCEPT !.failed = x] \in PassType
  BY SMT
<1>5. \A x \in [Runtime -> SUBSET Name] : [p EXCEPT !.list = x] \in PassType
  BY SMT
<1>6. \A x \in SUBSET Remote : [p EXCEPT !.configured = x] \in PassType
  BY SMT
<1>7. \A x \in SUBSET Remote : [p EXCEPT !.targets = x] \in PassType
  BY SMT
<1>8. \A x \in SUBSET Remote : [p EXCEPT !.heard = x] \in PassType
  BY SMT
<1>9. \A x \in SUBSET Remote : [p EXCEPT !.left = x] \in PassType
  BY SMT
<1>10. \A x \in [Remote -> SUBSET Name] : [p EXCEPT !.got = x] \in PassType
  BY SMT
<1> HIDE DEF PassType
<1> QED BY <1>1, <1>2, <1>3, <1>4, <1>5, <1>6, <1>7, <1>8, <1>9, <1>10

LEMMA PanelBegins == ContainersInit => PanelInd
<1> SUFFICES ASSUME ContainersInit PROVE PanelInd OBVIOUS
<1> USE ContainersAssumption
<1> USE DEF ContainersInit
<1>1. rule \in RuleMap
  BY SMT DEF RuleMap, Kind
<1>2. presence \in PresenceMap
  BY NothingIsTyped, SMT DEF PresenceMap
<1>3. ContainersTypeOK
  <2>1. onDisk \in [rule : RuleMap, presence : PresenceMap, sighted : Times]
    BY <1>1, <1>2, NothingIsTyped, SMT
  <2>2. now \in 1..LastTick
    BY SMT
  <2> QED BY <1>1, <1>2, <2>1, <2>2, NothingIsTyped DEF ContainersTypeOK
<1>4. RecordsAreTrue
  BY SMT DEF RecordsAreTrue, DatedBySightings
<1>5. PassIsLast
  BY SMT DEF PassIsLast, NoPass, Unseen, Never
<1>6. SectionsAreOfTheSet
  BY SMT DEF SectionsAreOfTheSet, NoPass, NewPanel
<1>7. RenderIsOfThisPass
  BY SMT DEF RenderIsOfThisPass, NoRender
<1> QED BY <1>3, <1>4, <1>5, <1>6, <1>7 DEF PanelInd

LEMMA TimePasses == PanelInd /\ ContainersTick => PanelInd'
<1> SUFFICES ASSUME PanelInd, ContainersTick PROVE PanelInd' OBVIOUS
<1> USE ContainersAssumption
<1> USE DEF PanelInd, ContainersTick, recordVars, setVars
<1>1. now' = now + 1 /\ now \in Nat /\ now' \in 1..LastTick
  BY SMT DEF ContainersTypeOK
<1>2. ContainersTypeOK'
  BY <1>1 DEF ContainersTypeOK
<1>3. RecordsAreTrue'
  BY DEF RecordsAreTrue, DatedBySightings
<1>4. PassIsLast'
  <2>1. \A s \in Scope, n \in Name :
          sighted[s][n] \in 0..LastTick /\ onDisk.sighted[s][n] \in 0..LastTick
    BY SMT DEF ContainersTypeOK, Times
  <2>2. pass.time \in 0..LastTick
    BY SMT DEF ContainersTypeOK, PassType
  <2> QED BY <1>1, <2>1, <2>2, SMT DEF PassIsLast
<1>5. SectionsAreOfTheSet'
  BY DEF SectionsAreOfTheSet
<1>6. RenderIsOfThisPass'
  BY DEF RenderIsOfThisPass, Saw, Listed
<1> QED BY <1>2, <1>3, <1>4, <1>5, <1>6

LEMMA StoreIsWritten == PanelInd /\ (EditRules \/ SaveOther) => PanelInd'
<1> SUFFICES ASSUME PanelInd, EditRules \/ SaveOther PROVE PanelInd' OBVIOUS
<1> USE DEF PanelInd, recordVars, setVars
<1>1. /\ UNCHANGED <<now, presence, setVars, pass, panel, render, sighted, told>>
      /\ rule' \in RuleMap
      /\ Saved \/ UNCHANGED onDisk
  BY DEF EditRules, SaveOther, ContainersTypeOK
<1>2. onDisk' \in [rule : RuleMap, presence : PresenceMap, sighted : Times]
  BY <1>1 DEF ContainersTypeOK, Saved
<1>3. ContainersTypeOK'
  BY <1>1, <1>2 DEF ContainersTypeOK
<1>4. /\ onDisk'.presence \in {presence, onDisk.presence}
      /\ (onDisk'.presence = presence /\ onDisk'.sighted = sighted) \/ onDisk' = onDisk
  BY <1>1 DEF Saved
<1>5. RecordsAreTrue'
  BY <1>1, <1>4 DEF RecordsAreTrue, DatedBySightings
<1>6. PassIsLast'
  BY <1>1, <1>4, SMT DEF PassIsLast
<1>7. SectionsAreOfTheSet'
  BY <1>1 DEF SectionsAreOfTheSet
<1>8. RenderIsOfThisPass'
  BY <1>1 DEF RenderIsOfThisPass, Saw, Listed
<1> QED BY <1>3, <1>5, <1>6, <1>7, <1>8

LEMMA HostsAreReloaded == PanelInd /\ ReloadHosts => PanelInd'
<1> SUFFICES ASSUME PanelInd, ReloadHosts PROVE PanelInd' OBVIOUS
<1> USE DEF PanelInd, ReloadHosts, recordVars
<1> DEFINE gone == polled \ polled'
           leftNow == IF pass.at \in {"idle", "local", "hosts"} THEN {} ELSE pass.left \cup gone
<1>1. pass' = [pass EXCEPT !.left = leftNow]
  OBVIOUS
<1>2. leftNow \in SUBSET Remote
  BY SMT DEF ContainersTypeOK, PassType
<1> HIDE DEF leftNow
<1>3. ContainersTypeOK'
  <2>1. pass' \in PassType
    BY <1>1, <1>2, SMT DEF ContainersTypeOK, PassType
  <2> QED BY <2>1, SMT DEF ContainersTypeOK
<1>4. /\ pass'.left = leftNow /\ pass'.at = pass.at /\ pass'.time = pass.time
      /\ pass'.ran = pass.ran /\ pass'.answered = pass.answered
      /\ pass'.list = pass.list /\ pass'.configured = pass.configured
      /\ pass'.targets = pass.targets /\ pass'.heard = pass.heard /\ pass'.got = pass.got
  BY <1>1, SMT DEF ContainersTypeOK, PassType
<1>5. RecordsAreTrue'
  BY DEF RecordsAreTrue, DatedBySightings
<1>6. PassIsLast'
  BY <1>4 DEF PassIsLast
<1>7. SectionsAreOfTheSet'
  BY <1>4, SMT DEF SectionsAreOfTheSet, leftNow
<1>8. RenderIsOfThisPass'
  BY <1>4 DEF RenderIsOfThisPass, Saw, Listed
<1> QED BY <1>3, <1>5, <1>6, <1>7, <1>8

LEMMA AppStartsAgain == PanelInd /\ StartAgain => PanelInd'
<1> SUFFICES ASSUME PanelInd, StartAgain PROVE PanelInd' OBVIOUS
<1> USE ContainersAssumption
<1> USE DEF PanelInd, StartAgain
<1>1. ContainersTypeOK'
  BY NothingIsTyped, SMT DEF ContainersTypeOK
<1>2. RecordsAreTrue'
  BY DEF RecordsAreTrue, DatedBySightings
<1>3. PassIsLast'
  <2> SUFFICES ASSUME NEW s \in Scope, NEW n \in Name
               PROVE  /\ told'[s][n] = sighted'[s][n] /\ sighted'[s][n] \in Nat
                      /\ sighted'[s][n] <= now /\ onDisk.sighted[s][n] <= now
    BY SMT DEF PassIsLast, NoPass, Never, ContainersTypeOK
  <2> QED BY SMT DEF PassIsLast, ContainersTypeOK, Times
<1>4. SectionsAreOfTheSet'
  BY SMT DEF SectionsAreOfTheSet, NoPass, NewPanel
<1>5. RenderIsOfThisPass'
  BY SMT DEF RenderIsOfThisPass, NoRender
<1> QED BY <1>1, <1>2, <1>3, <1>4, <1>5

LEMMA PassBegins == PanelInd /\ BeginPass => PanelInd'
<1> SUFFICES ASSUME PanelInd, BeginPass PROVE PanelInd' OBVIOUS
<1> USE ContainersAssumption
<1> USE DEF PanelInd, BeginPass, recordVars, setVars
<1>1. /\ pass'.at = "local" /\ pass'.time = now /\ pass'.answered = {}
      /\ pass'.heard = {} /\ pass'.targets = {}
  BY SMT DEF NoPass
<1>2. ContainersTypeOK'
  <2>1. now \in 0..LastTick
    BY SMT DEF ContainersTypeOK
  <2> DEFINE p1 == [NoPass EXCEPT !.at = "local"]
  <2>2. p1 \in PassType
    BY NothingIsTyped, PassChanges
  <2> HIDE DEF p1
  <2>3. [p1 EXCEPT !.time = now] \in PassType
    BY <2>1, <2>2, PassChanges
  <2>4. pass' \in PassType
    BY <2>3, SMT DEF p1
  <2> QED BY <2>4 DEF ContainersTypeOK
<1>3. RecordsAreTrue'
  BY DEF RecordsAreTrue, DatedBySightings
<1>4. PassIsLast'
  BY <1>1, SMT DEF PassIsLast, ContainersTypeOK
<1>5. SectionsAreOfTheSet'
  BY <1>1, SMT DEF SectionsAreOfTheSet
<1>6. RenderIsOfThisPass'
  BY DEF RenderIsOfThisPass
<1> QED BY <1>2, <1>3, <1>4, <1>5, <1>6

\* Until it records, a pass moves nothing but itself.
LEMMA PassGoesOn ==
    ASSUME PanelInd,
           UNCHANGED <<now, recordVars, setVars, panel, render, sighted, told>>,
           ContainersTypeOK',
           pass.at \notin {"idle", "apply"}, pass'.at \notin {"idle", "apply"},
           pass'.time = pass.time,
           pass'.heard \subseteq pass'.configured, pass'.targets \subseteq pass'.configured,
           pass'.answered # {} => pass'.ran, pass'.heard # {} => pass'.at = "record",
           pass'.at \in {"fetch", "record"} => pass'.configured \subseteq polled \cup pass'.left
    PROVE  PanelInd'
<1> USE DEF PanelInd, recordVars, setVars
<1>1. RecordsAreTrue'
  BY DEF RecordsAreTrue, DatedBySightings
<1>2. PassIsLast'
  BY SMT DEF PassIsLast
<1>3. SectionsAreOfTheSet'
  BY SMT DEF SectionsAreOfTheSet, ContainersTypeOK, PassType
<1>4. RenderIsOfThisPass'
  BY SMT DEF RenderIsOfThisPass
<1> QED BY <1>1, <1>2, <1>3, <1>4

LEMMA RuntimesAnswer == PanelInd /\ AskRuntimes => PanelInd'
<1> SUFFICES ASSUME PanelInd, AskRuntimes PROVE PanelInd' OBVIOUS
<1> USE DEF PanelInd
<1>1. CASE pass' = [pass EXCEPT !.at = "hosts"]
  <2>1. ContainersTypeOK'
    <3>1. pass' \in PassType
      BY <1>1, SMT DEF ContainersTypeOK, PassType
    <3> QED BY <3>1 DEF AskRuntimes, ContainersTypeOK, recordVars, setVars
  <2>2. pass'.at = "hosts" /\ pass'.time = pass.time
    BY <1>1 DEF ContainersTypeOK, PassType
  <2>3. /\ pass'.heard = pass.heard /\ pass'.targets = pass.targets /\ pass'.ran = pass.ran
        /\ pass'.configured = pass.configured /\ pass'.answered = pass.answered
    BY <1>1 DEF ContainersTypeOK, PassType
  <2>4. pass.at = "local"
    BY DEF AskRuntimes
  <2> QED BY <2>1, <2>2, <2>3, <2>4, PassGoesOn DEF AskRuntimes, PassIsLast
<1>2. ASSUME NEW installed \in SUBSET Runtime, NEW answered \in SUBSET installed,
             NEW list \in [answered -> SUBSET Name],
             pass' = [pass EXCEPT !.at = "hosts", !.ran = TRUE, !.answered = answered,
                         !.failed = installed \ answered,
                         !.list = [r \in Runtime |-> IF r \in answered THEN list[r] ELSE {}]]
      PROVE  PanelInd'
  <2> DEFINE lists == [r \in Runtime |-> IF r \in answered THEN list[r] ELSE {}]
  <2>1. lists \in [Runtime -> SUBSET Name]
    OBVIOUS
  <2>2. pass' = [pass EXCEPT !.at = "hosts", !.ran = TRUE, !.answered = answered,
                    !.failed = installed \ answered, !.list = lists]
    BY <1>2
  <2> HIDE DEF lists
  <2>3. ContainersTypeOK'
    <3>1. answered \in SUBSET Runtime /\ installed \ answered \in SUBSET Runtime
      OBVIOUS
    <3>2. pass \in PassType
      BY DEF ContainersTypeOK
    <3> DEFINE p1 == [pass EXCEPT !.at = "hosts"]
               p2 == [p1 EXCEPT !.ran = TRUE]
               p3 == [p2 EXCEPT !.answered = answered]
               p4 == [p3 EXCEPT !.failed = installed \ answered]
    <3>4. p1 \in PassType
      BY <3>2, PassChanges
    <3> HIDE DEF p1
    <3>5. p2 \in PassType
      BY <3>4, PassChanges
    <3> HIDE DEF p2
    <3>6. p3 \in PassType
      BY <3>1, <3>5, PassChanges
    <3> HIDE DEF p3
    <3>7. p4 \in PassType
      BY <3>1, <3>6, PassChanges
    <3> HIDE DEF p4
    <3>8. [p4 EXCEPT !.list = lists] \in PassType
      BY <2>1, <3>7, PassChanges
    <3>3. pass' \in PassType
      BY <2>2, <3>8, SMT DEF p1, p2, p3, p4
    <3> QED BY <3>3 DEF AskRuntimes, ContainersTypeOK, recordVars, setVars
  <2>4. /\ pass'.at = "hosts" /\ pass'.time = pass.time /\ pass'.ran = TRUE
        /\ pass'.heard = pass.heard /\ pass'.targets = pass.targets
        /\ pass'.configured = pass.configured
    BY <2>2, SMT DEF ContainersTypeOK, PassType
  <2>5. pass.at = "local"
    BY DEF AskRuntimes
  <2> QED BY <2>3, <2>4, <2>5, PassGoesOn DEF AskRuntimes, PassIsLast
<1> QED BY <1>1, <1>2 DEF AskRuntimes

LEMMA PollSetIsTaken == PanelInd /\ SnapshotHosts => PanelInd'
<1> SUFFICES ASSUME PanelInd, SnapshotHosts PROVE PanelInd' OBVIOUS
<1> USE DEF PanelInd
<1>1. pass.at = "hosts" /\ pass' = [pass EXCEPT !.at = "fetch", !.configured = polled, !.targets = usable]
  BY DEF SnapshotHosts
<1>2. ContainersTypeOK'
  <2>0. pass \in PassType /\ polled \in SUBSET Remote /\ usable \in SUBSET Remote
    BY DEF ContainersTypeOK
  <2> DEFINE p1 == [pass EXCEPT !.at = "fetch"]
             p2 == [p1 EXCEPT !.configured = polled]
  <2>4. p1 \in PassType
    BY <2>0, PassChanges
  <2> HIDE DEF p1
  <2>5. p2 \in PassType
    BY <2>0, <2>4, PassChanges
  <2> HIDE DEF p2
  <2>6. [p2 EXCEPT !.targets = usable] \in PassType
    BY <2>0, <2>5, PassChanges
  <2>1. pass' \in PassType
    BY <1>1, <2>6, SMT DEF p1, p2
  <2> QED BY <2>1 DEF SnapshotHosts, ContainersTypeOK, recordVars, setVars
<1>3. /\ pass'.at = "fetch" /\ pass'.time = pass.time /\ pass'.ran = pass.ran
      /\ pass'.heard = pass.heard /\ pass'.targets = usable /\ pass'.configured = polled
      /\ pass'.answered = pass.answered
  BY <1>1, SMT DEF ContainersTypeOK, PassType
<1>4. pass.heard = {}
  BY <1>1 DEF PassIsLast
<1> QED BY <1>1, <1>2, <1>3, <1>4, PassGoesOn DEF SnapshotHosts, PassIsLast, ContainersTypeOK

LEMMA HostsAnswer == PanelInd /\ Fetch => PanelInd'
<1> SUFFICES ASSUME PanelInd, Fetch PROVE PanelInd' OBVIOUS
<1> USE DEF PanelInd
<1>1. PICK heard \in SUBSET pass.targets : \E got \in [heard -> SUBSET Name] :
        pass' = [pass EXCEPT !.at = "record", !.heard = heard,
                    !.got = [h \in Remote |-> IF h \in heard THEN got[h] ELSE {}]]
  BY DEF Fetch
<1>2. PICK got \in [heard -> SUBSET Name] :
        pass' = [pass EXCEPT !.at = "record", !.heard = heard,
                    !.got = [h \in Remote |-> IF h \in heard THEN got[h] ELSE {}]]
  BY <1>1
<1> DEFINE lists == [h \in Remote |-> IF h \in heard THEN got[h] ELSE {}]
<1>3. lists \in [Remote -> SUBSET Name]
  OBVIOUS
<1>4. pass' = [pass EXCEPT !.at = "record", !.heard = heard, !.got = lists]
  BY <1>2
<1> HIDE DEF lists
<1>5. ContainersTypeOK'
  <2>0. pass \in PassType /\ heard \in SUBSET Remote
    BY SMT DEF ContainersTypeOK, PassType
  <2> DEFINE p1 == [pass EXCEPT !.at = "record"]
             p2 == [p1 EXCEPT !.heard = heard]
  <2>4. p1 \in PassType
    BY <2>0, PassChanges
  <2> HIDE DEF p1
  <2>5. p2 \in PassType
    BY <2>0, <2>4, PassChanges
  <2> HIDE DEF p2
  <2>6. [p2 EXCEPT !.got = lists] \in PassType
    BY <1>3, <2>5, PassChanges
  <2>1. pass' \in PassType
    BY <1>4, <2>6, SMT DEF p1, p2
  <2> QED BY <2>1 DEF Fetch, ContainersTypeOK, recordVars, setVars
<1>6. /\ pass'.at = "record" /\ pass'.time = pass.time /\ pass'.ran = pass.ran
      /\ pass'.heard = heard /\ pass'.targets = pass.targets
      /\ pass'.configured = pass.configured /\ pass'.answered = pass.answered
      /\ pass'.left = pass.left
  BY <1>4, SMT DEF ContainersTypeOK, PassType
<1>7. pass.at = "fetch" /\ pass.configured \subseteq polled \cup pass.left
  BY SMT DEF Fetch, SectionsAreOfTheSet
<1> QED BY <1>1, <1>5, <1>6, <1>7, PassGoesOn DEF Fetch, PassIsLast

\* Of the runtimes that saw a container, of three at most, one is the last.
LEMMA LastIsOne ==
    ASSUME NEW by \in SUBSET Runtime, by # {}
    PROVE  (CHOOSE r \in by : \A q \in by : q <= r) \in by
<1> USE ContainersAssumption
<1>1. by \subseteq {1, 2, 3}
  BY SMT DEF Runtime
<1>2. \E r \in by : \A q \in by : q <= r
  <2>1. CASE 3 \in by
    BY <1>1, <2>1, SMT
  <2>2. CASE 3 \notin by /\ 2 \in by
    BY <1>1, <2>2, SMT
  <2>3. CASE 3 \notin by /\ 2 \notin by
    <3>1. by = {1}
      BY <1>1, <2>3
    <3> QED BY <3>1, SMT
  <2> QED BY <2>1, <2>2, <2>3
<1> QED BY <1>2

\* What lets a pass date a record is what it saw itself.
LEMMA SeenIsSaw ==
    ASSUME NEW s \in Scope, NEW n \in Name, Took(s), pass \in PassType
    PROVE  /\ SeenBy(s, n) # {} <=> Saw(s, n)
           /\ s = Here => SeenBy(s, n) \in SUBSET Runtime
           /\ s # Here => SeenBy(s, n) \in SUBSET {Theirs}
<1> USE ContainersAssumption
<1>1. CASE s = Here
  <2>1. \A r \in Runtime : r # Unknown
    BY SMT DEF Runtime, Unknown
  <2>2. pass.answered \in SUBSET Runtime /\ Here \notin pass.heard
    <3>1. pass.answered \in SUBSET Runtime /\ pass.heard \in SUBSET Remote
      BY SMT DEF PassType
    <3> QED BY <3>1 DEF ContainersAssumption
  <2>3. \A r \in Runtime : n \in Merged(r) /\ FreshFacts(r) <=>
            r \in pass.answered /\ n \in pass.list[r]
    BY <2>1 DEF Merged, FreshFacts
  <2> QED BY <1>1, <2>2, <2>3 DEF SeenBy, Saw
<1>2. CASE s # Here
  BY <1>2 DEF SeenBy, Saw, Took
<1> QED BY <1>1, <1>2

\* What a pass makes of one record: it is dated by what was sighted.
LEMMA NotedIsDated ==
    ASSUME PanelInd, pass.at = "record", NEW s \in Scope, NEW n \in Name,
           NEW due \in Nat,
           due = IF IsExpected(rule[s][n]) /\ Saw(s, n) THEN pass.time ELSE sighted[s][n]
    PROVE  /\ Noted(s, n) \in PresenceRecord
           /\ Noted(s, n) # NoRecord =>
                 IF Noted(s, n).runtime = Unknown THEN Noted(s, n).seen >= due
                                                  ELSE Noted(s, n).seen = due
<1> USE ContainersAssumption
<1> USE DEF PanelInd
<1> DEFINE old == presence[s][n]
<1>1. /\ pass \in PassType /\ pass.time \in 0..LastTick /\ old \in PresenceRecord
      /\ sighted[s][n] \in Nat /\ sighted[s][n] <= pass.time
  BY SMT DEF ContainersTypeOK, PassType, PresenceMap, Times, PassIsLast
<1>2. old # NoRecord =>
        IF old.runtime = Unknown THEN old.seen >= sighted[s][n] ELSE old.seen = sighted[s][n]
  BY DEF RecordsAreTrue, DatedBySightings
<1>3. Saw(s, n) => Took(s)
  <2>1. Here \notin pass.heard
    BY <1>1, SMT DEF PassType
  <2> QED BY <2>1 DEF Saw, Took, PassIsLast
<1>4. NoRecord \in PresenceRecord
  BY NothingIsTyped
<1>5. CASE Noted(s, n) = NoRecord
  BY <1>4, <1>5
<1>6. CASE Noted(s, n) = old /\ ~(IsExpected(rule[s][n]) /\ Saw(s, n))
  BY <1>1, <1>2, <1>6
<1>7. CASE Took(s) /\ IsExpected(rule[s][n]) /\ SeenBy(s, n) # {}
  <2> DEFINE by == SeenBy(s, n)
             last == CHOOSE r \in by : \A q \in by : q <= r
  <2>1. last \in 0..Theirs
    <3>1. CASE s = Here
      <4>1. last \in by /\ by \in SUBSET Runtime
        BY <1>1, <1>7, <3>1, SeenIsSaw, LastIsOne
      <4> QED BY <4>1, SMT DEF Runtime, Theirs
    <3>2. CASE s # Here
      <4>1. by = {Theirs} /\ Theirs \in Nat
        BY <1>1, <1>7, <3>2, SeenIsSaw, SMT DEF Theirs
      <4>2. last = Theirs
        BY <4>1, SMT
      <4> QED BY <4>1, <4>2, SMT
    <3> QED BY <3>1, <3>2
  <2>2. Noted(s, n) = [seen |-> pass.time, runtime |-> last]
    BY <1>7 DEF Noted
  <2>3. due = pass.time
    BY <1>1, <1>7, SeenIsSaw
  <2> HIDE DEF last
  <2> QED BY <1>1, <2>1, <2>2, <2>3, SMT DEF PresenceRecord
<1>8. CASE Noted(s, n) = [seen |-> pass.time, runtime |-> Unknown] /\ ~Saw(s, n)
  BY <1>1, <1>8, SMT DEF PresenceRecord, Unknown, Theirs
<1>9. \/ Noted(s, n) = NoRecord
      \/ Noted(s, n) = old /\ ~(IsExpected(rule[s][n]) /\ Saw(s, n))
      \/ Took(s) /\ IsExpected(rule[s][n]) /\ SeenBy(s, n) # {}
      \/ Noted(s, n) = [seen |-> pass.time, runtime |-> Unknown] /\ ~Saw(s, n)
  BY <1>1, <1>3, SeenIsSaw DEF Noted
<1> QED BY <1>5, <1>6, <1>7, <1>8, <1>9

LEMMA PassRecords == PanelInd /\ Record => PanelInd'
<1> SUFFICES ASSUME PanelInd, Record PROVE PanelInd' OBVIOUS
<1> USE ContainersAssumption
<1> DEFINE date(s, n) == IF IsExpected(rule[s][n]) /\ Saw(s, n) THEN pass.time ELSE sighted[s][n]
<1>1. /\ pass.at = "record" /\ pass' = [pass EXCEPT !.at = "apply"]
      /\ UNCHANGED <<now, rule, setVars, panel, render, told>>
      /\ presence' = [s \in Scope |-> [n \in Name |-> Noted(s, n)]]
      /\ sighted' = [s \in Scope |-> [n \in Name |-> date(s, n)]]
      /\ Saved \/ UNCHANGED onDisk
  BY DEF Record
<1>2. pass \in PassType /\ pass' \in PassType
  BY <1>1, PassChanges DEF PanelInd, ContainersTypeOK
<1>3. /\ pass'.at = "apply" /\ pass'.time = pass.time /\ pass'.ran = pass.ran
      /\ pass'.answered = pass.answered /\ pass'.list = pass.list
      /\ pass'.configured = pass.configured /\ pass'.targets = pass.targets
      /\ pass'.heard = pass.heard /\ pass'.got = pass.got /\ pass'.left = pass.left
  BY <1>1, <1>2, SMT DEF PassType
<1>4. \A s \in Scope, n \in Name :
        /\ sighted[s][n] \in 0..LastTick /\ pass.time \in 0..LastTick
        /\ date(s, n) \in 0..LastTick /\ date(s, n) \in Nat
        /\ sighted[s][n] <= date(s, n) /\ date(s, n) <= pass.time
  <2>1. \A s \in Scope, n \in Name : sighted[s][n] \in 0..LastTick /\ sighted[s][n] <= pass.time
    BY <1>1, SMT DEF PanelInd, ContainersTypeOK, Times, PassIsLast
  <2>2. pass.time \in 0..LastTick
    BY <1>2, SMT DEF PassType
  <2> QED BY <2>1, <2>2, SMT
<1>5. \A s \in Scope, n \in Name :
        /\ Noted(s, n) \in PresenceRecord
        /\ Noted(s, n) # NoRecord =>
              IF Noted(s, n).runtime = Unknown THEN Noted(s, n).seen >= date(s, n)
                                               ELSE Noted(s, n).seen = date(s, n)
  BY <1>1, <1>4, NotedIsDated
<1>6. \A s \in Scope, n \in Name : presence'[s][n] = Noted(s, n) /\ sighted'[s][n] = date(s, n)
  BY <1>1
<1>7. presence' \in PresenceMap /\ sighted' \in Times
  BY <1>1, <1>4, <1>5 DEF PresenceMap, Times
<1>8. onDisk' = [rule |-> rule, presence |-> presence', sighted |-> sighted'] \/ onDisk' = onDisk
  BY <1>1 DEF Saved
<1> HIDE DEF date
<1>9. ContainersTypeOK'
  <2>1. onDisk' \in [rule : RuleMap, presence : PresenceMap, sighted : Times]
    BY <1>7, <1>8 DEF PanelInd, ContainersTypeOK
  <2> QED BY <1>1, <1>2, <1>7, <2>1 DEF PanelInd, ContainersTypeOK, setVars
<1>10. RecordsAreTrue'
  <2>1. DatedBySightings(presence', sighted')
    BY <1>5, <1>6 DEF DatedBySightings
  <2>2. DatedBySightings(onDisk'.presence, onDisk'.sighted)
    <3>1. CASE onDisk' = onDisk
      BY <3>1 DEF PanelInd, RecordsAreTrue
    <3>2. CASE onDisk' = [rule |-> rule, presence |-> presence', sighted |-> sighted']
      BY <3>2, <2>1
    <3> QED BY <1>8, <3>1, <3>2
  <2> QED BY <2>1, <2>2 DEF RecordsAreTrue
<1>11. PassIsLast'
  <2>1. \A s \in Scope, n \in Name :
          /\ told[s][n] <= sighted'[s][n] /\ sighted'[s][n] <= now
          /\ onDisk'.sighted[s][n] <= now /\ sighted'[s][n] <= pass.time
    <3> SUFFICES ASSUME NEW s \in Scope, NEW n \in Name
                 PROVE  /\ told[s][n] <= sighted'[s][n] /\ sighted'[s][n] <= now
                        /\ onDisk'.sighted[s][n] <= now /\ sighted'[s][n] <= pass.time
      OBVIOUS
    <3>1. /\ told[s][n] = sighted[s][n] /\ onDisk.sighted[s][n] <= now
          /\ pass.time <= now /\ now \in Nat
      BY <1>1, SMT DEF PanelInd, PassIsLast, ContainersTypeOK
    <3>2. sighted'[s][n] = date(s, n) /\ sighted[s][n] <= date(s, n) /\ date(s, n) <= pass.time
      BY <1>4, <1>6
    <3>3. date(s, n) \in Nat /\ pass.time \in Nat
      BY <1>4, SMT
    <3>4. date(s, n) <= now
      BY <3>1, <3>2, <3>3, SMT
    <3>5. onDisk'.sighted[s][n] \in {onDisk.sighted[s][n], sighted'[s][n]}
      BY <1>8
    <3> QED BY <3>1, <3>2, <3>4, <3>5
  <2>2. /\ pass.time <= now /\ pass.heard \subseteq pass.configured
        /\ pass.targets \subseteq pass.configured
        /\ pass.answered # {} => pass.ran
    BY DEF PanelInd, PassIsLast
  <2>3. now' = now /\ told' = told
    BY <1>1
  <2>4. /\ pass'.time = pass.time /\ pass'.heard = pass.heard /\ pass'.at = "apply"
        /\ pass'.configured = pass.configured /\ pass'.targets = pass.targets
        /\ pass'.answered = pass.answered /\ pass'.ran = pass.ran
    BY <1>3
  <2> QED BY <2>1, <2>2, <2>3, <2>4 DEF PassIsLast
<1>12. SectionsAreOfTheSet'
  BY <1>1, <1>3 DEF PanelInd, SectionsAreOfTheSet, setVars
<1>13. RenderIsOfThisPass'
  <2> SUFFICES ASSUME render.reading, NEW s \in Scope, NEW n \in Name, render.due[s][n] # Never
               PROVE  /\ render.due[s][n] >= told[s][n]
                      /\ render.due[s][n] >= sighted'[s][n] \/ Saw(s, n)'
    BY <1>1, <1>3 DEF RenderIsOfThisPass
  <2>1. render.due[s][n] >= told[s][n] /\ told[s][n] = sighted[s][n]
    BY <1>1 DEF PanelInd, RenderIsOfThisPass, PassIsLast
  <2>2. Saw(s, n)' <=> Saw(s, n)
    BY <1>3 DEF Saw
  <2>3. sighted'[s][n] = sighted[s][n] \/ Saw(s, n)
    BY <1>6 DEF date
  <2> QED BY <2>1, <2>2, <2>3
<1> QED BY <1>9, <1>10, <1>11, <1>12, <1>13 DEF PanelInd

LEMMA PassApplies == PanelInd /\ Apply => PanelInd'
<1> SUFFICES ASSUME PanelInd, Apply PROVE PanelInd' OBVIOUS
<1> USE ContainersAssumption
<1> DEFINE sections == Retained(panel.sections \cup pass.heard)
           known == [r \in Runtime |-> IF r \in pass.answered THEN pass.list[r] ELSE panel.known[r]]
           detected == IF pass.ran THEN pass.answered \cup pass.failed ELSE panel.detected
           list == [h \in Remote |-> IF h \notin sections THEN {}
                                     ELSE IF h \in pass.heard THEN pass.got[h] ELSE panel.list[h]]
           ok == [s \in Scope |-> IF s \in Clocks THEN pass.time
                                  ELSE IF s = Here \/ Retained({s}) # {} THEN panel.ok[s] ELSE Never]
<1>1. /\ pass.at = "apply" /\ pass' = NoPass /\ told' = sighted /\ left' = pass.left
      /\ panel' = [known |-> known, detected |-> detected, sections |-> sections,
                   list |-> list, ok |-> ok]
      /\ UNCHANGED <<now, recordVars, polled, usable, render, sighted>>
  BY DEF Apply
<1>2. pass \in PassType /\ panel \in PanelType
  BY DEF PanelInd, ContainersTypeOK
<1>3. /\ pass.time \in 0..LastTick /\ pass.answered \in SUBSET Runtime
      /\ pass.failed \in SUBSET Runtime /\ pass.list \in [Runtime -> SUBSET Name]
      /\ pass.heard \in SUBSET Remote /\ pass.got \in [Remote -> SUBSET Name]
      /\ pass.left \in SUBSET Remote
  BY <1>2, SMT DEF PassType
<1>4. /\ panel.known \in [Runtime -> SUBSET Name] /\ panel.detected \in SUBSET Runtime
      /\ panel.sections \in SUBSET Remote /\ panel.list \in [Remote -> SUBSET Name]
      /\ panel.ok \in [Scope -> 0..LastTick]
  BY <1>2, SMT DEF PanelType
<1>5. panel' \in PanelType
  <2>1. known \in [Runtime -> SUBSET Name]
    BY <1>3, <1>4
  <2>2. detected \in SUBSET Runtime
    BY <1>3, <1>4
  <2>3. sections \in SUBSET Remote
    BY <1>3, <1>4 DEF Retained
  <2>4. list \in [Remote -> SUBSET Name]
    BY <1>3, <1>4
  <2>5. ok \in [Scope -> 0..LastTick]
    BY <1>3, <1>4, SMT DEF Never
  <2> HIDE DEF known, detected, sections, list, ok
  <2> QED BY <1>1, <2>1, <2>2, <2>3, <2>4, <2>5 DEF PanelType
<1>6. /\ panel'.known = known /\ panel'.detected = detected /\ panel'.sections = sections
      /\ panel'.list = list
  BY <1>1
<1>7. ContainersTypeOK'
  BY <1>1, <1>3, <1>5, NothingIsTyped DEF PanelInd, ContainersTypeOK, recordVars
<1>8. RecordsAreTrue'
  BY <1>1 DEF PanelInd, RecordsAreTrue, DatedBySightings, recordVars
<1>9. PassIsLast'
  <2>1. \A s \in Scope, n \in Name :
          /\ sighted[s][n] \in Nat /\ sighted[s][n] <= now /\ onDisk.sighted[s][n] <= now
    BY SMT DEF PanelInd, PassIsLast, ContainersTypeOK, Times
  <2>2. /\ NoPass.at = "idle" /\ NoPass.time = 0 /\ NoPass.heard = {} /\ NoPass.answered = {}
        /\ NoPass.targets = {}
    BY DEF NoPass, Never
  <2>3. now \in Nat
    BY SMT DEF PanelInd, ContainersTypeOK
  <2> QED BY <1>1, <2>1, <2>2, <2>3, SMT DEF PassIsLast, recordVars
<1>10. SectionsAreOfTheSet'
  <2>1. sections \subseteq polled \cup pass.left
    BY <1>1 DEF PanelInd, SectionsAreOfTheSet, Retained
  <2>2. NoPass.at = "idle"
    BY DEF NoPass
  <2> QED BY <1>1, <1>6, <2>1, <2>2 DEF SectionsAreOfTheSet
<1>11. RenderIsOfThisPass'
  <2> SUFFICES ASSUME render.reading, NEW s \in Scope, NEW n \in Name, render.due[s][n] # Never
               PROVE  \/ render.due[s][n] >= sighted[s][n] \/ n \in Listed(s)'
                      \/ s # Here /\ s \notin panel'.sections
    <3>1. NoPass.at = "idle"
      BY DEF NoPass
    <3> QED BY <1>1, <3>1 DEF RenderIsOfThisPass
  <2>1. render.due[s][n] >= sighted[s][n] \/ Saw(s, n)
    BY <1>1 DEF PanelInd, RenderIsOfThisPass
  <2>2. CASE s = Here /\ \E r \in pass.answered : n \in pass.list[r]
    <3>1. PICK r \in pass.answered : n \in pass.list[r]
      BY <2>2
    <3>2. r \in detected /\ known[r] = pass.list[r]
      BY <1>3, <3>1 DEF PanelInd, PassIsLast
    <3> QED BY <1>6, <2>2, <3>1, <3>2 DEF Listed
  <2>3. CASE s \in pass.heard /\ n \in pass.got[s]
    <3>1. s # Here /\ s \in Remote
      BY <1>3, <2>3 DEF ContainersAssumption
    <3>2. s \in sections
      BY <2>3 DEF Retained, PanelInd, PassIsLast
    <3>3. list[s] = pass.got[s]
      BY <2>3, <3>1, <3>2
    <3> QED BY <1>6, <2>3, <3>1, <3>3 DEF Listed
  <2> QED BY <2>1, <2>2, <2>3 DEF Saw
<1> QED BY <1>7, <1>8, <1>9, <1>10, <1>11 DEF PanelInd

LEMMA RenderBegins == PanelInd /\ BeginRender => PanelInd'
<1> SUFFICES ASSUME PanelInd, BeginRender PROVE PanelInd' OBVIOUS
<1> USE ContainersAssumption
<1> USE DEF PanelInd, BeginRender, recordVars, setVars
<1> DEFINE due == [s \in Scope |-> [n \in Name |->
                     IF HasRow(rule[s][n]) THEN presence[s][n].seen ELSE Never]]
<1>1. render' = [reading |-> TRUE, due |-> due]
  OBVIOUS
<1>2. due \in Times
  <2>1. \A s \in Scope, n \in Name : presence[s][n].seen \in 0..LastTick
    BY DEF ContainersTypeOK, PresenceMap, PresenceRecord
  <2> QED BY <2>1, SMT DEF Times, Never
<1>3. ContainersTypeOK'
  BY <1>1, <1>2 DEF ContainersTypeOK, RenderType
<1>4. RecordsAreTrue'
  BY DEF RecordsAreTrue, DatedBySightings
<1>5. PassIsLast'
  BY DEF PassIsLast
<1>6. SectionsAreOfTheSet'
  BY DEF SectionsAreOfTheSet
<1>7. RenderIsOfThisPass'
  <2> SUFFICES ASSUME NEW s \in Scope, NEW n \in Name, due[s][n] # Never
               PROVE  due[s][n] >= told[s][n] /\ due[s][n] >= sighted[s][n]
    BY <1>1 DEF RenderIsOfThisPass
  <2>1. due[s][n] = presence[s][n].seen /\ presence[s][n] # NoRecord
    BY DEF NoRecord
  <2>2. /\ presence[s][n].seen \in Nat /\ sighted[s][n] \in Nat /\ told[s][n] \in Nat
        /\ told[s][n] <= sighted[s][n]
    BY SMT DEF ContainersTypeOK, PresenceMap, PresenceRecord, Times, PassIsLast
  <2>3. presence[s][n].seen >= sighted[s][n]
    BY <2>1, <2>2, SMT DEF RecordsAreTrue, DatedBySightings
  <2> QED BY <2>1, <2>2, <2>3, SMT
<1> QED BY <1>3, <1>4, <1>5, <1>6, <1>7

LEMMA RenderEnds == PanelInd /\ EndRender => PanelInd'
<1> SUFFICES ASSUME PanelInd, EndRender PROVE PanelInd' OBVIOUS
<1> USE DEF PanelInd, EndRender, recordVars, setVars
<1>1. ContainersTypeOK'
  BY NothingIsTyped DEF ContainersTypeOK
<1>2. RecordsAreTrue'
  BY DEF RecordsAreTrue, DatedBySightings
<1>3. PassIsLast'
  BY DEF PassIsLast
<1>4. SectionsAreOfTheSet'
  BY DEF SectionsAreOfTheSet
<1>5. RenderIsOfThisPass'
  BY DEF RenderIsOfThisPass, NoRender
<1> QED BY <1>1, <1>2, <1>3, <1>4, <1>5

\* The panel's inductive invariant.
THEOREM PanelIsInductive == ContainersSpec => []PanelInd
<1>1. PanelInd /\ [ContainersNext]_containersVars => PanelInd'
  <2> SUFFICES ASSUME PanelInd, [ContainersNext]_containersVars PROVE PanelInd' OBVIOUS
  <2>1. CASE ContainersNext
    BY <2>1, TimePasses, StoreIsWritten, HostsAreReloaded, AppStartsAgain, PassBegins,
       RuntimesAnswer, PollSetIsTaken, HostsAnswer, PassRecords, PassApplies,
       RenderBegins, RenderEnds DEF ContainersNext
  <2>2. CASE UNCHANGED containersVars
    BY <2>2 DEF containersVars, recordVars, setVars, PanelInd, ContainersTypeOK,
       RecordsAreTrue, DatedBySightings, PassIsLast, SectionsAreOfTheSet,
       RenderIsOfThisPass, Saw, Listed
  <2> QED BY <2>1, <2>2
<1> QED BY <1>1, PanelBegins, PTL DEF ContainersSpec

\* Alarms are earned and put off by nothing but sightings, whichever runtimes
\* and saves fail, whatever is edited meanwhile and however often the app is
\* started again; and no section outlives its host by more than a pass.
THEOREM AlarmsAreEarned == ContainersSpec => []ContainersInv
<1>1. PanelInd => ContainersInv
  <2> SUFFICES ASSUME PanelInd PROVE ContainersInv OBVIOUS
  <2> USE ContainersAssumption
  <2>1. MissingIsEarned
    <3> SUFFICES ASSUME render.reading, NEW s \in Scope, NEW n \in Name, ShownMissing(s, n)
                 PROVE  panel.ok[s] - told[s][n] >= Grace
      BY DEF MissingIsEarned
    <3>1. render.due[s][n] >= told[s][n]
      BY DEF PanelInd, RenderIsOfThisPass, ShownMissing
    <3>2. panel.ok[s] \in Nat /\ told[s][n] \in Nat /\ render.due[s][n] \in Nat /\ Grace \in Nat
      BY SMT DEF PanelInd, ContainersTypeOK, PanelType, RenderType, Times
    <3>3. panel.ok[s] - render.due[s][n] >= Grace
      BY DEF ShownMissing
    <3> QED BY <3>1, <3>2, <3>3, SMT
  <2>2. GhostsEndWithAPass
    BY DEF PanelInd, SectionsAreOfTheSet, GhostsEndWithAPass
  <2> QED BY <2>1, <2>2 DEF ContainersInv, PanelInd
<1> QED BY <1>1, PanelIsInductive, PTL
=============================================================================

----------------------------- MODULE Dashboard -----------------------------
(***************************************************************************)
(* The page of the dashboard and the commands it calls: the overview that  *)
(* is read every second, the edits of the layout with their undo history,  *)
(* the changes of what all tiles share, and the Full view of one tile,     *)
(* whose panel reads on its own.                                           *)
(*                                                                         *)
(* A command runs in one step of the app (they are synchronous, on its     *)
(* main thread), at any time after the page asked; its answer arrives at   *)
(* any time after that, and before or after the answer to another call.    *)
(* The answer to an edit may also be lost, which the page takes for a      *)
(* failed edit.  A layout is the set of tiles that are not hidden; all the *)
(* tiles are of one source, so that they share a panel.                    *)
(***************************************************************************)
EXTENDS Naturals, Sequences, FiniteSets

CONSTANTS
    Tile,
    NoTile,
    MaxUndo,    \* how many edits can be undone
    MaxSteps,   \* bound: edits, changes and Full views together
    MaxEdits,   \* bound: edits and changes that are asked for
    MaxViews,   \* bound: the generation that the last Full view opens
    MaxReads    \* bound: readings of the panel under way

ASSUME DashboardAssumption == NoTile \notin Tile /\ MaxUndo \in Nat \ {0}

VARIABLES
    stored,     \* the store: revision, layout, and a version of what is shared
    model,      \* what the page shows of them
    undo,       \* history: the layouts that edits replaced
    call,       \* the edit or change under way; `busy` while there is one
    view,       \* the read of the overview under way; `pending` while there is
    acknowledgementVersion,
    settingsOpen,
    fullTile,   \* the tile in its Full view
    fullGeneration,
    loaded,     \* its first reading has landed: the panel's body shows
    body,       \* the tile that the panel's body was painted for
    panelReads,   \* the readings of the panel under way
    edits,      \* how many edits and changes were asked for
    trail,      \* history: what the edits not undone replaced in the store
    unheard     \* history: the answer to an edit was lost, and `undo` was kept

pageVars == <<model, undo, acknowledgementVersion>>
fullVars == <<fullTile, fullGeneration, loaded, body, panelReads>>
dashVars == <<stored, pageVars, call, view, settingsOpen, fullVars, edits, trail, unheard>>

NoCall == [kind |-> "none"]
NoView == [st |-> "none"]
busy    == call.kind # "none"
pending == view.st # "none"

MoreSteps == edits + fullGeneration < MaxSteps
MoreEdits == edits < MaxEdits /\ MoreSteps
MoreViews == fullGeneration < MaxViews /\ MoreSteps

DashInit ==
    /\ stored = [revision |-> 0, layout |-> Tile, shared |-> 0]
    /\ model = stored /\ undo = <<>> /\ acknowledgementVersion = 0
    /\ call = NoCall /\ view = NoView
    /\ settingsOpen = FALSE
    /\ fullTile = NoTile /\ fullGeneration = 0 /\ loaded = FALSE /\ body = NoTile
    /\ panelReads = {}
    /\ edits = 0 /\ trail = <<>> /\ unheard = FALSE

----------------------------------------------------------------------------
(* The overview's read.                                                    *)

Asked(force) ==
    [st |-> "asked", force |-> force, version |-> acknowledgementVersion]

\* `refresh`, called while `isBusy`: it asks nothing while a read or a save is
\* under way, or Settings is open.
Refresh(force, isBusy) ==
    view' = IF pending \/ isBusy \/ settingsOpen THEN view ELSE Asked(force)

\* The timer.
Tick ==
    /\ ~pending /\ ~busy /\ ~settingsOpen
    /\ Refresh(FALSE, busy)
    /\ UNCHANGED <<stored, pageVars, call, settingsOpen, fullVars, edits, trail, unheard>>

\* The command `dashboard_view`.
ViewRuns ==
    /\ view.st = "asked"
    /\ view' = [st |-> "answered", force |-> view.force, version |-> view.version,
                answer |-> stored]
    /\ UNCHANGED <<stored, pageVars, call, settingsOpen, fullVars, edits, trail, unheard>>

\* The tile in its Full view is not on the overview any more.
TileGone == fullTile # NoTile /\ fullTile \notin model'.layout

\* One that is not told from the one before.
SameGeneration == fullGeneration

\* The generation of a Full view that opens or closes.
NextGeneration == fullGeneration + 1

\* The part of `render` that leaves the Full view of a tile that is gone; it
\* reads the overview as well.
Render(isBusy) ==
    IF TileGone
    THEN /\ fullTile' = NoTile /\ fullGeneration' = NextGeneration
         /\ loaded' = FALSE
         /\ Refresh(TRUE, isBusy)
         /\ UNCHANGED <<body, panelReads>>
    ELSE UNCHANGED <<fullVars, view>>

\* A read that is only told by its version.
NeverOlder(answer) == FALSE

\* Whether an answer may be painted: not while something is being saved, not
\* from before a change, not from before an edit.
IsOfBefore(v) == v.version # acknowledgementVersion
IsOlder(answer) == answer.revision < model.revision
Paintable(v) == ~busy /\ ~IsOfBefore(v) /\ ~IsOlder(v.answer)

\* The read returns: painted, dropped, or failed.
GotView ==
    /\ view.st = "answered"
    /\ \/ /\ Paintable(view)
          /\ model' = view.answer
          /\ undo' = IF /\ [view.answer EXCEPT !.shared = 0] # [model EXCEPT !.shared = 0]
                        /\ ~view.force
                     THEN <<>> ELSE undo
          /\ IF TileGone
             THEN /\ fullTile' = NoTile /\ fullGeneration' = NextGeneration
                  /\ loaded' = FALSE /\ UNCHANGED <<body, panelReads>>
             ELSE UNCHANGED fullVars
       \/ UNCHANGED <<model, undo, fullVars>>
    /\ view' = NoView
    /\ unheard' = (unheard /\ undo' # <<>>)
    /\ UNCHANGED <<stored, acknowledgementVersion, call, settingsOpen, edits, trail>>

----------------------------------------------------------------------------
(* Edits of the layout, and their undo.                                    *)

\* `save`.
Save(kind, layout) ==
    /\ ~busy /\ ~settingsOpen /\ fullTile = NoTile
    /\ MoreEdits /\ edits' = edits + 1
    /\ call' = [kind |-> kind, st |-> "asked", next |-> layout, before |-> model]
    /\ UNCHANGED <<stored, pageVars, view, settingsOpen, fullVars, trail, unheard>>

\* A tile is hidden or restored.
Edit == \E t \in Tile :
    Save("edit", IF t \in model.layout THEN model.layout \ {t} ELSE model.layout \cup {t})

Undo == undo # <<>> /\ Save("undo", undo[Len(undo)])

\* An edit whose revision is not compared.
MayPersistAnyhow(before) == TRUE

\* `persist_dashboard` refuses an edit of another revision than the store's.
MayPersist(before) == before.revision = stored.revision

\* The command `dashboard_save`; the write of the store may fail.
SaveRuns ==
    /\ call.kind \in {"edit", "undo"} /\ call.st = "asked"
    /\ \/ /\ MayPersist(call.before)
          /\ stored' = [stored EXCEPT !.revision = @ + 1, !.layout = call.next]
          /\ trail' = IF call.kind = "edit" THEN Append(trail, stored.layout)
                      ELSE SubSeq(trail, 1, Len(trail) - 1)
          /\ call' = [kind |-> call.kind, st |-> "done", before |-> call.before,
                      answer |-> stored']
       \/ call' = [kind |-> call.kind, st |-> "failed"] /\ UNCHANGED <<stored, trail>>
    /\ UNCHANGED <<pageVars, view, settingsOpen, fullVars, edits, unheard>>

\* What the page can undo after an edit that replaced `before`.
Remember(before) ==
    LET longer == Append(undo, before.layout)
    IN IF Len(longer) > MaxUndo THEN Tail(longer) ELSE longer

\* An undo that is remembered like an edit.
NeverForgotten == Append(undo, model.layout)

Forgotten == SubSeq(undo, 1, Len(undo) - 1)

\* The edit was made, and the answer is painted.
GotSave ==
    /\ call.kind \in {"edit", "undo"} /\ call.st = "done"
    /\ undo' = IF call.kind = "undo" THEN Forgotten ELSE Remember(call.before)
    /\ model' = call.answer
    /\ call' = NoCall
    /\ Render(FALSE)
    /\ UNCHANGED <<stored, acknowledgementVersion, settingsOpen, edits, trail, unheard>>

\* The edit failed, or its answer was lost: the overview is read again.
GotNoSave ==
    /\ call.kind \in {"edit", "undo"} /\ call.st \in {"done", "failed"}
    /\ unheard' = (unheard \/ call.st = "done")
    /\ call' = NoCall
    /\ Refresh(FALSE, FALSE)
    /\ UNCHANGED <<stored, pageVars, settingsOpen, fullVars, edits, trail>>

----------------------------------------------------------------------------
(* Changes of what is shared: acknowledged warnings, hidden volumes, group *)
(* labels, container rules, cadences and alert limits.                     *)

\* Answers of before the change are painted too.
SameVersion == acknowledgementVersion

\* The version of the acknowledgements from which answers are painted.
NextVersion == acknowledgementVersion + 1

Change ==
    /\ ~busy /\ ~settingsOpen
    /\ MoreEdits /\ edits' = edits + 1
    /\ acknowledgementVersion' = NextVersion
    /\ call' = [kind |-> "change", st |-> "asked"]
    /\ UNCHANGED <<stored, model, undo, view, settingsOpen, fullVars, trail, unheard>>

\* The command that makes the change; the write of the store may fail.
ChangeRuns ==
    /\ call.kind = "change" /\ call.st = "asked"
    /\ \/ /\ stored' = [stored EXCEPT !.shared = @ + 1]
          /\ call' = [kind |-> "change", st |-> "done", answer |-> stored']
       \/ call' = [kind |-> "change", st |-> "failed"] /\ UNCHANGED stored
    /\ UNCHANGED <<pageVars, view, settingsOpen, fullVars, edits, trail, unheard>>

GotChange ==
    /\ call.kind = "change" /\ call.st \in {"done", "failed"}
    /\ \/ call.st = "done" /\ model' = call.answer
       \/ UNCHANGED model
    /\ call' = NoCall
    /\ Render(FALSE)
    /\ UNCHANGED <<stored, undo, acknowledgementVersion, settingsOpen, edits, trail, unheard>>

----------------------------------------------------------------------------
(* The Full view of a tile, and its panel's readings.                        *)

Reading(t, generation) == [tile |-> t, generation |-> generation, st |-> "asked"]

\* `tileFull`: the panel's body is covered, and read for this tile.
OpenFull(t) ==
    /\ fullTile = NoTile /\ ~settingsOpen /\ t \in model.layout
    /\ MoreViews /\ Cardinality(panelReads) < MaxReads
    /\ fullGeneration' = NextGeneration
    /\ fullTile' = t /\ loaded' = FALSE
    /\ panelReads' = panelReads \cup {Reading(t, NextGeneration)}
    /\ Refresh(TRUE, busy)
    /\ UNCHANGED <<stored, pageVars, call, settingsOpen, body, edits, trail, unheard>>

\* `showOverview`, by Escape or the button.
LeaveFull ==
    /\ fullTile # NoTile /\ ~settingsOpen
    /\ fullTile' = NoTile /\ fullGeneration' = NextGeneration /\ loaded' = FALSE
    /\ Refresh(TRUE, busy)
    /\ UNCHANGED <<stored, pageVars, call, settingsOpen, body, panelReads, edits, trail, unheard>>

\* The panel's own timer.
PanelTick ==
    /\ fullTile # NoTile /\ ~settingsOpen
    /\ Cardinality(panelReads) < MaxReads
    /\ panelReads' = panelReads \cup {Reading(fullTile, fullGeneration)}
    /\ UNCHANGED <<stored, pageVars, call, view, settingsOpen, fullTile, fullGeneration,
                   loaded, body, edits, trail, unheard>>

\* The panel's command refuses a tile that is hidden.
PanelRuns == \E r \in panelReads :
    /\ r.st = "asked"
    /\ panelReads' = (panelReads \ {r}) \cup
         {[r EXCEPT !.st = IF r.tile \in stored.layout THEN "rows" ELSE "refused"]}
    /\ UNCHANGED <<stored, pageVars, call, view, settingsOpen, fullTile, fullGeneration,
                   loaded, body, edits, trail, unheard>>

\* `callRust`: a reading asked for under another Full view is dropped.
GotReading == \E r \in panelReads :
    /\ r.st # "asked"
    /\ IF r.st = "rows" /\ r.generation = fullGeneration
       THEN loaded' = (loaded \/ fullTile = r.tile) /\ body' = r.tile
       ELSE UNCHANGED <<loaded, body>>
    /\ panelReads' = panelReads \ {r}
    /\ UNCHANGED <<stored, pageVars, call, view, settingsOpen, fullTile, fullGeneration,
                   edits, trail, unheard>>

----------------------------------------------------------------------------
(* Settings, over either view.                                             *)

OpenSettings ==
    /\ ~settingsOpen
    /\ settingsOpen' = TRUE
    /\ UNCHANGED <<stored, pageVars, call, view, fullVars, edits, trail, unheard>>

\* Settings saves what is shared on its own.
SaveSettings ==
    /\ settingsOpen /\ MoreEdits
    /\ edits' = edits + 1
    /\ stored' = [stored EXCEPT !.shared = @ + 1]
    /\ UNCHANGED <<pageVars, call, view, settingsOpen, fullVars, trail, unheard>>

\* The view that comes back is read again.
CloseSettings ==
    /\ settingsOpen
    /\ settingsOpen' = FALSE
    /\ view' = IF pending \/ busy THEN view ELSE Asked(TRUE)
    /\ UNCHANGED <<stored, pageVars, call, fullVars, edits, trail, unheard>>

DashNext ==
    \/ Tick \/ ViewRuns \/ GotView
    \/ Edit \/ Undo \/ SaveRuns \/ GotSave \/ GotNoSave
    \/ Change \/ ChangeRuns \/ GotChange
    \/ \E t \in Tile : OpenFull(t)
    \/ LeaveFull \/ PanelTick \/ PanelRuns \/ GotReading
    \/ OpenSettings \/ SaveSettings \/ CloseSettings

DashSpec == DashInit /\ [][DashNext]_dashVars

----------------------------------------------------------------------------
(* Properties.                                                             *)

IsSuffix(s, t) == Len(s) <= Len(t) /\ s = SubSeq(t, Len(t) - Len(s) + 1, Len(t))

\* What Undo would put back is what the last edits replaced in the store, in
\* their order, whatever answers came in between: an undo reverses an edit of
\* this page and nothing else.  Unless an edit's answer was lost (dashboard.js,
\* save and the history of refresh).
UndoReversesTheLastEdits == busy \/ unheard \/ IsSuffix(undo, trail)

\* A panel that shows its body in a tile's Full view shows that tile's rows,
\* and the tile is on the overview (dashboard.js, fullGeneration; app.js,
\* callRust).
BodyIsOfTheTile ==
    /\ fullTile # NoTile => fullTile \in model.layout
    /\ fullTile # NoTile /\ loaded => body = fullTile

\* Both of the above, as one invariant.
DashInv == UndoReversesTheLastEdits /\ BodyIsOfTheTile

\* What the page shows never goes back: not to a layout of before an edit, not
\* to shared settings of before a change that it has shown; and an edit only
\* ever replaces the layout that the page showed when it was made
\* (dashboard.js, refresh; main.rs, persist_dashboard).
ShownNeverGoesBack ==
    [][ /\ model'.revision >= model.revision /\ model'.shared >= model.shared
        /\ stored'.layout # stored.layout => call.before.layout = stored.layout ]_dashVars
=============================================================================

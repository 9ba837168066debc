---------------------------- MODULE VendorWatch ----------------------------
(***************************************************************************)
(* The vendors whose status pages the cockpit watches: the Services loop,  *)
(* the panel's entries, the watch that banners a change, and the edits in  *)
(* Settings that change which vendors are watched while a pass runs.       *)
(***************************************************************************)
EXTENDS Naturals, FiniteSets

CONSTANTS
    Vendor,      \* built-in and operator-added vendors
    Credentialed \* those watched because a credential of theirs is stored

ASSUME VendorWatchAssumption == Credentialed \subseteq Vendor

VARIABLES
    configured,  \* the vendors the store and the keychain ask for
    alerting,    \* the setting notify_on_service_change
    command,     \* Settings: "idle", or "wake" after the save of an edit
    permit,      \* services_wake
    lpc,         \* the loop: "fetch", "flag", "fold", "asleep"
    batch,       \* the vendors of the pass under way
    heard,       \* its copy of the setting
    declared,    \* whether a pass has said what is watched
    watched,     \* ServiceStatuses::vendors
    held,        \* ServiceEntry::status, the last good read
    failing,     \* vendors whose entry has an error
    passError,   \* no vendor answered in the last pass that watched one
    baseline,    \* StatusWatch::seen
    gone,        \* history: vendors off the list since `held` was read
    belief       \* history: the last word read while on the list

loopVars   == <<lpc, batch, heard>>
panelVars  == <<declared, watched, held, failing, passError, baseline, gone, belief>>
vendorVars == <<configured, alerting, command, permit, loopVars, panelVars>>

Word == {"up", "down"}

\* What one page's read can come to; "odd" is a page without a known word.
Answer == Word \union {"odd", "failed"}

VendorInit ==
    /\ configured \in SUBSET Vendor
    /\ alerting = TRUE /\ command = "idle" /\ permit = FALSE
    /\ lpc = "fetch" /\ batch = {} /\ heard = TRUE
    /\ declared = FALSE /\ watched = {}
    /\ held = [v \in Vendor |-> "none"] /\ failing = {} /\ passError = FALSE
    /\ baseline = [v \in Vendor |-> "none"]
    /\ gone = {}
    /\ belief = [v \in Vendor |-> "none"]

----------------------------------------------------------------------------
(* Settings.                                                               *)

\* A page, an account or a credential is added, disabled or removed; the
\* command saves and then wakes the loop.
EditVendor ==
    /\ command = "idle" /\ command' = "wake"
    /\ \E v \in Vendor :
          configured' = IF v \in configured THEN configured \ {v} ELSE configured \union {v}
    /\ UNCHANGED <<alerting, permit, loopVars, panelVars>>

\* Mutant: `notify_waiters`, which is lost on a loop that is not waiting.
OnlyIfWaiting == permit' = (permit \/ lpc = "asleep")

\* `notify_one` stores a permit.
NotifyOne == permit' = TRUE

WakeServices ==
    /\ command = "wake" /\ command' = "idle"
    /\ NotifyOne
    /\ UNCHANGED <<configured, alerting, loopVars, panelVars>>

\* A resume, a cadence saved, Claude rollups appearing.
WakeOtherwise ==
    /\ permit' = TRUE
    /\ UNCHANGED <<configured, alerting, command, loopVars, panelVars>>

ToggleAlerting ==
    /\ alerting' = ~alerting
    /\ UNCHANGED <<configured, command, permit, loopVars, panelVars>>

----------------------------------------------------------------------------
(* The loop.                                                               *)

\* The list is derived afresh: a credential that cannot be read now is not
\* present, so its vendor is not in this pass.
Derive ==
    /\ lpc = "fetch" /\ lpc' = "flag"
    /\ \E unread \in SUBSET (configured \intersect Credentialed) :
          batch' = configured \ unread
    /\ UNCHANGED <<configured, alerting, command, permit, heard, panelVars>>

\* The pages have answered, or have timed out.
ReadAlerting ==
    /\ lpc = "flag" /\ lpc' = "fold" /\ heard' = alerting
    /\ UNCHANGED <<configured, alerting, command, permit, batch, panelVars>>

\* Mutant: the entries of vendors that left stay.
KeepsAll(ans) == [v \in Vendor |-> IF v \in batch /\ ans[v] # "failed" THEN ans[v] ELSE held[v]]

\* The entries of vendors that left are dropped, then the reads are folded in;
\* a failed read keeps the last good one.
Entries(ans) ==
    [v \in Vendor |-> IF v \notin batch THEN "none"
                      ELSE IF ans[v] = "failed" THEN held[v] ELSE ans[v]]

\* A fresh word of this pass; a failed read, or an odd page, is none.
Fresh(v, ans) == v \in batch /\ ans[v] \in Word

\* Mutant: an unreadable page loses its baseline.
LosesUnread(ans) ==
    [v \in Vendor |-> IF Fresh(v, ans) THEN ans[v] ELSE "none"]

\* `StatusWatch::observe`: what left the pass is forgotten, what could not be
\* read is kept, and the rest moves whether it is announced or not.
NewBaseline(ans) ==
    [v \in Vendor |-> CASE v \notin batch   -> "none"
                        [] Fresh(v, ans)    -> ans[v]
                        [] OTHER            -> baseline[v]]

Bannered(ans) ==
    {v \in batch : heard /\ Fresh(v, ans) /\ baseline[v] \notin {"none", ans[v]}}

\* Mutant: one page that is down is enough.
SomeUnread(ans) == \E v \in batch : ans[v] = "failed"

NobodyRead(ans) == batch # {} /\ \A v \in batch : ans[v] = "failed"

\* The pass is folded in under the panel's lock, and the watch is asked.
FoldWith(ans) ==
    /\ declared' = TRUE /\ watched' = batch
    /\ held' = Entries(ans)
    /\ failing' = {v \in batch : ans[v] = "failed"}
    /\ passError' = NobodyRead(ans)
    /\ baseline' = NewBaseline(ans)
    /\ belief' = [v \in Vendor |-> CASE v \notin batch -> "none"
                                     [] Fresh(v, ans)  -> ans[v]
                                     [] OTHER          -> belief[v]]
    /\ gone' = {v \in Vendor : /\ held'[v] # "none"
                               /\ v \notin batch \/ (v \in gone /\ ans[v] = "failed")}

Fold ==
    /\ lpc = "fold" /\ lpc' = "asleep"
    /\ \E ans \in [Vendor -> Answer] : FoldWith(ans)
    /\ batch' = {} /\ heard' = TRUE
    /\ UNCHANGED <<configured, alerting, command, permit>>

\* The sleep ends with a permit, or with the cadence.
Woken ==
    /\ lpc = "asleep" /\ permit
    /\ lpc' = "fetch" /\ permit' = FALSE
    /\ UNCHANGED <<configured, alerting, command, batch, heard, panelVars>>

CadenceOver ==
    /\ lpc = "asleep" /\ lpc' = "fetch"
    /\ UNCHANGED <<configured, alerting, command, permit, batch, heard, panelVars>>

----------------------------------------------------------------------------

ServicesLoop == Derive \/ ReadAlerting \/ Fold \/ Woken

VendorNext ==
    \/ ServicesLoop \/ CadenceOver
    \/ EditVendor \/ WakeServices \/ WakeOtherwise \/ ToggleAlerting

\* Every request has a timeout, a command begun is finished, and a permit ends
\* the sleep.  Nothing is assumed of the cadence, which may be hours.
VendorFairness == WF_vendorVars(ServicesLoop) /\ WF_vendorVars(WakeServices)

VendorSpec == VendorInit /\ [][VendorNext]_vendorVars /\ VendorFairness

----------------------------------------------------------------------------
(* Properties.                                                             *)

VendorTypeOK ==
    /\ configured \subseteq Vendor /\ watched \subseteq Vendor
    /\ batch \subseteq Vendor /\ failing \subseteq watched /\ gone \subseteq Vendor
    /\ alerting \in BOOLEAN /\ heard \in BOOLEAN /\ declared \in BOOLEAN
    /\ permit \in BOOLEAN /\ passError \in BOOLEAN
    /\ command \in {"idle", "wake"}
    /\ lpc \in {"fetch", "flag", "fold", "asleep"}
    /\ held \in [Vendor -> Word \union {"none", "odd"}]
    /\ baseline \in [Vendor -> Word \union {"none"}]
    /\ belief \in [Vendor -> Word \union {"none"}]

\* A vendor is bannered about when, and only when, this pass read a word other
\* than the last one read since the vendor came onto the list: a page that was
\* unreadable in between loses no recovery, a vendor that was off the list or
\* whose credential could not be read is not announced on its return, and
\* nothing that changed while banners were off is told later
\* (`StatusWatch::observe`, `ServiceStatuses::readings`).
BannerIsChange ==
    [][\A ans \in [Vendor -> Answer] :
          lpc = "fold" /\ lpc' = "asleep" /\ FoldWith(ans) =>
              Bannered(ans) = {v \in batch : /\ heard /\ ans[v] \in Word
                                             /\ belief[v] \notin {"none", ans[v]}}]_vendorVars

\* The panel never paints a status that was read before the vendor last left
\* the list, however the passes and the reads went since
\* (`ServiceStatuses::watching`).
HeldIsWatched == \A v \in Vendor : held[v] # "none" => v \in watched /\ v \notin gone

\* The footer says that no page could be read exactly when the panel has rows
\* and each of them says it of itself (`ServiceStatuses::pass_finished`), so an
\* emptied list ends it and one vendor's outage does not start it.
FooterAgreesWithRows == passError <=> watched # {} /\ failing = watched

\* A vendor added or removed in Settings is on or off the panel without waiting
\* for the cadence, wherever in its pass the loop was at the edit and however
\* often others wake it (`settings_save_status_vendor`, `services_loop`).
EditIsSeen ==
    <>[][~EditVendor]_vendorVars /\ <>declared
        => <>[](watched \ Credentialed = configured \ Credentialed)

\* No edit is left to the cadence: once its command has ended, a loop that sleeps
\* with no permit to wake it has the list as edited on the panel, but for vendors
\* whose credential it could not read, however the edit and its wake fell into
\* the passes before (`notify_one` in `wake_services`).
NoEditMissed ==
    lpc = "asleep" /\ ~permit /\ command = "idle" =>
        watched \subseteq configured /\ configured \ watched \subseteq Credentialed

\* What the panel holds is of the vendors now watched, rows and footer alike,
\* and those are the list's.
PanelIsOfTheList == VendorTypeOK /\ HeldIsWatched /\ FooterAgreesWithRows /\ NoEditMissed

\* An edited list is on the panel at once, and its banners are changes.
VendorsAreTold == BannerIsChange /\ EditIsSeen
=============================================================================

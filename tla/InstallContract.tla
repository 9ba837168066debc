-------------------------- MODULE InstallContract --------------------------
(***************************************************************************)
(* What the agent's updater promises about an install, without files,      *)
(* steps, network or service: one transaction at a time, and within it the *)
(* live executable and the rollback anchor change only in these ways.      *)
(***************************************************************************)
EXTENDS Integers

CONSTANTS Proc, Bin, Ver, Signed, NoProc, Absent

VARIABLES
    live,    \* the installed executable
    prev,    \* the one a rollback returns to
    holder,  \* the process whose transaction is open
    start    \* live and prev when it was opened

cvars == <<live, prev, holder, start>>

Init ==
    /\ live \in Bin
    /\ prev \in Bin \union {Absent}
    /\ holder = NoProc
    /\ start = [live |-> live, prev |-> prev]

Open(p) ==
    /\ holder = NoProc /\ holder' = p
    /\ start' = [live |-> live, prev |-> prev]
    /\ UNCHANGED <<live, prev>>

Close ==
    /\ holder # NoProc /\ holder' = NoProc
    /\ UNCHANGED <<live, prev, start>>

\* The live executable is saved before it is replaced.
Save ==
    /\ live = start.live /\ prev' = live
    /\ UNCHANGED <<live, holder, start>>

\* Only a strictly newer signed release is installed over what was saved.
Install ==
    /\ live = start.live /\ prev = start.live
    /\ live' \in Signed /\ Ver[live] > 0 /\ Ver[live'] > Ver[live]
    /\ UNCHANGED <<prev, holder, start>>

\* A failed update puts back exactly what it replaced.
Recover ==
    /\ prev = start.live /\ live' = start.live
    /\ UNCHANGED <<prev, holder, start>>

\* A rollback exchanges the two, the live one first.
RollBack ==
    /\ live = start.live /\ prev = start.prev
    /\ prev # Absent /\ live' = prev
    /\ UNCHANGED <<prev, holder, start>>

KeepDisplaced ==
    /\ live = start.prev /\ prev' = start.live
    /\ UNCHANGED <<live, holder, start>>

\* Between transactions the operator may place another anchor by hand.
PlaceByHand ==
    /\ holder = NoProc
    /\ prev' \in Bin
    /\ UNCHANGED <<live, holder, start>>

Next ==
    \/ \E p \in Proc : Open(p)
    \/ holder # NoProc /\ (Save \/ Install \/ Recover \/ RollBack
                                \/ KeepDisplaced \/ Close)
    \/ PlaceByHand

Spec == Init /\ [][Next]_cvars
=============================================================================

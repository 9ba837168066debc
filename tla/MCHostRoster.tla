---------------------------- MODULE MCHostRoster ----------------------------
(***************************************************************************)
(* A small instance of HostRoster: two addresses, one certificate and at   *)
(* most two hosts.  A behaviour has either Settings alone, with two tokens *)
(* and two failures of the file or the keychain, or both actors, with one  *)
(* token and no failure; or it is one of the dashboard's page, which       *)
(* shares nothing with these.                                              *)
(***************************************************************************)
EXTENDS HostRoster, Dashboard, TLC

CONSTANTS e1, e2, c1, t1, t2, d1, d2

VARIABLE part

MCActors   == {"settings", "handoff"}
MCEndpoint == {e1, e2}
MCPin      == {c1}
MCToken    == {t1, t2}
MCTile     == {d1, d2}
MCSymmetry == Permutations(MCEndpoint)

rosterVars == <<vars, dashVars, part>>

MCInit ==
    /\ Init /\ DashInit /\ part \in {"settings", "both", "page"}
    /\ part = "page" => minted = 0

SettingsAlone ==
    /\ part = "settings" /\ Next /\ pc'["handoff"] = "idle"
    /\ UNCHANGED <<dashVars, part>>

BothOfThem ==
    /\ part = "both" /\ Next /\ UNCHANGED <<dashVars, part>>
    /\ faults' = 0 /\ \A a \in Actors : op'[a].token # t2
    /\ req' # Nothing => req'.token # t2

PagePart == part = "page" /\ DashNext /\ UNCHANGED <<vars, part>>

MCSpec == MCInit /\ [][SettingsAlone \/ BothOfThem \/ PagePart]_rosterVars
=============================================================================

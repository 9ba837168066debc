---------------------------- MODULE DurableFile ----------------------------
(***************************************************************************)
(* What a saved file promises: it is always whole, a save happens or does  *)
(* not, and after a power loss the file is one that was saved before.      *)
(***************************************************************************)
CONSTANTS Contents, NoFile

VARIABLES
    value,      \* the file as programs read it
    lasting,    \* the file a power loss would leave
    pending     \* what is being saved, or NoFile

Init == value \in Contents \union {NoFile} /\ lasting = value /\ pending = NoFile

Ask == pending = NoFile /\ pending' \in Contents /\ UNCHANGED <<value, lasting>>

Commit ==
    /\ pending # NoFile /\ value' = pending /\ pending' = NoFile
    /\ lasting' \in {lasting, pending}

Settle == lasting' = value /\ UNCHANGED <<value, pending>>

\* The save fails, or the process stops, with the machine or without.
GiveUp ==
    /\ pending' = NoFile /\ value' \in {value, lasting} /\ UNCHANGED lasting

Next == Ask \/ Commit \/ Settle \/ GiveUp

Spec == Init /\ [][Next]_<<value, lasting, pending>>
=============================================================================

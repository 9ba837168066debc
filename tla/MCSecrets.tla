----------------------------- MODULE MCSecrets -----------------------------
(***************************************************************************)
(* What the system keeps on disk, in one run: the app's credential store   *)
(* and store file, what install.sh puts on a host, and the presence        *)
(* records of the containers panel.  What the first two share (a launch,   *)
(* and whether the v1 token is there) is nondeterministic in the store     *)
(* file's, and a failed save in the panel's, so a behaviour follows the    *)
(* one that `part` names and the others stay as they began.                *)
(*                                                                         *)
(* One fixed credential, one host and one vendor account: every kind of    *)
(* key, and two keys for the two writers to race on.  Two values tell a    *)
(* stale credential from a current one.                                    *)
(*                                                                         *)
(* The panel has either this machine, with two runtimes, of which the      *)
(* second has no container, and no failed save; or one host.               *)
(***************************************************************************)
EXTENDS Secrets, StoreFile, AgentInstall, Containers

CONSTANTS github, host, account, old, new, runner

VARIABLE part

MCStatic == {github}
MCHost   == {host}
MCVendor == {account}
MCValue  == {old, new}

MCRelease == {1, 2}

MCHosts == {Fresh, BeforeRename("wildcard"), Installed(1, FALSE), Installed(2, TRUE)}

MCContainer == {runner}

onDiskVars == <<vars, storeVars, installVars, containersVars, part>>

\* What is not followed has one beginning.
MCInit ==
    /\ part \in {"secrets", "store", "install", "machine", "hosts"}
    /\ Init /\ StoreInit /\ InstallInit /\ ContainersInit
    /\ part # "store" => file = NoFile /\ legacy = NoFile
    /\ files \in IF part = "install" THEN MCHosts ELSE {Fresh}
    /\ part # "secrets" => ~consolidate /\ hosts = {} /\ items = Empty /\ blobIs = "absent"
    /\ part # "hosts" => polled = {}

\* What tells two states apart: the rest is as it began.
Followed ==
    <<part, CASE part = "secrets" -> vars
              [] part = "store" -> storeVars
              [] part = "install" -> installVars
              [] part \in {"machine", "hosts"} -> containersVars>>

SecretsPart ==
    /\ part = "secrets" /\ Next
    /\ UNCHANGED <<storeVars, installVars, containersVars, part>>

StorePart ==
    /\ part = "store" /\ StoreNext
    /\ UNCHANGED <<vars, installVars, containersVars, part>>

InstallPart ==
    /\ part = "install" /\ InstallNext
    /\ UNCHANGED <<vars, storeVars, containersVars, part>>

MachinePart ==
    /\ part = "machine" /\ ContainersNext /\ Saved
    /\ polled' = {} /\ pass'.list[Tools] = {}
    /\ \A s \in Scope, n \in Name :
          rule'[s][n] \in IF s = Here THEN {"none", "named"} ELSE {"none"}
    /\ UNCHANGED <<vars, storeVars, installVars, part>>

HostsPart ==
    /\ part = "hosts" /\ ContainersNext /\ ~pass'.ran
    /\ \A s \in Scope, n \in Name :
          rule'[s][n] \in IF s = Here THEN {"none"} ELSE {"none", "glob", "hiddenNamed"}
    /\ UNCHANGED <<vars, storeVars, installVars, part>>

MCSpec ==
    /\ MCInit
    /\ [][SecretsPart \/ StorePart \/ InstallPart \/ MachinePart \/ HostsPart]_onDiskVars
=============================================================================

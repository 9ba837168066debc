----------------------------- MODULE StoreFile -----------------------------
(***************************************************************************)
(* The store file across launches (crates/store): adoption of the file of  *)
(* the older directory, creation, migration of the older schemas with      *)
(* whatever the credential store says of the v1 token at this launch,      *)
(* saves, crashes and power losses anywhere.  A portfolio is one           *)
(* repository, one organisation and its remembered runners.                *)
(***************************************************************************)
EXTENDS Naturals

CONSTANTS NoFile   \* no file, no contents

VARIABLES
    file,       \* store.json as it reads: NoFile, TornFile or its contents
    disk,       \* the same after a power loss
    legacy,     \* the file of the older directory, which stays
    writing,    \* what write_atomically was given, or NoFile
    tempFile,   \* its temporary file: "none", "partial", "written", "synced"
    running,    \* "off", "adopting", "opening" or "up"
    mem,        \* the open store
    created     \* history: the store file was created empty by this app

diskVars  == <<file, disk, legacy, writing, tempFile>>
storeVars == <<diskVars, running, mem, created>>

TornFile == [torn |-> TRUE]

StoreVersion == 3

\* One store's contents: its version; accounts minted for the v1 token (one,
\* in however many launches), made in Settings, and for another vendor; whom the repository names; where
\* the organisation is kept; and whether the runners' records name it.
StoreData == [version : 1..4, minted : 0..1, own : BOOLEAN, other : BOOLEAN,
              repo : {"nobody", "minted", "own", "gone"},
              org : {"none", "settings", "account"}, stamped : BOOLEAN]

ASSUME NoFileAssumption == NoFile \notin StoreData \union {TornFile}

Portfolio(v, m, o) ==
    [version |-> v, minted |-> m, own |-> FALSE, other |-> FALSE,
     repo |-> IF m = 0 THEN "nobody" ELSE "minted", org |-> o, stamped |-> FALSE]

EmptyStore == Portfolio(StoreVersion, 0, "none")

\* Files of older builds: v1 has no accounts, v2 may have been made with or
\* without the minted one, and version 4 is of a newer build.
Inherited ==
    {Portfolio(v, 0, o) : v \in {1, 2, 4}, o \in {"none", "settings"}}
    \union {Portfolio(2, 1, o) : o \in {"none", "settings"}}

StoreInit ==
    /\ file \in Inherited \union {NoFile} /\ disk = file
    /\ legacy \in {NoFile} \union {d \in Inherited : file = NoFile /\ d.version = 1}
    /\ writing = NoFile /\ tempFile = "none"
    /\ running = "off" /\ mem = NoFile /\ created = FALSE

----------------------------------------------------------------------------
(* Migration, as functions of the contents and of "the token is there".    *)

HasGithubAccount(d) == d.minted > 0 \/ d.own

\* `migrate_v1_to_v2`: mint the account the one token was, for every
\* repository; nothing to do when there are accounts, and nothing done when
\* the token is not known to be there.
V1ToV2(d, present) ==
    IF HasGithubAccount(d) \/ d.other THEN [d EXCEPT !.version = 2]
    ELSE IF present THEN [d EXCEPT !.version = 2, !.minted = @ + 1, !.repo = "minted"]
    ELSE d

\* Mutants: an account is minted although there is one, or takes every
\* repository.
MintsAgain(d) == [d EXCEPT !.minted = @ + 1, !.repo = IF @ = "nobody" THEN "minted" ELSE @]
MintsOver(d) ==
    IF HasGithubAccount(d) THEN d ELSE [d EXCEPT !.minted = @ + 1, !.repo = "minted"]

\* The minted account takes the repositories that name nobody.
Minted(d) ==
    IF HasGithubAccount(d) THEN d
    ELSE [d EXCEPT !.minted = @ + 1, !.repo = IF @ = "nobody" THEN "minted" ELSE @]

\* Mutant: the organisation moves and its runners' records do not.
MovesAlone(d) == [d EXCEPT !.org = IF @ = "settings" THEN "account" ELSE @]

\* The organisation goes to the first GitHub account, its records with it.
OrgAdopted(d) ==
    IF d.org = "settings" THEN [d EXCEPT !.org = "account", !.stamped = TRUE] ELSE d

\* `migrate_v2_to_v3`.
V2ToV3(d, present) ==
    IF ~HasGithubAccount(d) /\ ~present THEN d
    ELSE [OrgAdopted(Minted(d)) EXCEPT !.version = 3]

\* `open_in`: each step only from the version it understands.
MigratedStore(d, present) ==
    LET two == IF d.version < 2 THEN V1ToV2(d, present) ELSE d
    IN  IF two.version = 2 THEN V2ToV3(two, present) ELSE two

----------------------------------------------------------------------------
(* write_atomically.                                                       *)

BeginWrite(d) == writing' = d /\ UNCHANGED <<file, disk, legacy, tempFile>>

\* The temporary file is created, and then written whole.
WriteTemp ==
    /\ writing # NoFile
    /\ \/ tempFile = "none" /\ tempFile' = "partial"
       \/ tempFile = "partial" /\ tempFile' = "written"
    /\ UNCHANGED <<file, disk, legacy, writing, running, mem, created>>

\* `sync_all`.
SyncTemp ==
    /\ tempFile = "written" /\ tempFile' = "synced"
    /\ UNCHANGED <<file, disk, legacy, writing, running, mem, created>>

\* Mutant: the file is renamed without having been flushed.
NotSynced == tempFile \in {"written", "synced"}

\* `write_and_sync` came first.
WrittenAndSynced == tempFile = "synced"

\* After the rename a save is over, an adopted file is opened next, and a
\* file that was just created is the open store.  The directory is not
\* flushed: after a power loss it may still name the file of before, and what
\* it names is whole only if that was flushed.
RenameTemp ==
    /\ WrittenAndSynced
    /\ file' = writing /\ writing' = NoFile /\ tempFile' = "none"
    /\ disk' \in {disk, IF tempFile = "synced" THEN writing ELSE TornFile}
    /\ IF running = "opening" THEN running' = "up" /\ mem' = writing /\ created' = TRUE
       ELSE /\ running' = IF running = "adopting" THEN "opening" ELSE "up"
            /\ UNCHANGED <<mem, created>>
    /\ UNCHANGED legacy

\* The system flushes the directory in its own time.
FlushDirectory ==
    /\ file # NoFile /\ disk \notin {file, TornFile} /\ disk' = file
    /\ UNCHANGED <<file, legacy, writing, tempFile, running, mem, created>>

\* Mutant: adoption is best effort, as it once was.
BestEffort == IF running = "adopting" THEN "opening" ELSE IF running = "up" THEN "up" ELSE "off"

\* A save that fails leaves the open store as it is; a launch that could not
\* adopt or create its file ends.
AfterFailure == IF running = "up" THEN "up" ELSE "off"

\* Any step of a write may fail; the temporary file is removed.
WriteFails ==
    /\ writing # NoFile /\ writing' = NoFile /\ tempFile' = "none"
    /\ running' = AfterFailure
    /\ UNCHANGED <<file, disk, legacy, mem, created>>

----------------------------------------------------------------------------
(* Launches and edits.                                                     *)

\* `adopt_legacy_dir`: the live file wins.
LaunchStore ==
    /\ running = "off"
    /\ IF file = NoFile /\ legacy # NoFile
       THEN running' = "adopting" /\ BeginWrite(legacy)
       ELSE running' = "opening" /\ UNCHANGED diskVars
    /\ UNCHANGED <<mem, created>>

\* The token counts as there only when the credential store said so at this
\* launch.  A file that does not parse, or of a newer build, ends it.
OpenFile ==
    /\ running = "opening" /\ file # NoFile
    /\ IF file = TornFile THEN running' = "off" /\ UNCHANGED mem
       ELSE IF file.version > StoreVersion THEN running' = "off" /\ UNCHANGED mem
       ELSE /\ running' = "up"
            /\ \E present \in BOOLEAN : mem' = MigratedStore(file, present)
    /\ UNCHANGED <<diskVars, created>>

\* First run: an empty store is written at once.
CreateFile ==
    /\ running = "opening" /\ file = NoFile /\ writing = NoFile
    /\ BeginWrite(EmptyStore) /\ UNCHANGED <<running, mem, created>>

\* An edit in Settings and the save it ends with, under the store's lock.
EditStore(d) ==
    /\ running = "up" /\ writing = NoFile /\ mem' = d /\ BeginWrite(d)
    /\ UNCHANGED <<running, created>>

AddOwn   == ~mem.own /\ EditStore([mem EXCEPT !.own = TRUE])
AddOther == ~mem.other /\ EditStore([mem EXCEPT !.other = TRUE])

\* A repository is given to an account there is, or to nobody.
SetRepo ==
    \E a \in {"nobody", "minted", "own"} \ {mem.repo} :
        /\ a = "minted" => mem.minted > 0
        /\ a = "own" => mem.own
        /\ EditStore([mem EXCEPT !.repo = a])

\* An account takes its organisation along; the repository keeps naming it.
\* (`org` follows the first account: the minted one when there is one.)
RemoveMinted ==
    /\ mem.minted > 0
    /\ EditStore([mem EXCEPT !.minted = 0, !.repo = IF @ = "minted" THEN "gone" ELSE @,
                             !.org = IF @ = "account" THEN "none" ELSE @])

RemoveOwn ==
    /\ mem.own
    /\ EditStore([mem EXCEPT !.own = FALSE, !.repo = IF @ = "own" THEN "gone" ELSE @,
                             !.org = IF @ = "account" /\ mem.minted = 0 THEN "none" ELSE @])

StoreEdit == running = "up" /\ (AddOwn \/ AddOther \/ SetRepo \/ RemoveMinted \/ RemoveOwn)

\* The process stops, anywhere, and the machine with it or not.  An orphaned
\* temporary file is never read: the next write has another name.
Stopped ==
    /\ running' = "off" /\ mem' = NoFile
    /\ writing' = NoFile /\ tempFile' = "none"
    /\ UNCHANGED <<legacy, created>>

CrashStore == running # "off" /\ Stopped /\ UNCHANGED <<file, disk>>
PowerLoss  == Stopped /\ file' = disk /\ UNCHANGED disk

StoreNext ==
    \/ LaunchStore \/ OpenFile \/ CreateFile \/ StoreEdit
    \/ WriteTemp \/ SyncTemp \/ RenameTemp \/ FlushDirectory \/ WriteFails
    \/ CrashStore \/ PowerLoss

StoreSpec == StoreInit /\ [][StoreNext]_storeVars

----------------------------------------------------------------------------
(* Properties.                                                             *)

\* The type invariant; with it, that the v1 token is minted once.
StoreTypeOK ==
    /\ {file, disk} \subseteq StoreData \union {NoFile, TornFile}
    /\ {legacy, writing, mem} \subseteq StoreData \union {NoFile}
    /\ tempFile \in {"none", "partial", "written", "synced"}
    /\ running \in {"off", "adopting", "opening", "up"} /\ created \in BOOLEAN

\* An inherited portfolio is never lost to an empty one: whatever failed or
\* stopped during adoption, this app creates no store while the older
\* directory holds one.
NeverStartsEmpty == ~(created /\ legacy # NoFile)

\* The organisation and the remembered runners move together, in the file as
\* in memory, whatever launch migrates them and wherever it stops; and a
\* stamped store has nothing left behind in the old settings.
OrgAndRecordsTogether ==
    \A d \in {file, disk, mem, writing} \ {NoFile, TornFile} :
        /\ d.org = "settings" => ~d.stamped /\ d.version # StoreVersion
        /\ d.org = "account" => d.stamped

\* From version 2 on a migration gives an owner only to a repository that
\* names none: one that names a removed account keeps naming it.
OwnersAreKept ==
    [][(/\ running = "opening" /\ mem = NoFile /\ mem' # NoFile
        /\ file \notin {NoFile, TornFile} /\ file.version = 2 /\ file.repo # "nobody")
       => mem'.repo = file.repo]_storeVars

\* The file is only ever what somebody asked to be saved, whole: it is the
\* abstract file, of which a torn one is no contents.
Durable == INSTANCE DurableFile
               WITH Contents <- StoreData, value <- file, lasting <- disk, pending <- writing
FileIsDurable == Durable!Spec

\* Launches, adoptions, migrations and crashes leave the store in one piece:
\* never an empty one over an inherited one, never a half-moved organisation.
StoreInv == StoreTypeOK /\ NeverStartsEmpty /\ OrgAndRecordsTogether

\* What was saved is what the next launch has, through crashes and power loss,
\* and no migration gives a repository to somebody it does not name.
PortfolioIsKept == FileIsDurable /\ OwnersAreKept
=============================================================================

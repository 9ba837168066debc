------------------------------ MODULE Secrets ------------------------------
(***************************************************************************)
(* The app's credentials in the platform's credential store                *)
(* (crates/store/src/secrets.rs).  On macOS every text credential lives in *)
(* one item, the blob `secrets_v1`, into which a launch copies the items   *)
(* of the older scheme, one per credential.  Elsewhere each credential     *)
(* keeps its own item.                                                     *)
(*                                                                         *)
(* Two threads write credentials: Settings (the window's thread) and the   *)
(* hand-off that adds a host.  A write to the blob replaces it whole, so   *)
(* it is read and written back under `blob_lock`.  A call of the store may *)
(* fail, and the app may stop between any two of them.                     *)
(***************************************************************************)
CONSTANTS
    Static,    \* SecretKey's fixed credentials (`static_migration_keys`)
    Host,      \* the tokens of hosts, one for each host id
    Vendor,    \* the tokens of vendor accounts, one for each account id
    Value,     \* what a credential may be
    NoValue,   \* a credential that is not stored
    NoJob      \* a writer with nothing to do

Key     == Static \union Host \union Vendor
Window  == "window"
HandOff == "handoff"
Writer  == {Window, HandOff}
Stored  == Value \union {NoValue}
Job     == [key : Key, value : Stored]    \* NoValue: delete it

ASSUME ConstantsAssumption ==
    /\ Static \intersect Host = {} /\ Static \intersect Vendor = {}
    /\ Host \intersect Vendor = {}
    /\ NoValue \notin Value /\ NoJob \notin Job

VARIABLES
    consolidate, \* whether this platform routes through the blob
    items,       \* the items of the older scheme
    blobIs,      \* whether the blob's item is absent, sound or corrupt
    blob,        \* what it holds when it is sound
    retired,     \* whether it still holds an account that must not be in it
    hosts,       \* the hosts in store.json
    unborn,      \* hosts whose id has not been minted yet
    scratch,     \* this launch has SOLADOR_STORE_DIR
    phase,       \* of the launch: before or after `migrate_legacy`
    pc, job,     \* each writer: where it is, and what it writes
    copy,        \* the blob as a writer has read it
    saved,       \* history: what was last written for each credential
    ever,        \* history: the values written since it was last cleared
    exposed      \* history: a vendor token was saved while there was no blob

vars == <<consolidate, items, blobIs, blob, retired, hosts, unborn, scratch,
          phase, pc, job, copy, saved, ever, exposed>>
storage == <<items, blobIs, blob, retired>>
rows    == <<hosts, unborn>>
writers == <<pc, job, copy>>
history == <<saved, ever, exposed>>

Empty == [k \in Key |-> NoValue]

\* `route_secret`, when the credential store answers and the blob parses.
Read(k) == IF consolidate /\ blobIs = "sound" THEN blob[k] ELSE items[k]

----------------------------------------------------------------------------
Idle == /\ pc = [w \in Writer |-> "idle"]
        /\ job = [w \in Writer |-> NoJob]
        /\ copy = [w \in Writer |-> Empty]

\* What an earlier build can have left.  A vendor token gets an item of its
\* own only in a session without the blob, which is one of this model.
Init ==
    /\ consolidate \in BOOLEAN
    /\ hosts \in SUBSET Host /\ unborn = Host \ hosts
    /\ items \in [Key -> Stored]
    /\ blobIs \in {"absent", "sound"}
    /\ blob \in IF blobIs = "sound" THEN [Key -> Stored] ELSE {Empty}
    /\ \A h \in unborn : items[h] = NoValue /\ blob[h] = NoValue
    /\ consolidate => \A v \in Vendor : items[v] = NoValue
    /\ retired \in IF blobIs = "sound" THEN BOOLEAN ELSE {FALSE}
    /\ scratch = FALSE /\ phase = "start"
    /\ Idle
    /\ saved = [k \in Key |-> Read(k)]
    /\ ever = [k \in Key |-> {items[k], blob[k]} \intersect Value]
    /\ exposed = FALSE

\* Quitting, or a crash, and another launch.
Relaunch ==
    /\ phase' = "start" /\ scratch' \in BOOLEAN
    /\ pc' = [w \in Writer |-> "idle"] /\ job' = [w \in Writer |-> NoJob]
    /\ copy' = [w \in Writer |-> Empty]
    /\ UNCHANGED <<consolidate, storage, rows, history>>

----------------------------------------------------------------------------
(* The launch: `migrate_legacy`.                                           *)

\* The keys `main` lists: not the accounts'.
MigrateKeys == Static \union hosts

\* Migration has nothing to do, or fails before it writes.
NotMigrated ==
    /\ phase = "start" /\ phase' = "running"
    /\ UNCHANGED <<consolidate, storage, rows, scratch, writers, history>>

\* Every item is read, then the blob is written; no item is touched.
Migrated ==
    /\ phase = "start" /\ phase' = "running"
    /\ consolidate /\ ~scratch /\ blobIs = "absent"
    /\ blobIs' = "sound"
    /\ blob' = [k \in Key |-> IF k \in MigrateKeys THEN items[k] ELSE NoValue]
    /\ UNCHANGED <<consolidate, items, retired, rows, scratch, writers, history>>

\* The scrub of a blob that is already there.
Scrubbed ==
    /\ phase = "start" /\ phase' = "running"
    /\ consolidate /\ ~scratch /\ blobIs = "sound" /\ retired
    /\ retired' = FALSE
    /\ UNCHANGED <<consolidate, items, blobIs, blob, rows, scratch, writers, history>>

----------------------------------------------------------------------------
(* The writers: `route_set_secret` and `route_delete_secret`.              *)

\* `blob_lock` is held from the read of the blob to the end of the call.
HoldsLock(w) == consolidate /\ pc[w] \in {"blob", "item"}

\* A command about a host or an account holds the store's lock to its end.
HoldsStore(w) == pc[w] # "idle" /\ job[w].key \notin Static

\* What the app does: Settings and the hand-off write the token of a host
\* whose row is saved; only Settings removes one.  A launch with another
\* store has hosts and accounts of its own.
MayWrite(w, j) ==
    /\ phase = "running" /\ pc[w] = "idle"
    /\ j.key \notin Static => \A u \in Writer : ~HoldsStore(u)
    /\ j.key \in Host => j.key \in hosts
    /\ scratch => j.key \in Static
    /\ w = HandOff => j.key \in Host /\ j.value # NoValue

\* Mutant: nobody takes the lock.
StartUnlocked(w, j) ==
    /\ MayWrite(w, j)
    /\ consolidate => blobIs # "corrupt"
    /\ job' = [job EXCEPT ![w] = j]
    /\ IF consolidate /\ blobIs = "sound"
       THEN pc' = [pc EXCEPT ![w] = "blob"] /\ copy' = [copy EXCEPT ![w] = blob]
       ELSE pc' = [pc EXCEPT ![w] = "item"] /\ UNCHANGED copy
    /\ UNCHANGED <<consolidate, storage, rows, scratch, phase, history>>

\* The lock is taken and the blob is read.  Where there is no blob, or none
\* is used, the credential's own item is written.
Start(w, j) ==
    /\ MayWrite(w, j)
    /\ \A u \in Writer : ~HoldsLock(u)
    /\ consolidate => blobIs # "corrupt"
    /\ job' = [job EXCEPT ![w] = j]
    /\ IF consolidate /\ blobIs = "sound"
       THEN pc' = [pc EXCEPT ![w] = "blob"] /\ copy' = [copy EXCEPT ![w] = blob]
       ELSE pc' = [pc EXCEPT ![w] = "item"] /\ UNCHANGED copy
    /\ UNCHANGED <<consolidate, storage, rows, scratch, phase, history>>

\* The call returns.  After the deletion of a host's token, whether it worked
\* or not, the row goes; every other command is over.
Returns(w) ==
    /\ IF job[w].key \in Host /\ job[w].value = NoValue
       THEN pc' = [pc EXCEPT ![w] = "row"] /\ UNCHANGED job
       ELSE pc' = [pc EXCEPT ![w] = "idle"] /\ job' = [job EXCEPT ![w] = NoJob]
    /\ copy' = [copy EXCEPT ![w] = Empty]

\* The blob cannot be read.  A host is removed all the same.
Refused(h) ==
    /\ MayWrite(Window, [key |-> h, value |-> NoValue])
    /\ \A u \in Writer : ~HoldsLock(u)
    /\ consolidate
    /\ job' = [job EXCEPT ![Window] = [key |-> h, value |-> NoValue]]
    /\ pc' = [pc EXCEPT ![Window] = "row"]
    /\ UNCHANGED <<consolidate, storage, rows, scratch, phase, copy, history>>

\* A write that the credential store rejects.
Rejected(w) ==
    /\ pc[w] \in {"blob", "item"}
    /\ Returns(w)
    /\ UNCHANGED <<consolidate, storage, rows, scratch, phase, history>>

Wrote(k, v) ==
    /\ saved' = [saved EXCEPT ![k] = v]
    /\ ever' = [ever EXCEPT ![k] = @ \union ({v} \intersect Value)]

\* Mutant: a delete leaves the item of the older scheme.
WriteBlobOnly(w) ==
    /\ pc[w] = "blob"
    /\ blobIs' = "sound"
    /\ blob' = [copy[w] EXCEPT ![job[w].key] = job[w].value]
    /\ saved' = [saved EXCEPT ![job[w].key] = job[w].value]
    /\ ever' = [ever EXCEPT ![job[w].key] =
                    IF job[w].value = NoValue THEN {} ELSE @ \union {job[w].value}]
    /\ Returns(w)
    /\ UNCHANGED <<consolidate, items, retired, rows, scratch, phase, exposed>>

\* The whole map is written back.  A delete goes on to the credential's item,
\* or a later rebuild would resurrect it.
WriteBlob(w) ==
    /\ pc[w] = "blob"
    /\ blobIs' = "sound"
    /\ blob' = [copy[w] EXCEPT ![job[w].key] = job[w].value]
    /\ Wrote(job[w].key, job[w].value)
    /\ IF job[w].value = NoValue
       THEN pc' = [pc EXCEPT ![w] = "item"] /\ UNCHANGED job
            /\ copy' = [copy EXCEPT ![w] = Empty]
       ELSE Returns(w)
    /\ UNCHANGED <<consolidate, items, retired, rows, scratch, phase, exposed>>

\* Mutant: with no blob, a save makes one.
WriteItemAsBlob(w) ==
    /\ pc[w] = "item"
    /\ IF consolidate /\ job[w].value # NoValue
       THEN /\ blobIs' = "sound" /\ blob' = [blob EXCEPT ![job[w].key] = job[w].value]
            /\ UNCHANGED items
       ELSE /\ items' = [items EXCEPT ![job[w].key] = job[w].value]
            /\ UNCHANGED <<blobIs, blob>>
    /\ Wrote(job[w].key, job[w].value)
    /\ UNCHANGED exposed
    /\ Returns(w)
    /\ UNCHANGED <<consolidate, retired, rows, scratch, phase>>

WriteItem(w) ==
    /\ pc[w] = "item"
    /\ items' = [items EXCEPT ![job[w].key] = job[w].value]
    /\ saved' = [saved EXCEPT ![job[w].key] = job[w].value]
    /\ ever' = [ever EXCEPT ![job[w].key] =
                    IF job[w].value = NoValue THEN {} ELSE @ \union {job[w].value}]
    /\ exposed' = (exposed \/ (consolidate /\ job[w].key \in Vendor
                                           /\ job[w].value # NoValue))
    /\ Returns(w)
    /\ UNCHANGED <<consolidate, blobIs, blob, retired, rows, scratch, phase>>

\* The removed host leaves store.json.
DropRow(w) ==
    /\ pc[w] = "row"
    /\ hosts' = hosts \ {job[w].key}
    /\ pc' = [pc EXCEPT ![w] = "idle"] /\ job' = [job EXCEPT ![w] = NoJob]
    /\ UNCHANGED <<consolidate, storage, unborn, scratch, phase, copy, history>>

\* A host's row is saved before its token.
AddHost(h) ==
    /\ phase = "running" /\ ~scratch /\ h \in unborn
    /\ \A w \in Writer : ~HoldsStore(w)
    /\ hosts' = hosts \union {h} /\ unborn' = unborn \ {h}
    /\ UNCHANGED <<consolidate, storage, scratch, phase, writers, history>>

----------------------------------------------------------------------------
(* The keychain: the blob is damaged, and the operator deletes it, as       *)
(* `SecretError::CorruptBlob` asks.  Not in the middle of a write.          *)

Damaged ==
    /\ consolidate /\ blobIs = "sound" /\ \A w \in Writer : ~HoldsLock(w)
    /\ blobIs' = "corrupt" /\ blob' = Empty /\ retired' = FALSE
    /\ UNCHANGED <<consolidate, items, rows, scratch, phase, writers, history>>

\* From here on the items of the older scheme are the truth.
Deleted ==
    /\ blobIs = "corrupt" /\ blobIs' = "absent"
    /\ saved' = items
    /\ exposed' = (exposed \/ \E v \in Vendor : items[v] # NoValue)
    /\ UNCHANGED <<consolidate, items, blob, retired, rows, scratch, phase,
                   writers, ever>>

----------------------------------------------------------------------------
Launch == NotMigrated \/ Migrated \/ Scrubbed
Call(w) == Rejected(w) \/ WriteBlob(w) \/ WriteItem(w) \/ DropRow(w)

Next ==
    \/ Relaunch \/ Launch
    \/ \E w \in Writer, j \in Job : Start(w, j)
    \/ \E w \in Writer : Call(w)
    \/ \E h \in Host : Refused(h) \/ AddHost(h)
    \/ Damaged \/ Deleted

Spec == Init /\ [][Next]_vars

----------------------------------------------------------------------------
(* Properties.                                                             *)

TypeOK ==
    /\ consolidate \in BOOLEAN
    /\ items \in [Key -> Stored] /\ blob \in [Key -> Stored]
    /\ blobIs \in {"absent", "sound", "corrupt"} /\ retired \in BOOLEAN
    /\ hosts \in SUBSET Host /\ unborn \in SUBSET Host
    /\ scratch \in BOOLEAN /\ phase \in {"start", "running"}
    /\ pc \in [Writer -> {"idle", "blob", "item", "row"}]
    /\ job \in [Writer -> Job \union {NoJob}]
    /\ copy \in [Writer -> [Key -> Stored]]
    /\ saved \in [Key -> Stored] /\ ever \in [Key -> SUBSET Value]
    /\ exposed \in BOOLEAN

Readable == ~(consolidate /\ blobIs = "corrupt")

\* What was last saved is what is read: no launch, migration, failed call,
\* crash, or write of another credential by either thread loses or brings back
\* a credential the migration lists.  For the accounts' tokens this is so as
\* long as none was saved while there was no blob.
SavedIsRead ==
    Readable =>
        /\ \A k \in Static \union hosts : Read(k) = saved[k]
        /\ ~exposed => \A k \in Vendor : Read(k) = saved[k]

\* Whatever is read was saved for that credential since it was last cleared,
\* also after a damaged blob was deleted and rebuilt from the older items: a
\* cleared credential does not come back.
ReadIsGenuine ==
    Readable => \A k \in Key : Read(k) \in ever[k] \union {NoValue}

\* "`set_secret` now falls through to the legacy item whenever the blob is
\* absent, so a failed migration simply retries next launch instead of
\* stranding anything" (secrets.rs:256).  Refuted: the retry does not list the
\* accounts' tokens, and the blob it makes shadows the ones saved before it.
NothingStranded ==
    Readable => \A k \in Static \union hosts \union Vendor : Read(k) = saved[k]

----------------------------------------------------------------------------
(* The inductive invariant.                                                *)

\* Where a writer is says which job it has, and its host is still listed.
JobInv ==
    \A w \in Writer :
        /\ pc[w] = "idle" <=> job[w] = NoJob
        /\ pc[w] # "idle" => phase = "running"
        /\ pc[w] = "row" => job[w].key \in Host
        /\ pc[w] # "idle" => job[w].key \in hosts \union Static \union Vendor

\* One writer at a time holds the lock, and its copy is the blob.  It writes
\* an item only where there is no blob, or to clear what the blob has lost.
LockInv ==
    /\ \A u, w \in Writer : HoldsStore(u) /\ HoldsStore(w) => u = w
    /\ \A u, w \in Writer : HoldsLock(u) /\ HoldsLock(w) => u = w
    /\ \A w \in Writer : pc[w] = "blob" =>
           consolidate /\ blobIs = "sound" /\ copy[w] = blob
    /\ \A w \in Writer : HoldsLock(w) =>
           /\ blobIs # "corrupt"
           /\ pc[w] = "item" /\ blobIs = "sound" =>
                  job[w].value = NoValue /\ blob[job[w].key] = NoValue

BlobInv == blobIs # "sound" => blob = Empty

\* A host that has no id yet has no token.
UnbornInv ==
    /\ unborn \intersect hosts = {}
    /\ \A h \in unborn : items[h] = NoValue /\ blob[h] = NoValue /\ saved[h] = NoValue

\* No vendor token is outside the blob unless one was saved without a blob.
ExposedInv ==
    ~exposed /\ consolidate /\ blobIs = "absent" =>
        \A v \in Vendor : items[v] = NoValue

GenuineInv ==
    \A k \in Key : /\ items[k] \in ever[k] \union {NoValue}
                   /\ consolidate => blob[k] \in ever[k] \union {NoValue}

SecretsInv == TypeOK /\ JobInv /\ LockInv /\ BlobInv /\ UnbornInv
              /\ ExposedInv /\ GenuineInv /\ SavedIsRead
=============================================================================

--------------------------- MODULE SecretsProofs ---------------------------
(***************************************************************************)
(* Proofs about what the system keeps on disk: Secrets, for any            *)
(* credentials, hosts, accounts and values; StoreFile and its refinement;  *)
(* and AgentInstall, for any releases and any number of scripts.           *)
(***************************************************************************)
EXTENDS Secrets, StoreFile, AgentInstall, FiniteSetTheorems, TLAPS

----------------------------------------------------------------------------
(* The initial states, and a launch.                                       *)

LEMMA EmptyIs == Empty \in [Key -> Stored]
  BY DEF Empty, Stored

LEMMA IdleIs == Idle => /\ pc \in [Writer -> {"idle", "blob", "item", "row"}]
                        /\ job \in [Writer -> Job \union {NoJob}]
                        /\ copy \in [Writer -> [Key -> Stored]]
                        /\ \A w \in Writer : pc[w] = "idle" /\ job[w] = NoJob
  BY EmptyIs DEF Idle

LEMMA InitInv == Init => SecretsInv
<1> SUFFICES ASSUME Init PROVE SecretsInv
  OBVIOUS
<1>1. TypeOK
  <2>1. blob \in [Key -> Stored]
    BY EmptyIs DEF Init
  <2>2. saved \in [Key -> Stored] /\ ever \in [Key -> SUBSET Value]
    BY <2>1 DEF Init, Read
  <2> QED
    BY <2>1, <2>2, IdleIs DEF Init, TypeOK
<1>2. JobInv /\ LockInv
  BY IdleIs DEF Init, JobInv, LockInv, HoldsLock, HoldsStore
<1>3. BlobInv /\ UnbornInv
  BY DEF Init, BlobInv, UnbornInv, Read, Key
<1>4. ExposedInv /\ SavedIsRead
  BY DEF Init, ExposedInv, SavedIsRead, Key
<1>5. GenuineInv
  BY <1>1 DEF Init, TypeOK, GenuineInv, Stored
<1> QED
  BY <1>1, <1>2, <1>3, <1>4, <1>5 DEF SecretsInv

\* Nothing is read differently while the storage and the rows stand still.
LEMMA Unmoved ==
    ASSUME SecretsInv, UNCHANGED <<consolidate, storage, rows, history>>
    PROVE  (BlobInv /\ UnbornInv /\ ExposedInv /\ GenuineInv /\ SavedIsRead)'
  BY DEF SecretsInv, storage, rows, history, BlobInv, Empty, UnbornInv, ExposedInv, GenuineInv,
         SavedIsRead, Readable, Read

LEMMA RelaunchInv == SecretsInv /\ Relaunch => SecretsInv'
<1> SUFFICES ASSUME SecretsInv, Relaunch PROVE SecretsInv'
  OBVIOUS
<1>1. TypeOK'
  BY EmptyIs DEF SecretsInv, TypeOK, Relaunch, storage, rows, history
<1>2. (JobInv /\ LockInv)'
  BY DEF Relaunch, JobInv, LockInv, HoldsLock, HoldsStore
<1> QED
  BY <1>1, <1>2, Unmoved DEF SecretsInv, Relaunch

LEMMA LaunchInv == SecretsInv /\ Launch => SecretsInv'
<1> SUFFICES ASSUME SecretsInv, Launch PROVE SecretsInv'
  OBVIOUS
<1> USE DEF SecretsInv
<1>0. \A w \in Writer : pc[w] = "idle" /\ job[w] = NoJob
  BY DEF Launch, NotMigrated, Migrated, Scrubbed, TypeOK, JobInv
<1>1. (JobInv /\ LockInv)'
  BY <1>0 DEF Launch, NotMigrated, Migrated, Scrubbed, JobInv, LockInv, HoldsLock,
     HoldsStore, writers
<1>2. CASE NotMigrated
  <2>1. TypeOK'
    BY <1>2 DEF NotMigrated, TypeOK, storage, rows, writers, history
  <2> QED
    BY <1>1, <1>2, <2>1, Unmoved DEF NotMigrated
<1>3. CASE Scrubbed
  <2>1. TypeOK'
    BY <1>3 DEF Scrubbed, TypeOK, rows, writers, history
  <2>2. (BlobInv /\ UnbornInv /\ ExposedInv /\ GenuineInv /\ SavedIsRead)'
    BY <1>3 DEF Scrubbed, rows, history, BlobInv, UnbornInv, ExposedInv, GenuineInv,
       SavedIsRead, Readable, Read
  <2> QED
    BY <1>1, <2>1, <2>2
<1>4. CASE Migrated
  <2>1. TypeOK'
    BY <1>4 DEF Migrated, TypeOK, rows, writers, history, Stored
  <2>2. \A k \in Key : blob'[k] = IF k \in MigrateKeys THEN items[k] ELSE NoValue
    BY <1>4 DEF Migrated
  <2>3. (BlobInv /\ UnbornInv)'
    BY <1>4, <2>2, ConstantsAssumption DEF Migrated, BlobInv, rows, history, TypeOK, UnbornInv, Key
  <2>4. (ExposedInv /\ GenuineInv)'
    BY <1>4, <2>2 DEF Migrated, rows, history, ExposedInv, GenuineInv
  <2>5. \A k \in Static \union hosts : blob'[k] = saved[k]
    BY <1>4, <2>2 DEF Migrated, TypeOK, MigrateKeys, Key, SavedIsRead, Readable, Read
  <2>6. ~exposed => \A k \in Vendor : blob'[k] = saved[k]
    <3> SUFFICES ASSUME ~exposed, NEW k \in Vendor PROVE blob'[k] = saved[k]
      OBVIOUS
    <3>1. k \in Key /\ k \notin MigrateKeys
      BY ConstantsAssumption DEF TypeOK, MigrateKeys, Key
    <3>2. blob'[k] = NoValue
      BY <2>2, <3>1
    <3>3. items[k] = NoValue /\ items[k] = saved[k]
      BY <1>4 DEF Migrated, ExposedInv, SavedIsRead, Readable, Read
    <3> QED
      BY <3>2, <3>3
  <2>7. SavedIsRead'
    BY <1>4, <2>5, <2>6 DEF Migrated, rows, history, SavedIsRead, Read
  <2> QED
    BY <1>1, <2>1, <2>3, <2>4, <2>7
<1> QED
  BY <1>2, <1>3, <1>4 DEF Launch

----------------------------------------------------------------------------
(* The writers.                                                            *)

LEMMA StartInv ==
    ASSUME SecretsInv, NEW w \in Writer, NEW j \in Job, Start(w, j)
    PROVE  SecretsInv'
<1> USE DEF SecretsInv
<1>0. /\ phase = "running" /\ pc[w] = "idle"
      /\ j.key \in Key /\ (j.key \in Host => j.key \in hosts)
      /\ j.key \notin Static => \A u \in Writer : ~HoldsStore(u)
      /\ \A u \in Writer : ~HoldsLock(u)
      /\ j # NoJob
  BY ConstantsAssumption DEF Start, MayWrite, Job
<1>1. TypeOK'
  BY DEF Start, TypeOK, storage, rows, history
<1>2. /\ job' = [job EXCEPT ![w] = j]
      /\ pc'[w] = IF consolidate /\ blobIs = "sound" THEN "blob" ELSE "item"
      /\ \A u \in Writer \ {w} : pc'[u] = pc[u] /\ job'[u] = job[u] /\ copy'[u] = copy[u]
      /\ pc'[w] = "blob" => copy'[w] = blob
      /\ job'[w] = j
  BY DEF Start, TypeOK
<1>3. JobInv'
  BY <1>0, <1>2 DEF Start, JobInv, Key, rows
<1>4. LockInv'
  <2>1. \A u \in Writer : HoldsLock(u)' => u = w
    BY <1>0, <1>2 DEF Start, HoldsLock
  <2>2. \A u, v \in Writer : HoldsStore(u)' /\ HoldsStore(v)' => u = v
    BY <1>0, <1>2 DEF HoldsStore, LockInv
  <2>3. \A u \in Writer : pc'[u] = "blob" =>
            consolidate' /\ blobIs' = "sound" /\ copy'[u] = blob'
    BY <1>2 DEF Start, storage, LockInv
  <2>4. \A u \in Writer : HoldsLock(u)' =>
            /\ blobIs' # "corrupt"
            /\ pc'[u] = "item" /\ blobIs' = "sound" =>
                   job'[u].value = NoValue /\ blob'[job'[u].key] = NoValue
    BY <1>2, <2>1 DEF Start, storage, HoldsLock
  <2> QED
    BY <2>1, <2>2, <2>3, <2>4 DEF LockInv
<1> QED
  BY <1>1, <1>3, <1>4, Unmoved DEF Start

LEMMA RefusedInv ==
    ASSUME SecretsInv, NEW h \in Host, Refused(h)
    PROVE  SecretsInv'
<1> USE DEF SecretsInv
<1> DEFINE j == [key |-> h, value |-> NoValue]
<1>0. /\ Window \in Writer /\ phase = "running" /\ pc[Window] = "idle"
      /\ j \in Job /\ j # NoJob /\ h \in hosts /\ h \notin Static
      /\ \A u \in Writer : ~HoldsStore(u) /\ ~HoldsLock(u)
  <2>1. h \notin Static /\ j \in Job /\ Window \in Writer
    BY ConstantsAssumption DEF Job, Key, Stored, Writer
  <2>2. MayWrite(Window, j) /\ \A u \in Writer : ~HoldsLock(u)
    BY DEF Refused
  <2> QED
    BY <2>1, <2>2, ConstantsAssumption DEF MayWrite
<1>1. TypeOK'
  BY <1>0 DEF Refused, TypeOK, storage, rows, history
<1>2. /\ job'[Window] = j /\ pc'[Window] = "row" /\ copy' = copy
      /\ \A u \in Writer \ {Window} : pc'[u] = pc[u] /\ job'[u] = job[u]
  BY <1>0 DEF Refused, TypeOK
<1>3. JobInv'
  BY <1>0, <1>2 DEF Refused, JobInv, rows
<1>4. LockInv'
  <2>1. \A u \in Writer : ~HoldsLock(u)'
    BY <1>0, <1>2 DEF Refused, HoldsLock
  <2>2. \A u, v \in Writer : HoldsStore(u)' /\ HoldsStore(v)' => u = v
    BY <1>0, <1>2 DEF HoldsStore
  <2>3. \A u \in Writer : pc'[u] # "blob"
    BY <1>0, <1>2 DEF HoldsLock, LockInv
  <2> QED
    BY <2>1, <2>2, <2>3 DEF LockInv
<1> QED
  BY <1>1, <1>3, <1>4, Unmoved DEF Refused

\* What a call of w that returns leaves behind.
LEMMA ReturnsIs ==
    ASSUME TypeOK, JobInv, LockInv, NEW w \in Writer, pc[w] \in {"blob", "item"},
           Returns(w), UNCHANGED <<rows, phase, consolidate>>
    PROVE  /\ pc' \in [Writer -> {"idle", "blob", "item", "row"}]
           /\ job' \in [Writer -> Job \union {NoJob}]
           /\ copy' \in [Writer -> [Key -> Stored]]
           /\ pc'[w] \in {"idle", "row"} /\ ~HoldsLock(w)'
           /\ \A u \in Writer \ {w} : pc'[u] = pc[u] /\ job'[u] = job[u] /\ copy'[u] = copy[u]
           /\ JobInv'
           /\ \A u, v \in Writer : HoldsStore(u)' /\ HoldsStore(v)' => u = v
<1>1. /\ pc' \in [Writer -> {"idle", "blob", "item", "row"}]
      /\ job' \in [Writer -> Job \union {NoJob}]
      /\ copy' \in [Writer -> [Key -> Stored]]
      /\ \A u \in Writer \ {w} : pc'[u] = pc[u] /\ job'[u] = job[u] /\ copy'[u] = copy[u]
  BY EmptyIs DEF Returns, TypeOK
<1>2. \/ pc'[w] = "row" /\ job'[w] = job[w] /\ job[w].key \in Host
      \/ pc'[w] = "idle" /\ job'[w] = NoJob
  BY DEF Returns, TypeOK
<1>3. JobInv'
  BY <1>1, <1>2 DEF JobInv, rows
<1>4. \A u \in Writer : HoldsStore(u)' => HoldsStore(u)
  BY <1>1, <1>2 DEF HoldsStore
<1> QED
  BY <1>1, <1>2, <1>3, <1>4 DEF LockInv, HoldsLock

LEMMA RejectedInv ==
    ASSUME SecretsInv, NEW w \in Writer, Rejected(w)
    PROVE  SecretsInv'
<1> USE DEF SecretsInv
<1>1. /\ pc[w] \in {"blob", "item"} /\ Returns(w)
      /\ UNCHANGED <<consolidate, storage, rows, scratch, phase, history>>
  BY DEF Rejected
<1>2. TypeOK' /\ JobInv'
  BY <1>1, ReturnsIs DEF TypeOK, storage, rows, history
<1>3. LockInv'
  BY <1>1, ReturnsIs DEF LockInv, HoldsLock, storage
<1> QED
  BY <1>1, <1>2, <1>3, Unmoved

LEMMA WriteBlobInv ==
    ASSUME SecretsInv, NEW w \in Writer, WriteBlob(w)
    PROVE  SecretsInv'
<1> USE DEF SecretsInv
<1> DEFINE k == job[w].key
           v == job[w].value
<1>0. /\ pc[w] = "blob" /\ HoldsLock(w)
      /\ consolidate /\ blobIs = "sound" /\ copy[w] = blob
      /\ job[w] \in Job /\ k \in Key /\ v \in Stored
      /\ k \in hosts \union Static \union Vendor
      /\ \A u \in Writer \ {w} : ~HoldsLock(u)
  <2>1. pc[w] = "blob" /\ job[w] # NoJob
    BY DEF WriteBlob, JobInv
  <2>2. job[w] \in Job /\ k \in Key /\ v \in Stored
    BY <2>1 DEF TypeOK, Job
  <2> QED
    BY <2>1, <2>2 DEF LockInv, HoldsLock, JobInv
<1>1. /\ blob' = [blob EXCEPT ![k] = v] /\ saved' = [saved EXCEPT ![k] = v]
      /\ ever' = [ever EXCEPT ![k] = @ \union ({v} \intersect Value)]
      /\ blobIs' = "sound"
      /\ UNCHANGED <<consolidate, items, retired, rows, scratch, phase, exposed>>
  BY <1>0 DEF WriteBlob, Wrote
<1>2. /\ pc' \in [Writer -> {"idle", "blob", "item", "row"}]
      /\ job' \in [Writer -> Job \union {NoJob}]
      /\ copy' \in [Writer -> [Key -> Stored]]
      /\ JobInv'
      /\ \A u, x \in Writer : HoldsStore(u)' /\ HoldsStore(x)' => u = x
      /\ \A u \in Writer \ {w} : pc'[u] = pc[u]
      /\ \/ ~HoldsLock(w)'
         \/ pc'[w] = "item" /\ job'[w] = job[w] /\ v = NoValue
  <2>1. CASE v = NoValue
    <3>1. pc' = [pc EXCEPT ![w] = "item"] /\ job' = job
          /\ copy' = [copy EXCEPT ![w] = Empty]
      BY <2>1 DEF WriteBlob
    <3>2. JobInv'
      BY <1>0, <1>1, <3>1 DEF JobInv, TypeOK, rows
    <3>3. \A u \in Writer : HoldsStore(u)' => HoldsStore(u)
      BY <1>0, <3>1 DEF HoldsStore, TypeOK
    <3> QED
      BY <2>1, <3>1, <3>2, <3>3, EmptyIs DEF TypeOK, LockInv
  <2>2. CASE v # NoValue
    BY <1>0, <1>1, <2>2, ReturnsIs DEF WriteBlob
  <2> QED
    BY <2>1, <2>2
<1>3. TypeOK'
  BY <1>0, <1>1, <1>2 DEF TypeOK, rows, Stored
<1>4. LockInv'
  <2>1. \A u \in Writer \ {w} : ~HoldsLock(u)'
    BY <1>0, <1>1, <1>2 DEF HoldsLock
  <2>2. \A u \in Writer : pc'[u] # "blob"
    BY <1>0, <1>1, <1>2, <2>1 DEF HoldsLock
  <2>3. blob'[k] = v
    BY <1>0, <1>1 DEF TypeOK
  <2>4. HoldsLock(w)' => job'[w] = job[w] /\ v = NoValue
    BY <1>2
  <2> QED
    BY <1>1, <1>2, <2>1, <2>2, <2>3, <2>4 DEF LockInv
<1>5. \A h \in unborn : h # k
  BY <1>0, ConstantsAssumption DEF UnbornInv, TypeOK
<1>6. (BlobInv /\ UnbornInv)'
  BY <1>0, <1>1, <1>5 DEF BlobInv, UnbornInv, TypeOK, rows
<1>7. (ExposedInv /\ GenuineInv)'
  BY <1>0, <1>1 DEF ExposedInv, GenuineInv, TypeOK, Stored
<1>8. SavedIsRead'
  BY <1>0, <1>1 DEF SavedIsRead, Readable, Read, TypeOK, rows, Key
<1> QED
  BY <1>2, <1>3, <1>4, <1>6, <1>7, <1>8

LEMMA WriteItemInv ==
    ASSUME SecretsInv, NEW w \in Writer, WriteItem(w)
    PROVE  SecretsInv'
<1> USE DEF SecretsInv
<1> DEFINE k == job[w].key
           v == job[w].value
<1>0. /\ pc[w] = "item" /\ Returns(w)
      /\ job[w] \in Job /\ k \in Key /\ v \in Stored
      /\ k \in hosts \union Static \union Vendor
      /\ consolidate => blobIs # "corrupt" /\ (blobIs = "sound" => v = NoValue /\ blob[k] = NoValue)
      /\ consolidate /\ blobIs = "absent" => blob[k] = NoValue
  <2>1. pc[w] = "item" /\ Returns(w) /\ job[w] # NoJob
    BY DEF WriteItem, JobInv
  <2>2. job[w] \in Job /\ k \in Key /\ v \in Stored
    BY <2>1 DEF TypeOK, Job
  <2> QED
    BY <2>1, <2>2 DEF LockInv, HoldsLock, JobInv, BlobInv, Empty
<1>1. /\ items' = [items EXCEPT ![k] = v] /\ saved' = [saved EXCEPT ![k] = v]
      /\ ever' = [ever EXCEPT ![k] = IF v = NoValue THEN {} ELSE @ \union {v}]
      /\ exposed' = (exposed \/ (consolidate /\ k \in Vendor /\ v # NoValue))
      /\ UNCHANGED <<consolidate, blobIs, blob, retired, rows, scratch, phase>>
  BY DEF WriteItem
<1>2. /\ pc' \in [Writer -> {"idle", "blob", "item", "row"}]
      /\ job' \in [Writer -> Job \union {NoJob}]
      /\ copy' \in [Writer -> [Key -> Stored]]
      /\ JobInv' /\ ~HoldsLock(w)'
      /\ pc'[w] # "blob"
      /\ \A u, x \in Writer : HoldsStore(u)' /\ HoldsStore(x)' => u = x
      /\ \A u \in Writer \ {w} : pc'[u] = pc[u] /\ job'[u] = job[u] /\ copy'[u] = copy[u]
  BY <1>0, <1>1, ReturnsIs
<1>3. TypeOK'
  BY <1>0, <1>1, <1>2 DEF TypeOK, rows, Stored
<1>4. LockInv'
  BY <1>1, <1>2 DEF LockInv, HoldsLock
<1>5. \A h \in unborn : h # k
  BY <1>0, ConstantsAssumption DEF UnbornInv, TypeOK
<1>6. (BlobInv /\ UnbornInv)'
  BY <1>0, <1>1, <1>5 DEF BlobInv, Empty, UnbornInv, TypeOK, rows
<1>7. ExposedInv'
  BY <1>0, <1>1 DEF ExposedInv, TypeOK, Key
<1>8. GenuineInv'
  BY <1>0, <1>1 DEF GenuineInv, TypeOK, Stored
<1>9. SavedIsRead'
  BY <1>0, <1>1 DEF SavedIsRead, Readable, Read, TypeOK, rows, Key
<1> QED
  BY <1>2, <1>3, <1>4, <1>6, <1>7, <1>8, <1>9

LEMMA DropRowInv ==
    ASSUME SecretsInv, NEW w \in Writer, DropRow(w)
    PROVE  SecretsInv'
<1> USE DEF SecretsInv
<1>0. /\ pc[w] = "row" /\ job[w].key \in Host /\ HoldsStore(w)
      /\ \A u \in Writer : HoldsStore(u) => u = w
      /\ hosts' = hosts \ {job[w].key}
      /\ pc' = [pc EXCEPT ![w] = "idle"] /\ job' = [job EXCEPT ![w] = NoJob]
      /\ UNCHANGED <<consolidate, storage, unborn, scratch, phase, copy, history>>
  BY ConstantsAssumption DEF DropRow, JobInv, LockInv, HoldsStore
<1>1. TypeOK'
  BY <1>0 DEF TypeOK, storage, history
<1>2. \A u \in Writer : pc'[u] # "idle" => u # w /\ pc'[u] = pc[u] /\ job'[u] = job[u]
  BY <1>0 DEF TypeOK
<1>3. JobInv'
  <2>1. \A u \in Writer : pc'[u] # "idle" => job'[u].key \in Static
    BY <1>0, <1>2 DEF HoldsStore
  <2>2. \A u \in Writer : pc'[u] = "idle" <=> job'[u] = NoJob
    BY <1>0, <1>2 DEF JobInv, TypeOK
  <2>3. \A u \in Writer : pc'[u] # "idle" => phase' = "running"
    BY <1>0, <1>2 DEF JobInv
  <2>4. \A u \in Writer : pc'[u] # "row"
    BY <1>0, <1>2, <2>1, ConstantsAssumption DEF JobInv
  <2> QED
    BY <2>1, <2>2, <2>3, <2>4 DEF JobInv
<1>4. LockInv'
  <2>1. \A u \in Writer : HoldsStore(u)' => HoldsStore(u)
    BY <1>2 DEF HoldsStore
  <2>2. \A u \in Writer : HoldsLock(u)' => HoldsLock(u) /\ job'[u] = job[u]
    BY <1>0, <1>2 DEF HoldsLock
  <2>3. \A u \in Writer : pc'[u] = "blob" => pc[u] = "blob"
    BY <1>0, <1>2 DEF TypeOK
  <2> QED
    BY <1>0, <1>2, <2>1, <2>2, <2>3 DEF LockInv, storage
<1>5. (BlobInv /\ UnbornInv /\ ExposedInv /\ GenuineInv /\ SavedIsRead)'
  BY <1>0 DEF storage, history, BlobInv, Empty, UnbornInv, ExposedInv, GenuineInv,
     SavedIsRead, Readable, Read
<1> QED
  BY <1>1, <1>3, <1>4, <1>5

LEMMA AddHostInv ==
    ASSUME SecretsInv, NEW h \in Host, AddHost(h)
    PROVE  SecretsInv'
<1> USE DEF SecretsInv
<1>0. /\ h \in unborn /\ hosts' = hosts \union {h} /\ unborn' = unborn \ {h}
      /\ UNCHANGED <<consolidate, storage, scratch, phase, writers, history>>
  BY DEF AddHost
<1>1. TypeOK'
  BY <1>0 DEF TypeOK, storage, writers, history
<1>2. (JobInv /\ LockInv /\ BlobInv)'
  BY <1>0 DEF JobInv, LockInv, BlobInv, HoldsStore, HoldsLock, storage, writers, Empty
<1>3. (UnbornInv /\ ExposedInv /\ GenuineInv)'
  BY <1>0 DEF UnbornInv, ExposedInv, GenuineInv, storage, history
<1>4. SavedIsRead'
  <2>1. Read(h) = saved[h]
    BY <1>0 DEF UnbornInv, Read
  <2> QED
    BY <1>0, <2>1 DEF SavedIsRead, Readable, Read, storage, history
<1> QED
  BY <1>1, <1>2, <1>3, <1>4

LEMMA DamagedInv == SecretsInv /\ Damaged => SecretsInv'
<1> SUFFICES ASSUME SecretsInv, Damaged PROVE SecretsInv'
  OBVIOUS
<1> USE DEF SecretsInv
<1>0. /\ consolidate /\ \A w \in Writer : ~HoldsLock(w)
      /\ blobIs' = "corrupt" /\ blob' = Empty /\ retired' = FALSE
      /\ UNCHANGED <<consolidate, items, rows, scratch, phase, writers, history>>
  BY DEF Damaged
<1>1. TypeOK'
  BY <1>0, EmptyIs DEF TypeOK, rows, writers, history
<1>2. JobInv'
  BY <1>0 DEF JobInv, rows, writers
<1>3. LockInv'
  BY <1>0 DEF LockInv, HoldsLock, HoldsStore, writers
<1>4. \A k \in Key : blob'[k] = NoValue
  BY <1>0 DEF Empty
<1>5. (BlobInv /\ UnbornInv /\ ExposedInv /\ GenuineInv)'
  BY <1>0, <1>4, ConstantsAssumption
     DEF BlobInv, Empty, UnbornInv, ExposedInv, GenuineInv, TypeOK, Key, rows, history
<1>6. SavedIsRead'
  BY <1>0 DEF SavedIsRead, Readable
<1> QED
  BY <1>1, <1>2, <1>3, <1>5, <1>6

LEMMA DeletedInv == SecretsInv /\ Deleted => SecretsInv'
<1> SUFFICES ASSUME SecretsInv, Deleted PROVE SecretsInv'
  OBVIOUS
<1> USE DEF SecretsInv
<1>0. /\ blobIs = "corrupt" /\ blobIs' = "absent" /\ saved' = items
      /\ exposed' = (exposed \/ \E v \in Vendor : items[v] # NoValue)
      /\ UNCHANGED <<consolidate, items, blob, retired, rows, scratch, phase, writers, ever>>
  BY DEF Deleted
<1>1. TypeOK'
  BY <1>0 DEF TypeOK, rows, writers
<1>2. JobInv'
  BY <1>0 DEF JobInv, rows, writers
<1>3. LockInv'
  BY <1>0 DEF LockInv, HoldsLock, HoldsStore, writers
<1>4. (BlobInv /\ UnbornInv /\ ExposedInv /\ GenuineInv)'
  BY <1>0 DEF BlobInv, Empty, UnbornInv, ExposedInv, GenuineInv, rows
<1>5. SavedIsRead'
  BY <1>0 DEF SavedIsRead, Readable, Read
<1> QED
  BY <1>1, <1>2, <1>3, <1>4, <1>5

----------------------------------------------------------------------------
(* The theorems.                                                           *)

LEMMA NextInv == SecretsInv /\ [Next]_vars => SecretsInv'
<1> SUFFICES ASSUME SecretsInv, [Next]_vars PROVE SecretsInv'
  OBVIOUS
<1>1. CASE UNCHANGED vars
  <2>1. UNCHANGED <<consolidate, storage, rows, history>>
    BY <1>1 DEF vars, storage, rows, history
  <2> QED
    BY <1>1, <2>1, Unmoved
       DEF vars, SecretsInv, TypeOK, JobInv, LockInv, HoldsLock, HoldsStore
<1>2. CASE Relaunch \/ Launch \/ Damaged \/ Deleted
  BY <1>2, RelaunchInv, LaunchInv, DamagedInv, DeletedInv
<1>3. CASE \E w \in Writer, j \in Job : Start(w, j)
  BY <1>3, StartInv
<1>4. CASE \E w \in Writer : Call(w)
  BY <1>4, RejectedInv, WriteBlobInv, WriteItemInv, DropRowInv DEF Call
<1>5. CASE \E h \in Host : Refused(h) \/ AddHost(h)
  BY <1>5, RefusedInv, AddHostInv
<1> QED
  BY <1>1, <1>2, <1>3, <1>4, <1>5 DEF Next

\* The inductive invariant holds in every state of every behaviour: one writer
\* at a time holds `blob_lock`, its copy is the blob, an item is written only
\* where there is no blob or to clear what the blob has lost.
THEOREM SecretsInvariant == Spec => []SecretsInv
<1>1. Init => SecretsInv
  BY InitInv
<1> QED
  BY <1>1, NextInv, PTL DEF Spec

\* What was last saved is what is read, whatever the two writers, the launches,
\* the failed calls and the damage to the blob do: migrate_legacy, route_secret
\* and the two routes that write.
THEOREM SavedIsReadAlways == Spec => []SavedIsRead
<1>1. SecretsInv => SavedIsRead
  BY DEF SecretsInv
<1> QED
  BY <1>1, SecretsInvariant, PTL

\* A credential that was cleared does not come back, also when a damaged blob is
\* deleted and rebuilt: route_delete_secret clears both places.
THEOREM NothingComesBack == Spec => []ReadIsGenuine
<1>1. SecretsInv => ReadIsGenuine
  BY DEF SecretsInv, GenuineInv, ReadIsGenuine, Readable, Read
<1> QED
  BY <1>1, SecretsInvariant, PTL


----------------------------------------------------------------------------
(* StoreFile.  A write that is begun is of one portfolio, nothing is       *)
(* renamed that was not flushed, and a file is created only where there is *)
(* none to adopt.                                                          *)

\* `OrgAndRecordsTogether`, of one portfolio.
Together(d) ==
    /\ d.org = "settings" => ~d.stamped /\ d.version # StoreVersion
    /\ d.org = "account" => d.stamped

\* No file is ever torn, and the older one is whole.
NothingTorn ==
    /\ {file, disk, legacy, writing} \subseteq StoreData \union {NoFile}
    /\ legacy # NoFile => Together(legacy)

\* Who writes, and what of.
WritesAreBegun ==
    /\ tempFile # "none" => writing # NoFile
    /\ running = "off" => writing = NoFile
    /\ running = "adopting" => writing # NoFile
    /\ running = "up" => mem \in StoreData

\* An older file is adopted before anything is opened or created.
AdoptionIsFirst ==
    running = "opening" =>
        /\ legacy # NoFile => file # NoFile
        /\ writing # NoFile => file = NoFile

KeptInv == StoreInv /\ NothingTorn /\ WritesAreBegun /\ AdoptionIsFirst

LEMMA NoFileIsNoData == NoFile \notin StoreData /\ NoFile # TornFile /\ TornFile \notin StoreData
<1>1. TornFile \notin StoreData
  <2> SUFFICES ASSUME TornFile \in StoreData
               PROVE  FALSE
    OBVIOUS
  <2>1. DOMAIN TornFile = {"version", "minted", "own", "other", "repo", "org", "stamped"}
    BY DEF StoreData
  <2>2. DOMAIN TornFile = {"torn"}
    BY DEF TornFile
  <2> QED
    BY <2>1, <2>2
<1> QED
  BY <1>1, NoFileAssumption

LEMMA PortfolioIs ==
    ASSUME NEW v \in 1..4, NEW m \in 0..1, NEW o \in {"none", "settings"},
           o = "settings" => v # 3
    PROVE  Portfolio(v, m, o) \in StoreData /\ Together(Portfolio(v, m, o))
<1>1. Portfolio(v, m, o) \in StoreData
  BY DEF Portfolio, StoreData
<1>2. Together(Portfolio(v, m, o))
  BY DEF Portfolio, Together, StoreVersion
<1> QED
  BY <1>1, <1>2

LEMMA EmptyStoreIs == EmptyStore \in StoreData /\ Together(EmptyStore)
  BY PortfolioIs DEF EmptyStore, StoreVersion

LEMMA InheritedIs == \A d \in Inherited : d \in StoreData /\ Together(d)
<1> SUFFICES ASSUME NEW d \in Inherited
             PROVE  d \in StoreData /\ Together(d)
  OBVIOUS
<1>1. PICK v \in {1, 2, 4}, m \in 0..1, o \in {"none", "settings"} : d = Portfolio(v, m, o)
  BY DEF Inherited
<1> QED
  BY <1>1, PortfolioIs

----------------------------------------------------------------------------
(* What the migrations do to a portfolio.                                  *)

\* Minting is of a portfolio without a GitHub account: that is once.
LEMMA MintedIs ==
    ASSUME NEW d \in StoreData
    PROVE  /\ Minted(d) \in StoreData
           /\ Minted(d).org = d.org /\ Minted(d).stamped = d.stamped
           /\ Minted(d).version = d.version
           /\ d.repo # "nobody" => Minted(d).repo = d.repo
<1>1. CASE HasGithubAccount(d)
  BY <1>1 DEF Minted
<1>2. CASE ~HasGithubAccount(d)
  <2>1. d.minted = 0
    BY <1>2 DEF HasGithubAccount, StoreData
  <2>2. Minted(d) = [d EXCEPT !.minted = @ + 1, !.repo = IF @ = "nobody" THEN "minted" ELSE @]
    BY <1>2 DEF Minted
  <2>3. Minted(d) \in StoreData
    <3>1. d.minted + 1 \in 0..1
      BY <2>1
    <3>2. PICK m \in 0..1, repo \in {"minted", d.repo} :
              Minted(d) = [d EXCEPT !.minted = m, !.repo = repo]
      BY <2>2, <3>1
    <3> QED
      BY <3>2 DEF StoreData
  <2>4. Minted(d).org = d.org /\ Minted(d).stamped = d.stamped /\ Minted(d).version = d.version
    BY <2>2 DEF StoreData
  <2>5. d.repo # "nobody" => Minted(d).repo = d.repo
    BY <2>2 DEF StoreData
  <2> QED
    BY <2>3, <2>4, <2>5
<1> QED
  BY <1>1, <1>2

LEMMA OrgAdoptedIs ==
    ASSUME NEW d \in StoreData
    PROVE  /\ OrgAdopted(d) \in StoreData
           /\ OrgAdopted(d).org # "settings" /\ OrgAdopted(d).repo = d.repo
           /\ d.org = "settings" => OrgAdopted(d).stamped
           /\ d.org # "settings" => OrgAdopted(d) = d
<1>1. CASE d.org = "settings"
  <2>1. OrgAdopted(d) = [d EXCEPT !.org = "account", !.stamped = TRUE]
    BY <1>1 DEF OrgAdopted
  <2>2. OrgAdopted(d) \in StoreData
    BY <2>1 DEF StoreData
  <2>3. OrgAdopted(d).org = "account" /\ OrgAdopted(d).repo = d.repo
    BY <2>1 DEF StoreData
  <2>4. OrgAdopted(d).stamped
    BY <2>1 DEF StoreData
  <2> QED
    BY <1>1, <2>2, <2>3, <2>4
<1>2. CASE d.org # "settings"
  BY <1>2 DEF OrgAdopted
<1> QED
  BY <1>1, <1>2

LEMMA V1ToV2Is ==
    ASSUME NEW d \in StoreData, Together(d), d.version < 2, NEW present \in BOOLEAN
    PROVE  /\ V1ToV2(d, present) \in StoreData /\ Together(V1ToV2(d, present))
<1> DEFINE two == V1ToV2(d, present)
<1>1. CASE HasGithubAccount(d) \/ d.other
  <2>1. two = [d EXCEPT !.version = 2]
    BY <1>1 DEF V1ToV2
  <2>2. two \in StoreData
    BY <2>1 DEF StoreData
  <2>3. two.org = d.org /\ two.stamped = d.stamped /\ two.version = 2
    BY <2>1 DEF StoreData
  <2> QED
    BY <2>2, <2>3 DEF Together, StoreVersion
<1>2. CASE ~(HasGithubAccount(d) \/ d.other) /\ present
  <2>1. two = [d EXCEPT !.version = 2, !.minted = @ + 1, !.repo = "minted"]
    BY <1>2 DEF V1ToV2
  <2>2. d.minted = 0
    BY <1>2 DEF HasGithubAccount, StoreData
  <2>3. two \in StoreData
    <3> DEFINE m == d.minted + 1
               v == 2
    <3>1. m \in 0..1
      BY <2>2
    <3>2. v \in 1..4 /\ two = [d EXCEPT !.version = v, !.minted = m, !.repo = "minted"]
      BY <2>1
    <3> HIDE DEF m, v, two
    <3> QED
      BY <3>1, <3>2 DEF StoreData
  <2>4. two.org = d.org /\ two.stamped = d.stamped /\ two.version = 2
    BY <2>1 DEF StoreData
  <2> QED
    BY <2>3, <2>4 DEF Together, StoreVersion
<1>3. CASE ~(HasGithubAccount(d) \/ d.other) /\ ~present
  BY <1>3 DEF V1ToV2
<1> QED
  BY <1>1, <1>2, <1>3

LEMMA V2ToV3Is ==
    ASSUME NEW d \in StoreData, Together(d), d.version = 2, NEW present \in BOOLEAN
    PROVE  /\ V2ToV3(d, present) \in StoreData /\ Together(V2ToV3(d, present))
           /\ d.repo # "nobody" => V2ToV3(d, present).repo = d.repo
<1> DEFINE three == V2ToV3(d, present)
           m     == Minted(d)
           a     == OrgAdopted(Minted(d))
<1>1. CASE ~HasGithubAccount(d) /\ ~present
  BY <1>1 DEF V2ToV3
<1>2. CASE HasGithubAccount(d) \/ present
  <2>1. three = [a EXCEPT !.version = 3]
    BY <1>2 DEF V2ToV3
  <2>2. /\ m \in StoreData /\ m.org = d.org /\ m.stamped = d.stamped
        /\ d.repo # "nobody" => m.repo = d.repo
    BY MintedIs
  <2>3. /\ a \in StoreData /\ a.org # "settings" /\ a.repo = m.repo
        /\ m.org = "settings" => a.stamped
        /\ m.org # "settings" => a = m
    BY <2>2, OrgAdoptedIs
  <2> HIDE DEF three, m, a
  <2>4. three \in StoreData
    BY <2>1, <2>3 DEF StoreData
  <2>5. three.org = a.org /\ three.repo = a.repo /\ three.stamped = a.stamped
    BY <2>1, <2>3 DEF StoreData
  <2>6. Together(three)
    BY <2>2, <2>3, <2>5 DEF Together
  <2> QED
    BY <2>2, <2>3, <2>4, <2>5, <2>6 DEF three
<1> QED
  BY <1>1, <1>2

\* `open_in`: whatever the versions and the answers of the credential store,
\* the organisation and its records stay together, and a repository that
\* names an account in a file of version 2 names it still.
LEMMA MigratedIs ==
    ASSUME NEW d \in StoreData, Together(d), NEW present \in BOOLEAN
    PROVE  /\ MigratedStore(d, present) \in StoreData
           /\ Together(MigratedStore(d, present))
           /\ d.version = 2 /\ d.repo # "nobody" => MigratedStore(d, present).repo = d.repo
<1> DEFINE two == IF d.version < 2 THEN V1ToV2(d, present) ELSE d
<1>1. two \in StoreData /\ Together(two) /\ (d.version = 2 => two = d)
  BY V1ToV2Is
<1>2. MigratedStore(d, present) = IF two.version = 2 THEN V2ToV3(two, present) ELSE two
  BY DEF MigratedStore
<1> HIDE DEF two
<1>3. CASE two.version = 2
  BY <1>1, <1>2, <1>3, V2ToV3Is
<1>4. CASE two.version # 2
  BY <1>1, <1>2, <1>4
<1> QED
  BY <1>3, <1>4


----------------------------------------------------------------------------
(* The steps of the store.                                                 *)

\* Every edit saves a whole portfolio.
LEMMA EditIs ==
    ASSUME mem \in StoreData, Together(mem), StoreEdit
    PROVE  \E d \in StoreData : Together(d) /\ EditStore(d)
<1>1. CASE AddOwn
  <2> DEFINE d == [mem EXCEPT !.own = TRUE]
  <2>1. d \in StoreData
    BY DEF StoreData
  <2>2. d.org = mem.org /\ d.stamped = mem.stamped /\ d.version = mem.version
    BY DEF StoreData
  <2> QED
    BY <1>1, <2>1, <2>2 DEF AddOwn, Together
<1>2. CASE AddOther
  <2> DEFINE d == [mem EXCEPT !.other = TRUE]
  <2>1. d \in StoreData
    BY DEF StoreData
  <2>2. d.org = mem.org /\ d.stamped = mem.stamped /\ d.version = mem.version
    BY DEF StoreData
  <2> QED
    BY <1>2, <2>1, <2>2 DEF AddOther, Together
<1>3. CASE SetRepo
  <2> PICK a \in {"nobody", "minted", "own"} : EditStore([mem EXCEPT !.repo = a])
    BY <1>3 DEF SetRepo
  <2> DEFINE d == [mem EXCEPT !.repo = a]
  <2>1. d \in StoreData
    BY DEF StoreData
  <2>2. d.org = mem.org /\ d.stamped = mem.stamped /\ d.version = mem.version
    BY DEF StoreData
  <2> QED
    BY <2>1, <2>2 DEF Together
<1>4. CASE RemoveMinted
  <2> DEFINE repo == IF mem.repo = "minted" THEN "gone" ELSE mem.repo
             org  == IF mem.org = "account" THEN "none" ELSE mem.org
             none == 0
             d    == [mem EXCEPT !.minted = none, !.repo = repo, !.org = org]
  <2>1. EditStore(d)
    BY <1>4 DEF RemoveMinted
  <2>2. /\ repo \in {"nobody", "minted", "own", "gone"} /\ none \in 0..1
        /\ org \in {"none", "settings", "account"}
        /\ org # "account" /\ (org = "settings" => mem.org = "settings")
    BY DEF StoreData
  <2> HIDE DEF repo, org, none
  <2>3. d \in StoreData
    BY <2>2 DEF StoreData
  <2>4. d.org = org /\ d.stamped = mem.stamped /\ d.version = mem.version
    BY DEF StoreData
  <2> QED
    BY <2>1, <2>2, <2>3, <2>4 DEF Together
<1>5. CASE RemoveOwn
  <2> DEFINE repo == IF mem.repo = "own" THEN "gone" ELSE mem.repo
             org  == IF mem.org = "account" /\ mem.minted = 0 THEN "none" ELSE mem.org
             d    == [mem EXCEPT !.own = FALSE, !.repo = repo, !.org = org]
  <2>1. EditStore(d)
    BY <1>5 DEF RemoveOwn
  <2>2. /\ repo \in {"nobody", "minted", "own", "gone"}
        /\ org \in {"none", "settings", "account"} /\ org \in {"none", mem.org}
    BY DEF StoreData
  <2> HIDE DEF repo, org
  <2>3. d \in StoreData
    BY <2>2 DEF StoreData
  <2>4. d.org = org /\ d.stamped = mem.stamped /\ d.version = mem.version
    BY DEF StoreData
  <2> QED
    BY <2>1, <2>2, <2>3, <2>4 DEF Together
<1> QED
  BY <1>1, <1>2, <1>3, <1>4, <1>5 DEF StoreEdit

\* What the invariant says of each portfolio there is.
LEMMA AllTogether ==
    ASSUME KeptInv
    PROVE  \A d \in {file, disk, mem, writing, legacy} \ {NoFile} :
                d \in StoreData /\ Together(d)
<1> SUFFICES ASSUME NEW d \in {file, disk, mem, writing, legacy} \ {NoFile}
             PROVE  d \in StoreData /\ Together(d)
  OBVIOUS
<1>1. d \in StoreData
  BY DEF KeptInv, StoreInv, StoreTypeOK, NothingTorn
<1>2. CASE d \in {file, disk, mem, writing}
  BY <1>1, <1>2, NoFileIsNoData DEF KeptInv, StoreInv, OrgAndRecordsTogether, Together
<1>3. CASE d = legacy
  BY <1>1, <1>3 DEF KeptInv, NothingTorn
<1> QED
  BY <1>2, <1>3

\* And what suffices to have it again.
LEMMA TogetherAgain ==
    ASSUME \A d \in {file, disk, mem, writing, legacy}' \ {NoFile} :
                d \in StoreData /\ Together(d),
           tempFile' \in {"none", "partial", "written", "synced"},
           running' \in {"off", "adopting", "opening", "up"}, created' \in BOOLEAN,
           NeverStartsEmpty', WritesAreBegun', AdoptionIsFirst'
    PROVE  KeptInv'
<1>1. StoreTypeOK'
  BY DEF StoreTypeOK
<1>2. OrgAndRecordsTogether'
  BY DEF OrgAndRecordsTogether, Together
<1>3. NothingTorn'
  BY DEF NothingTorn, Together
<1> QED
  BY <1>1, <1>2, <1>3 DEF KeptInv, StoreInv

LEMMA StoreInitInv == StoreInit => KeptInv
<1> SUFFICES ASSUME StoreInit
             PROVE  KeptInv
  OBVIOUS
<1>1. \A d \in {file, disk, mem, writing, legacy} \ {NoFile} : d \in StoreData /\ Together(d)
  BY InheritedIs DEF StoreInit
<1>2. StoreTypeOK
  BY <1>1 DEF StoreInit, StoreTypeOK
<1>3. OrgAndRecordsTogether /\ NothingTorn
  BY <1>1 DEF OrgAndRecordsTogether, NothingTorn, Together
<1> QED
  BY <1>2, <1>3 DEF StoreInit, KeptInv, StoreInv, NeverStartsEmpty, WritesAreBegun,
                    AdoptionIsFirst

\* A step of the store is one of the abstract file or changes nothing of it.
FileStep == Durable!Next \/ UNCHANGED <<file, disk, writing>>

\* A launch, an open, a creation, an edit.
LEMMA OpensKeepStore ==
    ASSUME KeptInv, LaunchStore \/ OpenFile \/ CreateFile \/ StoreEdit
    PROVE  KeptInv' /\ FileStep
<1>1. \A d \in {file, disk, mem, writing, legacy} \ {NoFile} : d \in StoreData /\ Together(d)
  BY AllTogether
<1>2. /\ StoreTypeOK /\ NeverStartsEmpty /\ WritesAreBegun /\ AdoptionIsFirst
  BY DEF KeptInv, StoreInv
<1>3. CASE LaunchStore
  <2>1. running = "off" /\ writing = NoFile /\ tempFile = "none"
    BY <1>2, <1>3 DEF LaunchStore, WritesAreBegun, StoreTypeOK
  <2>2. CASE file = NoFile /\ legacy # NoFile
    <3>1. /\ running' = "adopting" /\ writing' = legacy
          /\ UNCHANGED <<file, disk, legacy, tempFile, mem, created>>
      BY <1>3, <2>2 DEF LaunchStore, BeginWrite
    <3>2. KeptInv'
      <4>1. \A d \in {file, disk, mem, writing, legacy}' \ {NoFile} :
                d \in StoreData /\ Together(d)
        BY <1>1, <3>1
      <4>2. NeverStartsEmpty' /\ WritesAreBegun' /\ AdoptionIsFirst'
        BY <1>2, <2>1, <2>2, <3>1 DEF NeverStartsEmpty, WritesAreBegun, AdoptionIsFirst
      <4> QED
        BY <1>2, <3>1, <4>1, <4>2, TogetherAgain DEF StoreTypeOK
    <3>3. Durable!Ask
      BY <1>1, <2>1, <2>2, <3>1 DEF Durable!Ask
    <3> QED
      BY <3>2, <3>3 DEF FileStep, Durable!Next
  <2>3. CASE ~(file = NoFile /\ legacy # NoFile)
    <3>1. /\ running' = "opening"
          /\ UNCHANGED <<file, disk, legacy, writing, tempFile, mem, created>>
      BY <1>3, <2>3 DEF LaunchStore, diskVars
    <3>2. KeptInv'
      <4>1. \A d \in {file, disk, mem, writing, legacy}' \ {NoFile} :
                d \in StoreData /\ Together(d)
        BY <1>1, <3>1
      <4>2. NeverStartsEmpty' /\ WritesAreBegun' /\ AdoptionIsFirst'
        BY <1>2, <2>1, <2>3, <3>1 DEF NeverStartsEmpty, WritesAreBegun, AdoptionIsFirst
      <4> QED
        BY <1>2, <3>1, <4>1, <4>2, TogetherAgain DEF StoreTypeOK
    <3> QED
      BY <3>1, <3>2 DEF FileStep
  <2> QED
    BY <2>2, <2>3
<1>4. CASE OpenFile
  <2>1. /\ running = "opening" /\ file # NoFile
        /\ UNCHANGED <<file, disk, legacy, writing, tempFile, created>>
    BY <1>4 DEF OpenFile, diskVars
  <2>2. file \in StoreData /\ Together(file) /\ writing = NoFile /\ tempFile = "none"
    BY <1>1, <1>2, <2>1 DEF AdoptionIsFirst, WritesAreBegun, StoreTypeOK
  <2>3. \/ running' = "off" /\ UNCHANGED mem
        \/ running' = "up" /\ \E present \in BOOLEAN : mem' = MigratedStore(file, present)
    BY <1>4 DEF OpenFile
  <2>4. mem' = mem \/ (mem' \in StoreData /\ Together(mem'))
    BY <2>2, <2>3, MigratedIs
  <2>5. running' = "up" => mem' \in StoreData
    BY <2>2, <2>3, MigratedIs
  <2>6. \A d \in {file, disk, mem, writing, legacy}' \ {NoFile} :
            d \in StoreData /\ Together(d)
    BY <1>1, <2>1, <2>4
  <2>7. NeverStartsEmpty' /\ WritesAreBegun' /\ AdoptionIsFirst'
    BY <1>2, <2>1, <2>2, <2>3, <2>5 DEF NeverStartsEmpty, WritesAreBegun, AdoptionIsFirst
  <2>8. KeptInv'
    BY <1>2, <2>1, <2>3, <2>6, <2>7, TogetherAgain DEF StoreTypeOK
  <2> QED
    BY <2>1, <2>8 DEF FileStep
<1>5. CASE CreateFile
  <2>1. /\ running = "opening" /\ file = NoFile /\ writing = NoFile /\ writing' = EmptyStore
        /\ UNCHANGED <<file, disk, legacy, tempFile, running, mem, created>>
    BY <1>5 DEF CreateFile, BeginWrite
  <2>2. \A d \in {file, disk, mem, writing, legacy}' \ {NoFile} :
            d \in StoreData /\ Together(d)
    BY <1>1, <2>1, EmptyStoreIs
  <2>3. NeverStartsEmpty' /\ WritesAreBegun' /\ AdoptionIsFirst'
    BY <1>2, <2>1, EmptyStoreIs, NoFileIsNoData
       DEF NeverStartsEmpty, WritesAreBegun, AdoptionIsFirst
  <2>4. KeptInv'
    BY <1>2, <2>1, <2>2, <2>3, TogetherAgain DEF StoreTypeOK
  <2>5. Durable!Ask
    BY <2>1, EmptyStoreIs DEF Durable!Ask
  <2> QED
    BY <2>4, <2>5 DEF FileStep, Durable!Next
<1>6. CASE StoreEdit
  <2>1. running = "up" /\ mem \in StoreData /\ Together(mem)
    BY <1>1, <1>2, <1>6, NoFileIsNoData DEF StoreEdit, WritesAreBegun
  <2>2. PICK d \in StoreData : Together(d) /\ EditStore(d)
    BY <1>6, <2>1, EditIs
  <2>3. /\ writing = NoFile /\ mem' = d /\ writing' = d
        /\ UNCHANGED <<file, disk, legacy, tempFile, running, created>>
    BY <2>2 DEF EditStore, BeginWrite
  <2>4. \A e \in {file, disk, mem, writing, legacy}' \ {NoFile} :
            e \in StoreData /\ Together(e)
    BY <1>1, <2>2, <2>3
  <2>5. NeverStartsEmpty' /\ WritesAreBegun' /\ AdoptionIsFirst'
    BY <1>2, <2>1, <2>3, NoFileIsNoData DEF NeverStartsEmpty, WritesAreBegun, AdoptionIsFirst
  <2>6. KeptInv'
    BY <1>2, <2>3, <2>4, <2>5, TogetherAgain DEF StoreTypeOK
  <2>7. Durable!Ask
    BY <2>3 DEF Durable!Ask
  <2> QED
    BY <2>6, <2>7 DEF FileStep, Durable!Next
<1> QED
  BY <1>3, <1>4, <1>5, <1>6


\* The steps of a write, its failure, and a stop of the process or of the
\* machine.
LEMMA WritesKeepStore ==
    ASSUME KeptInv, \/ WriteTemp \/ SyncTemp \/ RenameTemp \/ FlushDirectory \/ WriteFails
                    \/ CrashStore \/ PowerLoss
    PROVE  KeptInv' /\ FileStep
<1>1. \A d \in {file, disk, mem, writing, legacy} \ {NoFile} : d \in StoreData /\ Together(d)
  BY AllTogether
<1>2. /\ StoreTypeOK /\ NeverStartsEmpty /\ WritesAreBegun /\ AdoptionIsFirst
  BY DEF KeptInv, StoreInv
<1>3. CASE WriteTemp \/ SyncTemp
  <2>1. /\ writing # NoFile /\ tempFile' \in {"partial", "written", "synced"}
        /\ UNCHANGED <<file, disk, legacy, writing, running, mem, created>>
    BY <1>2, <1>3 DEF WriteTemp, SyncTemp, WritesAreBegun
  <2>2. \A d \in {file, disk, mem, writing, legacy}' \ {NoFile} :
            d \in StoreData /\ Together(d)
    BY <1>1, <2>1
  <2>3. NeverStartsEmpty' /\ WritesAreBegun' /\ AdoptionIsFirst'
    BY <1>2, <2>1 DEF NeverStartsEmpty, WritesAreBegun, AdoptionIsFirst
  <2>4. KeptInv'
    BY <1>2, <2>1, <2>2, <2>3, TogetherAgain DEF StoreTypeOK
  <2> QED
    BY <2>1, <2>4 DEF FileStep
<1>4. CASE RenameTemp
  <2>1. /\ tempFile = "synced" /\ writing # NoFile
        /\ file' = writing /\ writing' = NoFile /\ tempFile' = "none"
        /\ disk' \in {disk, writing} /\ UNCHANGED legacy
    BY <1>2, <1>4 DEF RenameTemp, WrittenAndSynced, WritesAreBegun
  <2>2. \/ running = "opening" /\ running' = "up" /\ mem' = writing /\ created' = TRUE
        \/ /\ running # "opening" /\ UNCHANGED <<mem, created>>
           /\ running' = IF running = "adopting" THEN "opening" ELSE "up"
    BY <1>4 DEF RenameTemp
  <2>3. \A d \in {file, disk, mem, writing, legacy}' \ {NoFile} :
            d \in StoreData /\ Together(d)
    BY <1>1, <2>1, <2>2
  <2>4. writing \in StoreData
    BY <1>1, <2>1
  <2>5. NeverStartsEmpty'
    BY <1>2, <2>1, <2>2 DEF NeverStartsEmpty, AdoptionIsFirst
  <2>6. WritesAreBegun' /\ AdoptionIsFirst'
    <3>1. running \notin {"off"}
      BY <1>2, <2>1 DEF WritesAreBegun
    <3>2. running' = "up" => mem' \in StoreData
      BY <1>2, <2>2, <2>4, <3>1 DEF WritesAreBegun, StoreTypeOK
    <3> QED
      BY <2>1, <2>2, <3>2 DEF WritesAreBegun, AdoptionIsFirst
  <2>7. running' \in {"off", "adopting", "opening", "up"} /\ created' \in BOOLEAN
    BY <1>2, <2>2 DEF StoreTypeOK
  <2>8. KeptInv'
    BY <2>1, <2>3, <2>5, <2>6, <2>7, TogetherAgain
  <2>9. Durable!Commit
    BY <2>1 DEF Durable!Commit
  <2> QED
    BY <2>8, <2>9 DEF FileStep, Durable!Next
<1>5. CASE FlushDirectory
  <2>1. /\ disk' = file
        /\ UNCHANGED <<file, legacy, writing, tempFile, running, mem, created>>
    BY <1>5 DEF FlushDirectory
  <2>2. \A d \in {file, disk, mem, writing, legacy}' \ {NoFile} :
            d \in StoreData /\ Together(d)
    BY <1>1, <2>1
  <2>3. NeverStartsEmpty' /\ WritesAreBegun' /\ AdoptionIsFirst'
    BY <1>2, <2>1 DEF NeverStartsEmpty, WritesAreBegun, AdoptionIsFirst
  <2>4. KeptInv'
    BY <1>2, <2>1, <2>2, <2>3, TogetherAgain DEF StoreTypeOK
  <2>5. Durable!Settle
    BY <2>1 DEF Durable!Settle
  <2> QED
    BY <2>4, <2>5 DEF FileStep, Durable!Next
<1>6. CASE WriteFails
  <2>1. /\ writing' = NoFile /\ tempFile' = "none"
        /\ running' = IF running = "up" THEN "up" ELSE "off"
        /\ UNCHANGED <<file, disk, legacy, mem, created>>
    BY <1>6 DEF WriteFails, AfterFailure
  <2>2. \A d \in {file, disk, mem, writing, legacy}' \ {NoFile} :
            d \in StoreData /\ Together(d)
    BY <1>1, <2>1
  <2>3. NeverStartsEmpty' /\ WritesAreBegun' /\ AdoptionIsFirst'
    BY <1>2, <2>1 DEF NeverStartsEmpty, WritesAreBegun, AdoptionIsFirst
  <2>4. KeptInv'
    BY <1>2, <2>1, <2>2, <2>3, TogetherAgain DEF StoreTypeOK
  <2>5. Durable!GiveUp
    BY <2>1 DEF Durable!GiveUp
  <2> QED
    BY <2>4, <2>5 DEF FileStep, Durable!Next
<1>7. CASE CrashStore \/ PowerLoss
  <2>1. /\ running' = "off" /\ mem' = NoFile /\ writing' = NoFile /\ tempFile' = "none"
        /\ file' \in {file, disk} /\ UNCHANGED <<disk, legacy, created>>
    BY <1>7 DEF CrashStore, PowerLoss, Stopped
  <2>2. \A d \in {file, disk, mem, writing, legacy}' \ {NoFile} :
            d \in StoreData /\ Together(d)
    BY <1>1, <2>1
  <2>3. NeverStartsEmpty' /\ WritesAreBegun' /\ AdoptionIsFirst'
    BY <1>2, <2>1 DEF NeverStartsEmpty, WritesAreBegun, AdoptionIsFirst
  <2>4. KeptInv'
    BY <1>2, <2>1, <2>2, <2>3, TogetherAgain DEF StoreTypeOK
  <2>5. Durable!GiveUp
    BY <2>1 DEF Durable!GiveUp
  <2> QED
    BY <2>4, <2>5 DEF FileStep, Durable!Next
<1> QED
  BY <1>3, <1>4, <1>5, <1>6, <1>7

\* The inductive invariant of the store file.
THEOREM StoreInvariant == StoreSpec => []KeptInv
<1>1. KeptInv /\ [StoreNext]_storeVars => KeptInv'
  <2> SUFFICES ASSUME KeptInv, [StoreNext]_storeVars
               PROVE  KeptInv'
    OBVIOUS
  <2>1. CASE StoreNext
    BY <2>1, OpensKeepStore, WritesKeepStore DEF StoreNext
  <2>2. CASE UNCHANGED storeVars
    BY <2>2 DEF storeVars, diskVars, KeptInv, StoreInv, StoreTypeOK, NeverStartsEmpty,
                OrgAndRecordsTogether, NothingTorn, Together, WritesAreBegun, AdoptionIsFirst
  <2> QED
    BY <2>1, <2>2
<1> QED
  BY StoreInitInv, <1>1, PTL DEF StoreSpec

\* Launches, adoptions, migrations, failures and crashes never leave an empty
\* store over an inherited one, nor an organisation moved without its records
\* (`adopt_legacy_dir`, `open_in`, `migrate_v2_to_v3`).
THEOREM StoreIsInOnePiece == StoreSpec => []StoreInv
<1>1. KeptInv => StoreInv
  BY DEF KeptInv
<1> QED
  BY StoreInvariant, <1>1, PTL

\* The store file implements the abstract durable file: it is only ever what
\* somebody asked to be saved, whole, through failures, crashes and power
\* losses (`write_atomically`).
THEOREM StoreIsDurable == StoreSpec => FileIsDurable
<1>1. StoreInit => Durable!Init
  <2> SUFFICES ASSUME StoreInit
               PROVE  Durable!Init
    OBVIOUS
  <2>1. file \in StoreData \union {NoFile} /\ disk = file /\ writing = NoFile
    BY InheritedIs DEF StoreInit
  <2> QED
    BY <2>1 DEF Durable!Init
<1>2. KeptInv /\ [StoreNext]_storeVars => [Durable!Next]_<<file, disk, writing>>
  <2> SUFFICES ASSUME KeptInv, [StoreNext]_storeVars
               PROVE  FileStep
    BY DEF FileStep
  <2>1. CASE StoreNext
    BY <2>1, OpensKeepStore, WritesKeepStore DEF StoreNext
  <2>2. CASE UNCHANGED storeVars
    BY <2>2 DEF storeVars, diskVars, FileStep
  <2> QED
    BY <2>1, <2>2
<1> QED
  BY StoreInvariant, <1>1, <1>2, PTL DEF StoreSpec, FileIsDurable, Durable!Spec

\* From version 2 on no migration gives a repository that names an account,
\* or named one that is gone, to somebody else (`migrate_v2_to_v3`).
THEOREM OwnersStay == StoreSpec => OwnersAreKept
<1> DEFINE Kept == (/\ running = "opening" /\ mem = NoFile /\ mem' # NoFile
                    /\ file \notin {NoFile, TornFile} /\ file.version = 2
                    /\ file.repo # "nobody")
                      => mem'.repo = file.repo
<1>1. KeptInv /\ StoreNext => Kept
  <2> SUFFICES ASSUME KeptInv, StoreNext, running = "opening", mem = NoFile, mem' # NoFile,
                      file \notin {NoFile, TornFile}, file.version = 2, file.repo # "nobody"
               PROVE  mem'.repo = file.repo
    OBVIOUS
  <2>1. file \in StoreData /\ Together(file)
    BY AllTogether
  <2>2. tempFile = "none"
    BY DEF KeptInv, StoreInv, StoreTypeOK, WritesAreBegun, AdoptionIsFirst
  <2>3. OpenFile
    BY <2>2 DEF StoreNext, LaunchStore, CreateFile, StoreEdit, WriteTemp, SyncTemp, RenameTemp,
                WrittenAndSynced, FlushDirectory, WriteFails, CrashStore, PowerLoss, Stopped
  <2>4. PICK present \in BOOLEAN : mem' = MigratedStore(file, present)
    BY <2>3 DEF OpenFile
  <2> QED
    BY <2>1, <2>4, MigratedIs
<1>2. KeptInv /\ [StoreNext]_storeVars => [Kept]_storeVars
  BY <1>1
<1> QED
  BY StoreInvariant, <1>2, PTL DEF StoreSpec, OwnersAreKept

\* Both: the file is whole, and nobody's repository becomes somebody else's.
THEOREM PortfolioStays == StoreSpec => PortfolioIsKept
  BY StoreIsDurable, OwnersStay, PTL DEF PortfolioIsKept

----------------------------------------------------------------------------
(* AgentInstall: what is true between the steps of the scripts, by part.   *)

InstallStep == {"handover", "env", "preserve", "preserving", "stage", "staging", "swap",
                "unit", "restart", "verify"}
UninstallStep == {"stopAgent", "stopLegacy", "remove"}

BindName   == {"none", "address", "tailnet", "wildcard"}
LegacyFile == [token : Nat, bind : BindName]

InstallPlan == [bin : Release, bind : BindName \ {"none"}, auto : BOOLEAN, tls : BOOLEAN,
                named : BindName]

HostTypeOK ==
    /\ DOMAIN files = FileName
    /\ files["env"] \in EnvFile \union {Absent}
    /\ files["devcanopyEnv"] \in LegacyFile \union {Absent}
    /\ files["key"] \in Nat \union {Absent} /\ files["cert"] \in Nat \union {Absent}
    /\ minted \in Nat
    /\ service \in [Unit -> [enabled : BOOLEAN, active : BOOLEAN]]
    /\ asked \in BindName
    /\ paired \in [token : Nat \union {Absent}, cert : Nat \union {Absent}]

ScriptTypeOK ==
    /\ step \in {"idle"} \union InstallStep \union UninstallStep
    /\ step \in InstallStep => plan \in InstallPlan
    /\ step \in UninstallStep => plan \in Seq(FileName)
    /\ doubt \in [purge : BOOLEAN, failed : BOOLEAN, unconfirmed : BOOLEAN]
    /\ step # "idle" => result = "none"

\* A bind the installer chose has HTTPS beside it, and every other wildcard
\* is the operator's: on disk, in what is decided, and in what is served.
BindInv ==
    /\ Exists("env") =>
         /\ files["env"].auto => files["env"].tls
         /\ ~files["env"].auto /\ files["env"].bind = "wildcard" => asked = "wildcard"
    /\ ~Exists("env") /\ LegacyBind = "wildcard" => asked = "wildcard"
    /\ step \in {"handover", "env"} =>
         /\ plan.auto => plan.tls
         /\ ~plan.auto /\ plan.bind = "wildcard" => FirstOf(plan.named, asked) = "wildcard"
    /\ OwnWildcardHasTls

\* While one release is tried the good one is live, or it is in `.prev` and
\* the one that is tried is live.
GoodIsNear ==
    good # Absent =>
        /\ files["live"] # Absent
        /\ Cardinality(tried) <= 1 =>
             files["live"] = good \/ (tried = {files["live"]} /\ files["prev"] = good)

\* How far the replacement of the program has come.
ReplacedInv ==
    /\ step = "preserving" => /\ files["live"] \notin {Absent, plan.bin}
                              /\ plan.bin \in tried
    /\ step \in {"stage", "staging", "swap"} =>
         \/ files["live"] \in {Absent, plan.bin}
         \/ plan.bin \in tried /\ files["prev"] = files["live"]
    /\ step = "swap" => files["new"] = plan.bin
    /\ step \in {"unit", "restart", "verify"} => files["live"] = plan.bin

ProgramInv ==
    /\ files["live"] \in Release \union {Absent} /\ IsFiniteSet(tried)
    /\ step \in UninstallStep => good = Absent
    /\ GoodIsNear
    /\ ReplacedInv

NamesOf(s) == {s[i] : i \in DOMAIN s}

\* What an uninstall has confirmed is stopped, and what it has removed.
StoppedInv ==
    /\ step \in {"stopLegacy", "remove"} /\ ~doubt.unconfirmed => ~service["agent"].active
    /\ step = "remove" /\ ~doubt.unconfirmed => ~service["devcanopy"].active
    /\ step \in {"stopAgent", "stopLegacy"} => plan = RemovalOrder(doubt.purge)
    /\ step = "remove" /\ ~doubt.unconfirmed /\ ~doubt.failed =>
         \A f \in NamesOf(RemovalOrder(doubt.purge)) : files[f] = Absent \/ f \in NamesOf(plan)

GoneInv ==
    /\ serving # Absent => serving.unit \in Unit /\ service[serving.unit].active
    /\ StoppedInv
    /\ DoneIsGone

\* The token and the certificate of the pairing are in the files that the
\* agent will be started with.
TokenInv ==
    /\ Exists("env") /\ Exists("devcanopyEnv") =>
         files["env"].token = files["devcanopyEnv"].token
    /\ paired.token # Absent =>
         IF Exists("env") THEN files["env"].token = paired.token
         ELSE Exists("devcanopyEnv") /\ files["devcanopyEnv"].token = paired.token

CertInv ==
    paired.cert # Absent =>
        IF Exists("cert") THEN files["cert"] = paired.cert ELSE Exists("key")

HostInv ==
    /\ HostTypeOK /\ ScriptTypeOK
    /\ BindInv /\ ProgramInv /\ GoneInv /\ TokenInv /\ CertInv

----------------------------------------------------------------------------
(* AgentInstall: the files.                                                *)

LEMMA JoinedAt ==
    ASSUME NEW S, NEW s \in Seq(S), NEW t \in Seq(S)
    PROVE  /\ \A i \in 1..Len(s) : (s \o t)[i] = s[i]
           /\ \A i \in 1..Len(t) : (s \o t)[Len(s) + i] = t[i]
  OBVIOUS

LEMMA RemovalNames ==
    /\ Removed \in Seq(FileName) /\ Purged \in Seq(FileName)
    /\ NamesOf(Removed) = {"unit", "devcanopyUnit", "live", "prev", "new"}
    /\ NamesOf(Purged) = {"env", "devcanopyEnv", "key", "cert"}
    /\ FileName = NamesOf(Removed) \union NamesOf(Purged)
<1>1. /\ Len(Removed) = 5 /\ DOMAIN Removed = 1..5
      /\ Removed[1] = "unit" /\ Removed[2] = "devcanopyUnit" /\ Removed[3] = "live"
      /\ Removed[4] = "prev" /\ Removed[5] = "new"
  BY DEF Removed
<1>2. /\ Len(Purged) = 4 /\ DOMAIN Purged = 1..4
      /\ Purged[1] = "env" /\ Purged[2] = "devcanopyEnv" /\ Purged[3] = "key"
      /\ Purged[4] = "cert"
  BY DEF Purged
<1>3. NamesOf(Removed) = {"unit", "devcanopyUnit", "live", "prev", "new"}
  <2>1. \A i \in 1..5 : i = 1 \/ i = 2 \/ i = 3 \/ i = 4 \/ i = 5
    OBVIOUS
  <2> QED
    BY <1>1, <2>1 DEF NamesOf
<1>4. NamesOf(Purged) = {"env", "devcanopyEnv", "key", "cert"}
  <2>1. \A i \in 1..4 : i = 1 \/ i = 2 \/ i = 3 \/ i = 4
    OBVIOUS
  <2> QED
    BY <1>2, <2>1 DEF NamesOf
<1> DEFINE S == NamesOf(Removed) \union NamesOf(Purged)
<1>5. Removed \in Seq(S) /\ Purged \in Seq(S)
  <2>1. Removed \in Seq({"unit", "devcanopyUnit", "live", "prev", "new"})
    BY DEF Removed
  <2>2. Purged \in Seq({"env", "devcanopyEnv", "key", "cert"})
    BY DEF Purged
  <2> QED
    BY <1>3, <1>4, <2>1, <2>2
<1> HIDE DEF S
<1>6. /\ \A i \in 1..5 : (Removed \o Purged)[i] = Removed[i]
      /\ \A i \in 1..4 : (Removed \o Purged)[5 + i] = Purged[i]
  <2>1. /\ \A i \in 1..Len(Removed) : (Removed \o Purged)[i] = Removed[i]
        /\ \A i \in 1..Len(Purged) : (Removed \o Purged)[Len(Removed) + i] = Purged[i]
    BY <1>5, JoinedAt
  <2>2. Len(Removed) = 5 /\ Len(Purged) = 4
    BY <1>1, <1>2
  <2> QED
    BY <2>1, <2>2
<1>7. FileName = S
  <2>1. ASSUME NEW i \in 1..9
        PROVE  (Removed \o Purged)[i] \in S
    <3>1. CASE i \in 1..5
      BY <1>1, <1>6, <3>1 DEF S, NamesOf
    <3>2. ASSUME NEW j \in 1..4, i = 5 + j
          PROVE  (Removed \o Purged)[i] \in S
      BY <1>2, <1>6, <3>2 DEF S, NamesOf
    <3>3. i \in 1..5 \/ \E j \in 1..4 : i = 5 + j
      <4>1. i \in 1..5 \/ (i - 5 \in 1..4 /\ i = 5 + (i - 5))
        OBVIOUS
      <4> QED
        BY <4>1
    <3> QED
      BY <3>1, <3>2, <3>3
  <2>2. ASSUME NEW i \in 1..5
        PROVE  Removed[i] \in FileName
    <3>1. i \in 1..9
      OBVIOUS
    <3> QED
      BY <1>6, <3>1 DEF FileName
  <2>3. ASSUME NEW i \in 1..4
        PROVE  Purged[i] \in FileName
    <3>1. 5 + i \in 1..9
      OBVIOUS
    <3> QED
      BY <1>6, <3>1 DEF FileName
  <2>4. FileName \subseteq S
    BY <2>1 DEF FileName
  <2>5. S \subseteq FileName
    BY <1>1, <1>2, <2>2, <2>3 DEF S, NamesOf
  <2> QED
    BY <2>4, <2>5
<1> QED
  BY <1>3, <1>4, <1>5, <1>7 DEF S

\* Which names an uninstall goes through.
LEMMA RemovalOrderIs ==
    ASSUME NEW purge \in BOOLEAN
    PROVE  /\ RemovalOrder(purge) \in Seq(FileName)
           /\ NamesOf(Removed) \subseteq NamesOf(RemovalOrder(purge))
           /\ purge => NamesOf(Purged) \subseteq NamesOf(RemovalOrder(purge))
<1>1. Removed \in Seq(FileName) /\ Purged \in Seq(FileName)
  BY RemovalNames
<1>2. CASE ~purge
  BY <1>1, <1>2 DEF RemovalOrder
<1>3. CASE purge
  <2>1. RemovalOrder(purge) = Removed \o Purged
    BY <1>3 DEF RemovalOrder
  <2>2. Removed \o Purged \in Seq(FileName)
    BY <1>1
  <2>3. \A i \in DOMAIN Removed : i \in DOMAIN (Removed \o Purged)
                                  /\ (Removed \o Purged)[i] = Removed[i]
    BY <1>1
  <2>4. \A i \in DOMAIN Purged : i + Len(Removed) \in DOMAIN (Removed \o Purged)
                                 /\ (Removed \o Purged)[i + Len(Removed)] = Purged[i]
    BY <1>1
  <2> QED
    BY <2>1, <2>2, <2>3, <2>4 DEF NamesOf
<1> QED
  BY <1>2, <1>3

\* The first name and the rest are all of them.
LEMMA NamesLeft ==
    ASSUME NEW s \in Seq(FileName), s # <<>>
    PROVE  /\ Head(s) \in FileName /\ Tail(s) \in Seq(FileName)
           /\ NamesOf(s) \subseteq {Head(s)} \union NamesOf(Tail(s))
<1>1. /\ Head(s) = s[1] /\ Head(s) \in FileName /\ Tail(s) \in Seq(FileName)
      /\ Len(Tail(s)) = Len(s) - 1
      /\ \A i \in 1..Len(Tail(s)) : Tail(s)[i] = s[i + 1]
  OBVIOUS
<1>2. \A i \in 1..Len(s) : i = 1 \/ (i - 1 \in 1..Len(Tail(s)) /\ Tail(s)[i - 1] = s[i])
  BY <1>1
<1>3. DOMAIN s = 1..Len(s) /\ DOMAIN Tail(s) = 1..Len(Tail(s))
  BY <1>1
<1>4. ASSUME NEW i \in 1..Len(s)
      PROVE  s[i] \in {Head(s)} \union NamesOf(Tail(s))
  BY <1>1, <1>2, <1>3 DEF NamesOf
<1>5. NamesOf(s) \subseteq {Head(s)} \union NamesOf(Tail(s))
  BY <1>3, <1>4 DEF NamesOf
<1> QED
  BY <1>1, <1>5

LEMMA NamesOfNone == NamesOf(<<>>) = {}
  BY DEF NamesOf

\* Only these files change.
TouchesOnly(S) ==
    /\ DOMAIN files' = FileName
    /\ \A f \in FileName \ S : files'[f] = files[f]

LEMMA PutTouches ==
    ASSUME DOMAIN files = FileName, NEW f \in FileName, NEW c, Put(f, c)
    PROVE  TouchesOnly({f}) /\ files'[f] = c
  BY DEF Put, TouchesOnly

LEMMA NamesAre ==
    FileName = {"unit", "devcanopyUnit", "live", "prev", "new",
                "env", "devcanopyEnv", "key", "cert"}
  BY RemovalNames

----------------------------------------------------------------------------
(* AgentInstall: the hosts an installer finds.                             *)

\* The fresh host, and what differs on one where an agent was installed.
LEMMA HostsAre ==
    /\ DOMAIN Fresh = FileName /\ \A f \in FileName : Fresh[f] = Absent
    /\ \A bind : /\ DOMAIN BeforeRename(bind) = FileName
                 /\ BeforeRename(bind)["devcanopyEnv"] = [token |-> 0, bind |-> bind]
                 /\ \A f \in FileName \ {"devcanopyUnit", "devcanopyEnv"} :
                      BeforeRename(bind)[f] = Absent
    /\ \A release, own :
         /\ DOMAIN Installed(release, own) = FileName
         /\ Installed(release, own)["live"] = release
         /\ Installed(release, own)["env"] =
              [token |-> 1, bind |-> IF own THEN "wildcard" ELSE "tailnet",
               auto |-> own, tls |-> own]
         /\ Installed(release, own)["key"] = IF own THEN 2 ELSE Absent
         /\ Installed(release, own)["cert"] = IF own THEN 2 ELSE Absent
         /\ Installed(release, own)["devcanopyEnv"] = Absent
<1>1. DOMAIN Fresh = FileName /\ \A f \in FileName : Fresh[f] = Absent
  BY DEF Fresh
<1> HIDE DEF Fresh
<1>2. ASSUME NEW bind
      PROVE  /\ DOMAIN BeforeRename(bind) = FileName
             /\ BeforeRename(bind)["devcanopyEnv"] = [token |-> 0, bind |-> bind]
             /\ \A f \in FileName \ {"devcanopyUnit", "devcanopyEnv"} :
                  BeforeRename(bind)[f] = Absent
  BY <1>1, NamesAre DEF BeforeRename
<1>3. ASSUME NEW release, NEW own
      PROVE  /\ DOMAIN Installed(release, own) = FileName
             /\ Installed(release, own)["live"] = release
             /\ Installed(release, own)["env"] =
                  [token |-> 1, bind |-> IF own THEN "wildcard" ELSE "tailnet",
                   auto |-> own, tls |-> own]
             /\ Installed(release, own)["key"] = IF own THEN 2 ELSE Absent
             /\ Installed(release, own)["cert"] = IF own THEN 2 ELSE Absent
             /\ Installed(release, own)["devcanopyEnv"] = Absent
  BY <1>1, NamesAre DEF Installed
<1> QED
  BY <1>1, <1>2, <1>3

LEMMA InstallInitInv == InstallInit => HostInv
<1> SUFFICES ASSUME InstallInit
             PROVE  HostInv
  OBVIOUS
<1>1. /\ minted \in Nat /\ step = "idle" /\ serving = Absent /\ result = "none" /\ tried = {}
      /\ doubt = NoDoubt
      /\ paired.token = IF Exists("env") THEN 1 ELSE Absent
      /\ paired.cert = files["cert"]
      /\ paired = [token |-> IF Exists("env") THEN 1 ELSE Absent, cert |-> files["cert"]]
  BY DEF InstallInit
<1>2. service \in [Unit -> [enabled : BOOLEAN, active : BOOLEAN]]
  <2>1. ASSUME NEW u, Runs(u)
        PROVE  service \in [Unit -> [enabled : BOOLEAN, active : BOOLEAN]]
    <3>1. \A v \in Unit : (v = u) \in BOOLEAN
      BY Zenon
    <3> QED
      BY <2>1, <3>1 DEF Runs
  <2> QED
    BY <2>1, Zenon DEF InstallInit
<1>3. ScriptTypeOK
  BY <1>1 DEF ScriptTypeOK, InstallStep, UninstallStep, NoDoubt
<1>4. /\ asked \in BindName /\ BindInv /\ TokenInv /\ CertInv /\ HostTypeOK
      /\ files["live"] \in Release \union {Absent}
      /\ good # Absent => files["live"] = good
  <2>1. CASE files = Fresh /\ asked = "none" /\ good = Absent
    <3>1. DOMAIN files = FileName /\ \A f \in FileName : files[f] = Absent
      BY <2>1, HostsAre
    <3>2. /\ ~Exists("env") /\ ~Exists("devcanopyEnv") /\ files["key"] = Absent
          /\ files["cert"] = Absent /\ files["live"] = Absent
          /\ files["env"] = Absent /\ files["devcanopyEnv"] = Absent
      BY <3>1, NamesAre DEF Exists
    <3>3. HostTypeOK
      BY <1>1, <1>2, <2>1, <3>1, <3>2 DEF HostTypeOK, BindName
    <3>4. BindInv
      BY <1>1, <2>1, <3>2 DEF BindInv, LegacyBind, OwnWildcardHasTls
    <3>5. TokenInv /\ CertInv
      BY <1>1, <3>2 DEF TokenInv, CertInv
    <3> QED
      BY <2>1, <3>2, <3>3, <3>4, <3>5 DEF BindName
  <2>2. ASSUME NEW bind \in {"none", "tailnet", "wildcard"}, files = BeforeRename(bind),
               asked = bind, good = Absent
        PROVE  /\ asked \in BindName /\ BindInv /\ TokenInv /\ CertInv /\ HostTypeOK
               /\ files["live"] \in Release \union {Absent}
               /\ good # Absent => files["live"] = good
    <3>1. /\ DOMAIN files = FileName /\ files["devcanopyEnv"] = [token |-> 0, bind |-> bind]
          /\ files["devcanopyEnv"].bind = bind
          /\ \A f \in FileName \ {"devcanopyUnit", "devcanopyEnv"} : files[f] = Absent
      BY <2>2, HostsAre
    <3>2. /\ ~Exists("env") /\ files["key"] = Absent
          /\ files["cert"] = Absent /\ files["live"] = Absent /\ files["env"] = Absent
      BY <3>1, NamesAre DEF Exists
    <3>3. files["devcanopyEnv"] \in LegacyFile /\ asked \in BindName
      BY <2>2, <3>1 DEF LegacyFile, BindName
    <3>4. HostTypeOK
      BY <1>1, <1>2, <3>1, <3>2, <3>3 DEF HostTypeOK
    <3>5. BindInv
      BY <1>1, <2>2, <3>1, <3>2 DEF BindInv, LegacyBind, OwnWildcardHasTls
    <3>6. TokenInv /\ CertInv
      BY <1>1, <3>2 DEF TokenInv, CertInv
    <3> QED
      BY <2>2, <3>2, <3>3, <3>4, <3>5, <3>6
  <2>3. ASSUME NEW release \in Release, NEW own \in BOOLEAN,
               files = Installed(release, own), asked = "none", good = release
        PROVE  /\ asked \in BindName /\ BindInv /\ TokenInv /\ CertInv /\ HostTypeOK
               /\ files["live"] \in Release \union {Absent}
               /\ good # Absent => files["live"] = good
    <3>1. /\ DOMAIN files = FileName /\ files["live"] = release
          /\ files["env"] = [token |-> 1, bind |-> IF own THEN "wildcard" ELSE "tailnet",
                             auto |-> own, tls |-> own]
          /\ files["key"] = (IF own THEN 2 ELSE Absent)
          /\ files["cert"] = (IF own THEN 2 ELSE Absent)
          /\ files["devcanopyEnv"] = Absent
      BY <2>3, HostsAre
    <3>2. /\ files["env"].token = 1 /\ files["env"].auto = own /\ files["env"].tls = own
          /\ files["env"].bind = (IF own THEN "wildcard" ELSE "tailnet")
      BY <3>1
    <3>3. files["env"] \in EnvFile
      BY <3>1 DEF EnvFile
    <3>4. files["key"] \in Nat \union {Absent} /\ files["cert"] \in Nat \union {Absent}
      BY <3>1
    <3>5. Exists("env") /\ ~Exists("devcanopyEnv")
      BY <3>1, <3>3, InstallAssumption DEF Exists
    <3>6. HostTypeOK
      BY <1>1, <1>2, <2>3, <3>1, <3>3, <3>4, <3>5 DEF HostTypeOK, BindName
    <3>7. BindInv
      BY <1>1, <2>3, <3>2, <3>5 DEF BindInv, OwnWildcardHasTls
    <3>8. TokenInv /\ CertInv
      BY <1>1, <3>2, <3>5 DEF TokenInv, CertInv, Exists
    <3> QED
      BY <2>3, <3>1, <3>6, <3>7, <3>8 DEF BindName
  <2> QED
    BY <2>1, <2>2, <2>3 DEF InstallInit
<1>5. ProgramInv
  BY <1>1, <1>4, FS_EmptySet DEF ProgramInv, GoodIsNear, ReplacedInv, UninstallStep,
                                InstallInit
<1>6. GoneInv
  BY <1>1 DEF GoneInv, StoppedInv, DoneIsGone
<1> QED
  BY <1>3, <1>4, <1>5, <1>6 DEF HostInv

----------------------------------------------------------------------------
(* AgentInstall: what a step leaves alone.                                 *)

CredentialFiles == {"env", "devcanopyEnv", "key", "cert"}

\* What the agent is started with stays, and so does what was decided.
LEMMA DiskStays ==
    ASSUME HostInv, DOMAIN files' = FileName, \A f \in CredentialFiles : files'[f] = files[f],
           UNCHANGED <<minted, asked, paired>>,
           service' \in [Unit -> [enabled : BOOLEAN, active : BOOLEAN]],
           serving' \in {serving, Absent},
           step' \in {"handover", "env"} => step \in {"handover", "env"} /\ plan' = plan
    PROVE  HostTypeOK' /\ BindInv' /\ TokenInv' /\ CertInv'
<1>1. /\ files'["env"] = files["env"] /\ files'["devcanopyEnv"] = files["devcanopyEnv"]
      /\ files'["key"] = files["key"] /\ files'["cert"] = files["cert"]
      /\ HostTypeOK /\ BindInv /\ TokenInv /\ CertInv
  BY DEF CredentialFiles, HostInv
<1>2. HostTypeOK'
  BY <1>1 DEF HostTypeOK
<1>3. BindInv'
  BY <1>1 DEF BindInv, Exists, LegacyBind, OwnWildcardHasTls
<1>4. TokenInv' /\ CertInv'
  BY <1>1 DEF TokenInv, CertInv, Exists
<1> QED
  BY <1>2, <1>3, <1>4

\* No program is replaced, and none is being replaced that was not.
LEMMA ProgramStays ==
    ASSUME ProgramInv, \A f \in {"live", "prev", "new"} : files'[f] = files[f],
           UNCHANGED <<good, tried>>,
           \/ step' = step /\ plan' = plan
           \/ step' \in {"idle", "handover", "env", "preserve"}
           \/ step' \in UninstallStep /\ step \in UninstallStep
           \/ step \in {"unit", "restart"} /\ step' \in {"restart", "verify"} /\ plan' = plan
    PROVE  ProgramInv'
<1>1. /\ files'["live"] = files["live"] /\ files'["prev"] = files["prev"]
      /\ files'["new"] = files["new"]
  OBVIOUS
<1>2. GoodIsNear'
  BY <1>1 DEF ProgramInv, GoodIsNear
<1>3. ReplacedInv'
  BY <1>1 DEF ProgramInv, ReplacedInv, UninstallStep
<1> QED
  BY <1>1, <1>2, <1>3 DEF ProgramInv, UninstallStep

\* No script, or an install, runs next: nothing is claimed to be gone unless
\* it was before and the host is as it was.
LEMMA NothingIsClaimed ==
    ASSUME step' \notin UninstallStep, result' \notin {"uninstalled", "purged"},
           serving' # Absent => serving'.unit \in Unit /\ service'[serving'.unit].active
    PROVE  GoneInv'
  BY DEF GoneInv, StoppedInv, DoneIsGone, UninstallStep

\* A step of an install that replaces no credential and starts nothing.
LEMMA QuietStep ==
    ASSUME HostInv, step \in InstallStep,
           DOMAIN files' = FileName, \A f \in CredentialFiles : files'[f] = files[f],
           UNCHANGED <<minted, asked, paired, service, serving, plan, doubt, result>>,
           step' \in InstallStep \ {"handover", "env"}, ProgramInv'
    PROVE  HostInv'
<1>1. HostTypeOK /\ ScriptTypeOK /\ GoneInv
  BY DEF HostInv
<1>2. HostTypeOK' /\ BindInv' /\ TokenInv' /\ CertInv'
  BY <1>1, DiskStays DEF HostTypeOK
<1>3. ScriptTypeOK'
  BY <1>1 DEF ScriptTypeOK, InstallStep, UninstallStep
<1>4. GoneInv'
  BY <1>1, NothingIsClaimed DEF GoneInv, ScriptTypeOK, InstallStep, UninstallStep
<1> QED
  BY <1>2, <1>3, <1>4 DEF HostInv

----------------------------------------------------------------------------
(* AgentInstall: what an install decides.                                  *)

\* The bind is the installer's own exactly when HTTPS comes with it, and the
\* wildcard otherwise only on the operator's word.
LEMMA DecidedIs ==
    ASSUME HostInv, NEW r \in Request, Accepted(r)
    PROVE  /\ Decided(r) \in InstallPlan
           /\ Decided(r).auto => Decided(r).tls
           /\ ~Decided(r).auto /\ Decided(r).bind = "wildcard" =>
                FirstOf(Decided(r).named, asked) = "wildcard"
<1>1. HostTypeOK /\ BindInv
  BY DEF HostInv
<1>2. /\ r.bind \in {"none", "address", "wildcard"} /\ r.release \in Release
  BY DEF Request
<1>3. KeptBind \in BindName
  BY <1>1 DEF KeptBind, LegacyBind, Exists, HostTypeOK, EnvFile, LegacyFile, BindName
<1>4. Bind(r) \in BindName
  BY <1>2, <1>3 DEF Bind, FirstOf, BindName
<1>5. /\ Decided(r).bin = r.release /\ Decided(r).bind = FirstOf(Bind(r), "wildcard")
      /\ Decided(r).auto = (Bind(r) = "none") /\ Decided(r).tls = TlsValue(r)
      /\ Decided(r).named = r.bind
  BY DEF Decided
<1>6. TlsValue(r) \in BOOLEAN /\ (Bind(r) = "none") \in BOOLEAN
  BY Zenon DEF TlsValue
<1>7. FirstOf(Bind(r), "wildcard") \in BindName \ {"none"}
  BY <1>4 DEF FirstOf, BindName
<1>8. Decided(r) \in InstallPlan
  BY <1>2, <1>6, <1>7 DEF Decided, InstallPlan, BindName
<1>9. Decided(r).auto => Decided(r).tls
  BY <1>5 DEF Accepted
<1>10. ASSUME ~Decided(r).auto, Decided(r).bind = "wildcard"
       PROVE  FirstOf(r.bind, asked) = "wildcard"
  <2>1. Bind(r) = "wildcard"
    BY <1>5, <1>10 DEF FirstOf
  <2>2. CASE r.bind # "none"
    BY <2>1, <2>2 DEF Bind, FirstOf
  <2>3. CASE r.bind = "none"
    <3>1. KeptBind = "wildcard"
      BY <2>1, <2>3 DEF Bind, FirstOf
    <3>2. asked = "wildcard"
      BY <1>1, <3>1 DEF KeptBind, BindInv
    <3> QED
      BY <2>3, <3>2 DEF FirstOf
  <2> QED
    BY <2>2, <2>3
<1> QED
  BY <1>5, <1>8, <1>9, <1>10

LEMMA InstallKeeps ==
    ASSUME HostInv, NEW r \in Request, Install(r)
    PROVE  HostInv'
<1>1. /\ step' = "handover" /\ plan' = Decided(r) /\ result' = "none" /\ Accepted(r)
      /\ UNCHANGED <<files, minted, service, serving, doubt, asked, paired, good, tried>>
  BY DEF Install, diskFiles
<1>2. HostTypeOK /\ ScriptTypeOK /\ BindInv /\ ProgramInv /\ GoneInv /\ TokenInv /\ CertInv
  BY DEF HostInv
<1>3. HostTypeOK' /\ TokenInv' /\ CertInv'
  BY <1>1, <1>2 DEF HostTypeOK, TokenInv, CertInv, Exists
<1>4. ScriptTypeOK'
  BY <1>1, <1>2, DecidedIs DEF ScriptTypeOK, InstallStep, UninstallStep
<1>5. BindInv'
  <2>1. /\ plan'.auto => plan'.tls
        /\ ~plan'.auto /\ plan'.bind = "wildcard" => FirstOf(plan'.named, asked) = "wildcard"
    BY <1>1, DecidedIs
  <2>2. FirstOf(plan'.named, asked') = FirstOf(plan'.named, asked)
    BY <1>1
  <2> QED
    BY <1>1, <1>2, <2>1, <2>2 DEF BindInv, Exists, LegacyBind, OwnWildcardHasTls, FirstOf
<1>6. ProgramInv'
  BY <1>1, <1>2, ProgramStays
<1>7. GoneInv'
  BY <1>1, <1>2, NothingIsClaimed DEF GoneInv, UninstallStep
<1> QED
  BY <1>3, <1>4, <1>5, <1>6, <1>7 DEF HostInv

----------------------------------------------------------------------------
(* AgentInstall: the install's steps.                                      *)

\* A unit that is stopped serves nothing, and the other goes on.
LEMMA HaltedIs ==
    ASSUME HostTypeOK, GoneInv, NEW u \in Unit, NEW enabled \in BOOLEAN,
           NEW active \in BOOLEAN, active => service[u].active \/ serving' = Absent,
           service' = [service EXCEPT ![u] = [enabled |-> enabled, active |-> active]],
           \/ serving' = serving /\ (active \/ ~service[u].active)
           \/ Halted(u)
    PROVE  /\ service' \in [Unit -> [enabled : BOOLEAN, active : BOOLEAN]]
           /\ service'[u].active = active
           /\ \A v \in Unit \ {u} : service'[v] = service[v]
           /\ serving' \in {serving, Absent}
           /\ serving' # Absent => serving'.unit \in Unit /\ service'[serving'.unit].active
<1> DEFINE now == [enabled |-> enabled, active |-> active]
<1>1. now \in [enabled : BOOLEAN, active : BOOLEAN] /\ now.active = active
  OBVIOUS
<1>2. service \in [Unit -> [enabled : BOOLEAN, active : BOOLEAN]]
  BY DEF HostTypeOK
<1>3. service' = [service EXCEPT ![u] = now]
  OBVIOUS
<1> HIDE DEF now
<1>4. /\ service' \in [Unit -> [enabled : BOOLEAN, active : BOOLEAN]]
      /\ service'[u].active = active
      /\ \A v \in Unit \ {u} : service'[v] = service[v]
  BY <1>1, <1>2, <1>3
<1>5. serving' \in {serving, Absent}
  BY DEF Halted
<1>6. ASSUME serving' # Absent
      PROVE  serving'.unit \in Unit /\ service'[serving'.unit].active
  <2>1. serving' = serving /\ serving.unit \in Unit /\ service[serving.unit].active
    BY <1>6 DEF Halted, GoneInv
  <2>2. CASE serving.unit = u
    BY <1>4, <1>6, <2>1, <2>2 DEF Halted
  <2>3. CASE serving.unit # u
    BY <1>4, <2>1, <2>3
  <2> QED
    BY <2>2, <2>3
<1> QED
  BY <1>4, <1>5, <1>6

LEMMA HandoverKeeps ==
    ASSUME HostInv, Handover
    PROVE  HostInv'
<1>1. /\ step = "handover" /\ step' = "env" /\ plan' = plan
      /\ UNCHANGED <<files, minted, doubt, result, asked, paired, good, tried>>
  BY DEF Handover, GoOn, diskFiles
<1>2. HostTypeOK /\ ScriptTypeOK /\ ProgramInv /\ GoneInv
  BY DEF HostInv
<1>3. /\ service' \in [Unit -> [enabled : BOOLEAN, active : BOOLEAN]]
      /\ serving' \in {serving, Absent}
      /\ serving' # Absent => serving'.unit \in Unit /\ service'[serving'.unit].active
  <2>1. CASE UNCHANGED <<service, serving>>
    BY <1>2, <2>1 DEF HostTypeOK, GoneInv
  <2>2. ASSUME NEW e \in BOOLEAN, NEW a \in BOOLEAN,
               service' = [service EXCEPT !["devcanopy"] =
                             [enabled |-> @.enabled /\ e, active |-> @.active /\ a]],
               IF a THEN UNCHANGED serving ELSE Halted("devcanopy")
        PROVE  /\ service' \in [Unit -> [enabled : BOOLEAN, active : BOOLEAN]]
               /\ serving' \in {serving, Absent}
               /\ serving' # Absent => serving'.unit \in Unit /\ service'[serving'.unit].active
    <3> DEFINE en == service["devcanopy"].enabled /\ e
               ac == service["devcanopy"].active /\ a
    <3>1. /\ en \in BOOLEAN /\ ac \in BOOLEAN /\ "devcanopy" \in Unit
          /\ ac => service["devcanopy"].active
          /\ (serving' = serving /\ (ac \/ ~service["devcanopy"].active)) \/ Halted("devcanopy")
      BY <2>2, Zenon DEF Unit
    <3>2. service' = [service EXCEPT !["devcanopy"] = [enabled |-> en, active |-> ac]]
      BY <2>2
    <3> HIDE DEF en, ac
    <3> QED
      BY <1>2, <3>1, <3>2, HaltedIs
  <2> QED
    BY <2>1, <2>2 DEF Handover
<1>4. HostTypeOK' /\ BindInv' /\ TokenInv' /\ CertInv'
  BY <1>1, <1>2, <1>3, DiskStays DEF HostTypeOK
<1>5. ScriptTypeOK'
  BY <1>1, <1>2 DEF ScriptTypeOK, InstallStep, UninstallStep
<1>6. ProgramInv'
  BY <1>1, <1>2, ProgramStays
<1>7. GoneInv'
  BY <1>1, <1>2, <1>3, NothingIsClaimed DEF ScriptTypeOK, UninstallStep
<1> QED
  BY <1>4, <1>5, <1>6, <1>7 DEF HostInv

\* The env file keeps its token, or takes the older agent's; its bind is the
\* one that was decided.
LEMMA WriteEnvKeeps ==
    ASSUME HostInv, WriteEnv
    PROVE  HostInv'
<1> DEFINE env == [token |-> KeptToken, bind |-> plan.bind, auto |-> plan.auto,
                   tls |-> plan.tls]
<1>1. /\ step = "env" /\ step' = "preserve" /\ plan' = plan
      /\ Put("env", env) /\ asked' = FirstOf(plan.named, asked)
      /\ minted' = IF KeptToken > minted THEN KeptToken ELSE minted
      /\ UNCHANGED <<service, serving, doubt, result, paired, good, tried>>
  BY DEF WriteEnv, GoOn
<1>2. HostTypeOK /\ ScriptTypeOK /\ BindInv /\ ProgramInv /\ GoneInv /\ TokenInv /\ CertInv
  BY DEF HostInv
<1>3. plan \in InstallPlan
  BY <1>1, <1>2 DEF ScriptTypeOK, InstallStep
<1>4. KeptToken \in Nat
  BY <1>2 DEF KeptToken, HostTypeOK, Exists, EnvFile, LegacyFile
<1>5. /\ env \in EnvFile
      /\ env.token = KeptToken /\ env.bind = plan.bind /\ env.auto = plan.auto
      /\ env.tls = plan.tls
  BY <1>3, <1>4 DEF EnvFile, InstallPlan, BindName
<1> HIDE DEF env
<1>6. TouchesOnly({"env"}) /\ files'["env"] = env
  BY <1>1, <1>2, NamesAre, PutTouches DEF HostTypeOK
<1>7. /\ files'["devcanopyEnv"] = files["devcanopyEnv"]
      /\ files'["key"] = files["key"] /\ files'["cert"] = files["cert"]
      /\ files'["live"] = files["live"] /\ files'["prev"] = files["prev"]
      /\ files'["new"] = files["new"] /\ DOMAIN files' = FileName
  BY <1>6, NamesAre DEF TouchesOnly
<1>8. Exists("env")'
  BY <1>5, <1>6, InstallAssumption DEF Exists
<1>9. asked' \in BindName
  BY <1>1, <1>2, <1>3 DEF FirstOf, HostTypeOK, InstallPlan
<1>10. minted' \in Nat
  BY <1>1, <1>2, <1>4 DEF HostTypeOK
<1>11. HostTypeOK'
  BY <1>1, <1>2, <1>5, <1>6, <1>7, <1>9, <1>10 DEF HostTypeOK
<1>12. ScriptTypeOK'
  BY <1>1, <1>2, <1>3 DEF ScriptTypeOK, InstallStep, UninstallStep
<1>13. BindInv'
  BY <1>1, <1>2, <1>5, <1>6, <1>8 DEF BindInv, OwnWildcardHasTls
<1>14. TokenInv'
  BY <1>1, <1>2, <1>5, <1>6, <1>7, <1>8 DEF TokenInv, Exists, KeptToken
<1>15. CertInv'
  BY <1>1, <1>2, <1>7 DEF CertInv, Exists
<1>16. ProgramInv'
  BY <1>1, <1>2, <1>7, ProgramStays
<1>17. GoneInv'
  BY <1>1, <1>2, NothingIsClaimed DEF GoneInv, ScriptTypeOK, UninstallStep
<1> QED
  BY <1>11, <1>12, <1>13, <1>14, <1>15, <1>16, <1>17 DEF HostInv

\* At most one release is tried: it is any that is.
LEMMA OneTried ==
    ASSUME NEW S, IsFiniteSet(S), Cardinality(S) <= 1, NEW x \in S
    PROVE  S = {x}
<1>1. Cardinality(S) \in Nat /\ Cardinality(S) # 0
  BY FS_CardinalityType, FS_EmptySet
<1>2. Cardinality(S) = 1
  BY <1>1
<1> QED
  BY <1>2, FS_Singleton

\* `.prev` is replaced only by what is live, which is good unless a second
\* release is being tried.
LEMMA PreserveKeeps ==
    ASSUME HostInv, Preserve \/ Preserved
    PROVE  HostInv'
<1>0. HostTypeOK /\ ScriptTypeOK /\ ProgramInv /\ DOMAIN files = FileName
  BY DEF HostInv, HostTypeOK
<1>1. CASE Preserve /\ Exists("live") /\ ~SameBytes
  <2>1. /\ step = "preserve" /\ step' = "preserving" /\ Put("prev", Partial)
        /\ tried' = tried \union {plan.bin}
        /\ UNCHANGED <<minted, asked, paired, service, serving, plan, doubt, result, good>>
    BY <1>1 DEF Preserve, GoOn
  <2>2. TouchesOnly({"prev"})
    BY <1>0, <2>1, NamesAre, PutTouches
  <2>3. /\ DOMAIN files' = FileName /\ files'["live"] = files["live"]
        /\ \A f \in CredentialFiles : files'[f] = files[f]
    BY <2>2, NamesAre DEF TouchesOnly, CredentialFiles
  <2>4. files["live"] \notin {Absent, plan.bin}
    BY <1>1 DEF Exists, SameBytes
  <2>5. IsFiniteSet(tried')
    BY <1>0, <2>1, FS_AddElement DEF ProgramInv
  <2>6. ASSUME good # Absent, Cardinality(tried') <= 1
        PROVE  files["live"] = good
    <3>1. tried' = {plan.bin}
      BY <2>1, <2>5, <2>6, OneTried
    <3>2. Cardinality(tried) <= 1
      <4>1. Cardinality(tried) \in Nat
        BY <1>0, FS_CardinalityType DEF ProgramInv
      <4>2. Cardinality(tried') = IF plan.bin \in tried THEN Cardinality(tried)
                                  ELSE Cardinality(tried) + 1
        BY <1>0, <2>1, FS_AddElement DEF ProgramInv
      <4> QED
        BY <2>6, <4>1, <4>2
    <3>3. files["live"] \notin tried
      BY <2>1, <2>4, <3>1
    <3> QED
      BY <1>0, <2>6, <3>2, <3>3 DEF ProgramInv, GoodIsNear
  <2>7. GoodIsNear'
    BY <2>1, <2>3, <2>4, <2>6 DEF GoodIsNear
  <2>8. ReplacedInv'
    BY <2>1, <2>3, <2>4 DEF ReplacedInv
  <2>9. ProgramInv'
    BY <1>0, <2>1, <2>3, <2>5, <2>7, <2>8 DEF ProgramInv, UninstallStep
  <2> QED
    BY <2>1, <2>3, <2>9, QuietStep DEF InstallStep
<1>2. CASE Preserve /\ ~(Exists("live") /\ ~SameBytes)
  <2>1. /\ step = "preserve" /\ step' = "stage"
        /\ UNCHANGED <<files, minted, asked, paired, service, serving, plan, doubt, result,
                       good, tried>>
    BY <1>2 DEF Preserve, GoOn
  <2>2. files["live"] \in {Absent, plan.bin}
    BY <1>2 DEF Exists, SameBytes
  <2>3. ProgramInv'
    BY <1>0, <2>1, <2>2 DEF ProgramInv, GoodIsNear, ReplacedInv, UninstallStep
  <2> QED
    BY <1>0, <2>1, <2>3, QuietStep DEF InstallStep
<1>3. CASE Preserved
  <2>1. /\ step = "preserving" /\ step' = "stage" /\ Put("prev", files["live"])
        /\ UNCHANGED <<minted, asked, paired, service, serving, plan, doubt, result, good,
                       tried>>
    BY <1>3 DEF Preserved, GoOn
  <2>2. TouchesOnly({"prev"}) /\ files'["prev"] = files["live"]
    BY <1>0, <2>1, NamesAre, PutTouches
  <2>3. /\ DOMAIN files' = FileName /\ files'["live"] = files["live"]
        /\ \A f \in CredentialFiles : files'[f] = files[f]
    BY <2>2, NamesAre DEF TouchesOnly, CredentialFiles
  <2>4. files["live"] \notin {Absent, plan.bin} /\ plan.bin \in tried
    BY <1>0, <2>1 DEF ProgramInv, ReplacedInv
  <2>5. GoodIsNear'
    BY <1>0, <2>1, <2>3, <2>4 DEF ProgramInv, GoodIsNear
  <2>6. ReplacedInv'
    BY <2>1, <2>2, <2>3, <2>4 DEF ReplacedInv
  <2>7. ProgramInv'
    BY <1>0, <2>1, <2>3, <2>5, <2>6 DEF ProgramInv, UninstallStep
  <2> QED
    BY <2>1, <2>3, <2>7, QuietStep DEF InstallStep
<1> QED
  BY <1>1, <1>2, <1>3

\* The new binary is whole before it is renamed over the live one.
LEMMA StageKeeps ==
    ASSUME HostInv, StageNew \/ StagedNew
    PROVE  HostInv'
<1> DEFINE next == IF step = "stage" THEN "staging" ELSE "swap"
           new  == IF step = "stage" THEN Partial ELSE plan.bin
<1>1. /\ step \in {"stage", "staging"} /\ step' = next /\ Put("new", new)
      /\ UNCHANGED <<minted, asked, paired, service, serving, plan, doubt, result, good,
                     tried>>
  BY DEF StageNew, StagedNew, GoOn
<1>2. HostTypeOK /\ ProgramInv /\ DOMAIN files = FileName
  BY DEF HostInv, HostTypeOK
<1>3. TouchesOnly({"new"}) /\ files'["new"] = new
  BY <1>1, <1>2, NamesAre, PutTouches
<1>4. /\ DOMAIN files' = FileName /\ files'["live"] = files["live"]
      /\ files'["prev"] = files["prev"]
      /\ \A f \in CredentialFiles : files'[f] = files[f]
  BY <1>3, NamesAre DEF TouchesOnly, CredentialFiles
<1>5. GoodIsNear'
  BY <1>1, <1>2, <1>4 DEF ProgramInv, GoodIsNear
<1>6. ReplacedInv'
  BY <1>1, <1>2, <1>3, <1>4 DEF ProgramInv, ReplacedInv
<1>7. ProgramInv'
  BY <1>1, <1>2, <1>4, <1>5, <1>6 DEF ProgramInv, UninstallStep
<1> QED
  BY <1>1, <1>4, <1>7, QuietStep DEF InstallStep

\* What is replaced is the release under trial, or the good one, in `.prev`.
LEMMA SwapKeeps ==
    ASSUME HostInv, SwapIn
    PROVE  HostInv'
<1>1. /\ step = "swap" /\ step' = "unit"
      /\ files' = [files EXCEPT !["live"] = files["new"], !["new"] = Absent]
      /\ UNCHANGED <<minted, asked, paired, service, serving, plan, doubt, result, good,
                     tried>>
  BY DEF SwapIn, GoOn
<1>2. HostTypeOK /\ ScriptTypeOK /\ ProgramInv /\ DOMAIN files = FileName
  BY DEF HostInv, HostTypeOK
<1>3. files["new"] = plan.bin /\ plan.bin \in Release /\ plan.bin # Absent
  BY <1>1, <1>2, InstallAssumption
     DEF ProgramInv, ReplacedInv, ScriptTypeOK, InstallStep, InstallPlan
<1>4. /\ DOMAIN files' = FileName /\ files'["live"] = plan.bin
      /\ files'["prev"] = files["prev"]
      /\ \A f \in CredentialFiles : files'[f] = files[f]
  BY <1>1, <1>2, <1>3, NamesAre DEF CredentialFiles
<1>5. ASSUME good # Absent, Cardinality(tried) <= 1
      PROVE  plan.bin = good \/ (tried = {plan.bin} /\ files["prev"] = good)
  <2>1. files["live"] # Absent
        /\ (files["live"] = good \/ (tried = {files["live"]} /\ files["prev"] = good))
    BY <1>2, <1>5 DEF ProgramInv, GoodIsNear
  <2>2. files["live"] = plan.bin \/ (plan.bin \in tried /\ files["prev"] = files["live"])
    BY <1>1, <1>2, <2>1 DEF ProgramInv, ReplacedInv
  <2>3. plan.bin \in tried => tried = {plan.bin}
    BY <1>2, <1>5, OneTried DEF ProgramInv
  <2> QED
    BY <2>1, <2>2, <2>3
<1>6. GoodIsNear'
  BY <1>1, <1>3, <1>4, <1>5 DEF GoodIsNear
<1>7. ReplacedInv'
  BY <1>1, <1>4 DEF ReplacedInv
<1>8. ProgramInv'
  BY <1>1, <1>2, <1>3, <1>4, <1>6, <1>7 DEF ProgramInv, UninstallStep
<1> QED
  BY <1>1, <1>4, <1>8, QuietStep DEF InstallStep

LEMMA PutUnitKeeps ==
    ASSUME HostInv, PutUnit
    PROVE  HostInv'
<1>1. /\ step = "unit" /\ step' = "restart" /\ Put("unit", "agent")
      /\ UNCHANGED <<minted, asked, paired, service, serving, plan, doubt, result, good,
                     tried>>
  BY DEF PutUnit, GoOn
<1>2. ProgramInv /\ DOMAIN files = FileName
  BY DEF HostInv, HostTypeOK
<1>3. TouchesOnly({"unit"})
  BY <1>1, <1>2, NamesAre, PutTouches
<1>4. /\ DOMAIN files' = FileName /\ \A f \in {"live", "prev", "new"} : files'[f] = files[f]
      /\ \A f \in CredentialFiles : files'[f] = files[f]
  BY <1>3, NamesAre DEF TouchesOnly, CredentialFiles
<1>5. ProgramInv'
  BY <1>1, <1>2, <1>4, ProgramStays
<1> QED
  BY <1>1, <1>4, <1>5, QuietStep DEF InstallStep

LEMMA RestartKeeps ==
    ASSUME HostInv, RestartAgent
    PROVE  HostInv'
<1>1. /\ step = "restart" /\ step' = "verify" /\ plan' = plan /\ Halted("agent")
      /\ service' = [service EXCEPT !["agent"] = [enabled |-> TRUE, active |-> TRUE]]
      /\ UNCHANGED <<files, minted, doubt, result, asked, paired, good, tried>>
  BY DEF RestartAgent, GoOn, diskFiles
<1>2. HostTypeOK /\ ScriptTypeOK /\ ProgramInv /\ GoneInv
  BY DEF HostInv
<1>3. /\ service' \in [Unit -> [enabled : BOOLEAN, active : BOOLEAN]]
      /\ service'["agent"].active
      /\ \A v \in Unit \ {"agent"} : service'[v] = service[v]
  BY <1>1, <1>2 DEF HostTypeOK, Unit
<1>4. serving' \in {serving, Absent}
  BY <1>1 DEF Halted
<1>5. serving' # Absent => serving'.unit \in Unit /\ service'[serving'.unit].active
  <2>1. serving' # Absent => serving' = serving /\ serving.unit # "agent"
    BY <1>1 DEF Halted
  <2> QED
    BY <1>2, <1>3, <2>1 DEF GoneInv
<1>6. HostTypeOK' /\ BindInv' /\ TokenInv' /\ CertInv'
  BY <1>1, <1>2, <1>3, <1>4, DiskStays DEF HostTypeOK
<1>7. ScriptTypeOK'
  BY <1>1, <1>2 DEF ScriptTypeOK, InstallStep, UninstallStep
<1>8. ProgramInv'
  BY <1>1, <1>2, ProgramStays
<1>9. GoneInv'
  BY <1>1, <1>2, <1>5, NothingIsClaimed DEF ScriptTypeOK, UninstallStep
<1> QED
  BY <1>6, <1>7, <1>8, <1>9 DEF HostInv

\* What the health check saw is live, and is now the good one.
LEMMA InstallDoneKeeps ==
    ASSUME HostInv, InstallDone
    PROVE  HostInv'
<1>1. /\ step = "verify" /\ step' = "idle" /\ result' = "installed"
      /\ good' = plan.bin /\ tried' = {}
      /\ UNCHANGED <<files, minted, service, serving, doubt, asked, paired>>
  BY DEF InstallDone, diskFiles
<1>2. HostTypeOK /\ ScriptTypeOK /\ ProgramInv /\ GoneInv
  BY DEF HostInv
<1>3. HostTypeOK' /\ BindInv' /\ TokenInv' /\ CertInv'
  BY <1>1, <1>2, DiskStays DEF HostTypeOK
<1>4. ScriptTypeOK'
  BY <1>1, <1>2 DEF ScriptTypeOK, InstallStep, UninstallStep
<1>5. files["live"] = plan.bin /\ plan.bin \in Release /\ plan.bin # Absent
  BY <1>1, <1>2, InstallAssumption
     DEF ProgramInv, ReplacedInv, ScriptTypeOK, InstallStep, InstallPlan
<1>6. ProgramInv'
  <2>1. IsFiniteSet(tried')
    BY <1>1, FS_EmptySet
  <2> QED
    BY <1>1, <1>5, <2>1 DEF ProgramInv, GoodIsNear, ReplacedInv, UninstallStep
<1>7. GoneInv'
  BY <1>1, <1>2, NothingIsClaimed DEF GoneInv, UninstallStep
<1> QED
  BY <1>3, <1>4, <1>6, <1>7 DEF HostInv

LEMMA GivesUpKeeps ==
    ASSUME HostInv, GivesUp
    PROVE  HostInv'
<1>1. /\ step' = "idle" /\ result' = "stopped" /\ doubt' = NoDoubt
      /\ UNCHANGED <<files, minted, service, serving, asked, paired, good, tried>>
  BY DEF GivesUp, diskFiles
<1>2. HostTypeOK /\ ScriptTypeOK /\ ProgramInv /\ GoneInv
  BY DEF HostInv
<1>3. HostTypeOK' /\ BindInv' /\ TokenInv' /\ CertInv'
  BY <1>1, <1>2, DiskStays DEF HostTypeOK
<1>4. ScriptTypeOK'
  BY <1>1, <1>2 DEF ScriptTypeOK, InstallStep, UninstallStep, NoDoubt
<1>5. ProgramInv'
  BY <1>1, <1>2, ProgramStays
<1>6. GoneInv'
  BY <1>1, <1>2, NothingIsClaimed DEF GoneInv, UninstallStep
<1> QED
  BY <1>3, <1>4, <1>5, <1>6 DEF HostInv

----------------------------------------------------------------------------
(* AgentInstall: the uninstall's steps.                                    *)

LEMMA UninstallKeeps ==
    ASSUME HostInv, NEW purge \in BOOLEAN, Uninstall(purge)
    PROVE  HostInv'
<1>1. /\ plan' = RemovalOrder(purge) /\ step' = "stopAgent" /\ result' = "none"
      /\ doubt' = [doubt EXCEPT !.purge = purge]
      /\ good' = Absent /\ tried' = {}
      /\ UNCHANGED <<files, minted, service, serving, asked, paired>>
  BY DEF Uninstall, diskFiles
<1>2. HostTypeOK /\ ScriptTypeOK /\ ProgramInv /\ GoneInv
  BY DEF HostInv
<1>3. HostTypeOK' /\ BindInv' /\ TokenInv' /\ CertInv'
  BY <1>1, <1>2, DiskStays DEF HostTypeOK
<1>4. doubt' \in [purge : BOOLEAN, failed : BOOLEAN, unconfirmed : BOOLEAN]
      /\ doubt'.purge = purge
  BY <1>1, <1>2 DEF ScriptTypeOK
<1>5. ScriptTypeOK'
  BY <1>1, <1>4, RemovalOrderIs DEF ScriptTypeOK, InstallStep, UninstallStep
<1>6. ProgramInv'
  <2>1. IsFiniteSet(tried')
    BY <1>1, FS_EmptySet
  <2> QED
    BY <1>1, <1>2, <2>1 DEF ProgramInv, GoodIsNear, ReplacedInv
<1>7. GoneInv'
  BY <1>1, <1>2, <1>4 DEF GoneInv, StoppedInv, DoneIsGone
<1> QED
  BY <1>3, <1>5, <1>6, <1>7 DEF HostInv

\* A unit of which nothing is doubted does not run.
LEMMA StoppedIs ==
    ASSUME HostInv, NEW u \in Unit, NEW from, NEW to, StopAndDisable(u, from, to)
    PROVE  /\ service' \in [Unit -> [enabled : BOOLEAN, active : BOOLEAN]]
           /\ \A v \in Unit \ {u} : service'[v] = service[v]
           /\ serving' \in {serving, Absent}
           /\ serving' # Absent => serving'.unit \in Unit /\ service'[serving'.unit].active
           /\ doubt' \in [purge : BOOLEAN, failed : BOOLEAN, unconfirmed : BOOLEAN]
           /\ doubt'.purge = doubt.purge /\ doubt'.failed = doubt.failed
           /\ ~doubt'.unconfirmed => ~doubt.unconfirmed /\ ~service'[u].active
<1>1. HostTypeOK /\ ScriptTypeOK /\ GoneInv
  BY DEF HostInv
<1> PICK heard \in BOOLEAN, stops \in BOOLEAN, disables \in BOOLEAN :
        LET stopped  == HasToStop(u, heard) /\ stops
            disabled == Exists(UnitFile(u)) /\ disables
        IN /\ service' = [service EXCEPT ![u] = [enabled |-> @.enabled /\ ~disabled,
                                                 active |-> @.active /\ ~stopped]]
           /\ IF stopped THEN Halted(u) ELSE UNCHANGED serving
           /\ doubt' = [doubt EXCEPT !.unconfirmed =
                  \/ @
                  \/ (HasToStop(u, heard) /\ ~stops)
                  \/ (Exists(UnitFile(u)) /\ ~disables)
                  \/ ~(Exists(UnitFile(u)) \/ heard)]
  BY Zenon DEF StopAndDisable
<1> DEFINE stopped == HasToStop(u, heard) /\ stops
           en == service[u].enabled /\ ~(Exists(UnitFile(u)) /\ disables)
           ac == service[u].active /\ ~stopped
           un == \/ doubt.unconfirmed
                 \/ (HasToStop(u, heard) /\ ~stops)
                 \/ (Exists(UnitFile(u)) /\ ~disables)
                 \/ ~(Exists(UnitFile(u)) \/ heard)
<1>2. /\ service' = [service EXCEPT ![u] = [enabled |-> en, active |-> ac]]
      /\ doubt' = [doubt EXCEPT !.unconfirmed = un]
  OBVIOUS
<1>3. /\ en \in BOOLEAN /\ ac \in BOOLEAN /\ un \in BOOLEAN
      /\ ac => service[u].active
      /\ (serving' = serving /\ (ac \/ ~service[u].active)) \/ Halted(u)
      /\ ~un => ~doubt.unconfirmed /\ ~ac
  BY Zenon DEF HasToStop
<1> HIDE DEF en, ac, un
<1>4. /\ service' \in [Unit -> [enabled : BOOLEAN, active : BOOLEAN]]
      /\ service'[u].active = ac
      /\ \A v \in Unit \ {u} : service'[v] = service[v]
      /\ serving' \in {serving, Absent}
      /\ serving' # Absent => serving'.unit \in Unit /\ service'[serving'.unit].active
  BY <1>1, <1>2, <1>3, HaltedIs
<1>5. /\ doubt' \in [purge : BOOLEAN, failed : BOOLEAN, unconfirmed : BOOLEAN]
      /\ doubt'.purge = doubt.purge /\ doubt'.failed = doubt.failed
      /\ doubt'.unconfirmed = un
  BY <1>1, <1>2, <1>3 DEF ScriptTypeOK
<1> QED
  BY <1>3, <1>4, <1>5

LEMMA StopKeeps ==
    ASSUME HostInv, StopAgent \/ StopLegacy
    PROVE  HostInv'
<1> DEFINE u  == IF step = "stopAgent" THEN "agent" ELSE "devcanopy"
           to == IF step = "stopAgent" THEN "stopLegacy" ELSE "remove"
<1>1. /\ step \in {"stopAgent", "stopLegacy"} /\ StopAndDisable(u, step, to)
      /\ step' = to
      /\ UNCHANGED <<files, minted, plan, result, asked, paired, good, tried>>
  BY DEF StopAgent, StopLegacy, StopAndDisable, diskFiles
<1>2. HostTypeOK /\ ScriptTypeOK /\ ProgramInv /\ GoneInv
  BY DEF HostInv
<1>3. u \in Unit
  BY DEF Unit
<1>4. /\ service' \in [Unit -> [enabled : BOOLEAN, active : BOOLEAN]]
      /\ \A v \in Unit \ {u} : service'[v] = service[v]
      /\ serving' \in {serving, Absent}
      /\ serving' # Absent => serving'.unit \in Unit /\ service'[serving'.unit].active
      /\ doubt' \in [purge : BOOLEAN, failed : BOOLEAN, unconfirmed : BOOLEAN]
      /\ doubt'.purge = doubt.purge /\ doubt'.failed = doubt.failed
      /\ ~doubt'.unconfirmed => ~doubt.unconfirmed /\ ~service'[u].active
  BY <1>1, <1>3, StoppedIs
<1>5. HostTypeOK' /\ BindInv' /\ TokenInv' /\ CertInv'
  BY <1>1, <1>2, <1>4, DiskStays DEF HostTypeOK
<1>6. ScriptTypeOK'
  BY <1>1, <1>2, <1>4 DEF ScriptTypeOK, InstallStep, UninstallStep
<1>7. ProgramInv'
  BY <1>1, <1>2, ProgramStays DEF UninstallStep
<1>8. plan = RemovalOrder(doubt.purge) /\ result = "none"
  BY <1>1, <1>2 DEF GoneInv, StoppedInv, ScriptTypeOK
<1>9. StoppedInv'
  <2>1. ~doubt'.unconfirmed => ~service'["agent"].active
    <3>1. CASE step = "stopAgent"
      BY <1>4, <3>1
    <3>2. CASE step = "stopLegacy"
      BY <1>2, <1>4, <3>2 DEF GoneInv, StoppedInv, Unit
    <3> QED
      BY <1>1, <3>1, <3>2
  <2>2. step' = "remove" /\ ~doubt'.unconfirmed => ~service'["devcanopy"].active
    BY <1>1, <1>4
  <2>3. NamesOf(plan') = NamesOf(RemovalOrder(doubt'.purge))
        /\ plan' = RemovalOrder(doubt'.purge)
    BY <1>1, <1>4, <1>8
  <2> QED
    BY <2>1, <2>2, <2>3 DEF StoppedInv
<1>10. GoneInv'
  BY <1>1, <1>4, <1>8, <1>9 DEF GoneInv, DoneIsGone
<1> QED
  BY <1>5, <1>6, <1>7, <1>10 DEF HostInv

\* A name is gone, or what remains of it is told; with a credential goes the
\* pairing.
LEMMA RemoveFileKeeps ==
    ASSUME HostInv, RemoveFile
    PROVE  HostInv'
<1> DEFINE f == Head(plan)
<1>1. /\ step = "remove" /\ plan # <<>> /\ plan' = Tail(plan)
      /\ \/ Put(f, Absent) /\ UNCHANGED doubt
         \/ doubt' = [doubt EXCEPT !.failed = TRUE] /\ UNCHANGED files
      /\ paired' = IF \E i \in 1..4 : Purged[i] = f THEN NoPairing ELSE paired
      /\ asked' = IF files'["env"] # Absent THEN asked ELSE LegacyBind'
      /\ UNCHANGED <<minted, service, serving, step, result, good, tried>>
  BY DEF RemoveFile
<1>2. /\ HostTypeOK /\ ScriptTypeOK /\ BindInv /\ ProgramInv /\ GoneInv /\ TokenInv /\ CertInv
      /\ DOMAIN files = FileName
  BY DEF HostInv, HostTypeOK
<1>3. plan \in Seq(FileName) /\ result = "none" /\ good = Absent
  BY <1>1, <1>2 DEF ScriptTypeOK, ProgramInv, UninstallStep
<1>4. /\ f \in FileName /\ Tail(plan) \in Seq(FileName)
      /\ NamesOf(plan) \subseteq {f} \union NamesOf(plan')
  BY <1>1, <1>3, NamesLeft
<1> HIDE DEF f
<1>5. /\ DOMAIN files' = FileName
      /\ \A g \in FileName : files'[g] \in {files[g], Absent}
      /\ \A g \in FileName \ {f} : files'[g] = files[g]
  <2>1. CASE Put(f, Absent)
    BY <1>2, <1>4, <2>1, PutTouches DEF TouchesOnly
  <2>2. CASE UNCHANGED files
    BY <1>2, <2>2
  <2> QED
    BY <1>1, <2>1, <2>2
<1>6. /\ doubt' \in [purge : BOOLEAN, failed : BOOLEAN, unconfirmed : BOOLEAN]
      /\ doubt'.purge = doubt.purge /\ doubt'.unconfirmed = doubt.unconfirmed
      /\ ~doubt'.failed => ~doubt.failed /\ files'[f] = Absent
  <2>1. CASE Put(f, Absent) /\ UNCHANGED doubt
    BY <1>2, <1>4, <2>1, PutTouches DEF ScriptTypeOK
  <2>2. CASE doubt' = [doubt EXCEPT !.failed = TRUE] /\ UNCHANGED files
    BY <1>2, <2>2 DEF ScriptTypeOK
  <2> QED
    BY <1>1, <2>1, <2>2
<1>7. /\ files'["env"] \in {files["env"], Absent}
      /\ files'["devcanopyEnv"] \in {files["devcanopyEnv"], Absent}
      /\ files'["key"] \in {files["key"], Absent} /\ files'["cert"] \in {files["cert"], Absent}
      /\ files'["live"] \in {files["live"], Absent}
  BY <1>5, NamesAre
<1>8. paired' \in {paired, NoPairing}
  BY <1>1
<1>9. paired' = paired /\ paired # NoPairing => \A g \in CredentialFiles : files'[g] = files[g]
  <2>1. ASSUME f \in CredentialFiles
        PROVE  \E i \in 1..4 : Purged[i] = f
    <3>1. CredentialFiles = NamesOf(Purged) /\ DOMAIN Purged = 1..4
      BY RemovalNames DEF CredentialFiles, Purged
    <3> QED
      BY <2>1, <3>1 DEF NamesOf
  <2>2. CredentialFiles \subseteq FileName
    BY NamesAre DEF CredentialFiles
  <2> QED
    BY <1>1, <1>5, <2>1, <2>2
<1>10. LegacyBind' \in BindName
  BY <1>2, <1>7 DEF LegacyBind, Exists, HostTypeOK, LegacyFile, BindName
<1>11. HostTypeOK'
  <2>1. paired' \in [token : Nat \union {Absent}, cert : Nat \union {Absent}]
    BY <1>2, <1>8 DEF HostTypeOK, NoPairing
  <2>2. asked' \in BindName
    BY <1>1, <1>2, <1>10 DEF HostTypeOK
  <2> QED
    BY <1>1, <1>2, <1>5, <1>7, <2>1, <2>2 DEF HostTypeOK
<1>12. ScriptTypeOK'
  BY <1>1, <1>3, <1>4, <1>6 DEF ScriptTypeOK, InstallStep, UninstallStep
<1>13. BindInv'
  <2>1. Exists("env")' => files'["env"] = files["env"] /\ Exists("env") /\ asked' = asked
    BY <1>1, <1>7 DEF Exists
  <2>2. ~Exists("env")' => asked' = LegacyBind'
    BY <1>1 DEF Exists
  <2> QED
    BY <1>1, <1>2, <2>1, <2>2 DEF BindInv, OwnWildcardHasTls
<1>14. TokenInv'
  <2>1. CASE paired'.token = Absent
    BY <1>2, <1>7, <2>1 DEF TokenInv, Exists
  <2>2. CASE paired'.token # Absent
    <3>1. \A g \in CredentialFiles : files'[g] = files[g]
      BY <1>8, <1>9, <2>2 DEF NoPairing
    <3>2. /\ files'["env"] = files["env"] /\ files'["devcanopyEnv"] = files["devcanopyEnv"]
          /\ paired' = paired
      BY <1>8, <2>2, <3>1 DEF CredentialFiles, NoPairing
    <3> QED
      BY <1>2, <3>2 DEF TokenInv, Exists
  <2> QED
    BY <2>1, <2>2
<1>15. CertInv'
  <2>1. ASSUME paired'.cert # Absent
        PROVE  /\ files'["key"] = files["key"] /\ files'["cert"] = files["cert"]
               /\ paired' = paired
    BY <1>8, <1>9, <2>1 DEF CredentialFiles, NoPairing
  <2> QED
    BY <1>2, <2>1 DEF CertInv, Exists
<1>16. ProgramInv'
  BY <1>1, <1>2, <1>3, <1>7 DEF ProgramInv, GoodIsNear, ReplacedInv, UninstallStep
<1>17. GoneInv'
  <2>1. ASSUME ~doubt'.unconfirmed, ~doubt'.failed,
               NEW g \in NamesOf(RemovalOrder(doubt.purge))
        PROVE  files'[g] = Absent \/ g \in NamesOf(plan')
    <3>1. files[g] = Absent \/ g \in NamesOf(plan)
      BY <1>1, <1>2, <1>6, <2>1 DEF GoneInv, StoppedInv
    <3>2. g \in FileName
      <4>1. RemovalOrder(doubt.purge) \in Seq(FileName)
        BY <1>2, RemovalOrderIs DEF ScriptTypeOK
      <4> QED
        BY <4>1 DEF NamesOf
    <3> QED
      BY <1>4, <1>5, <1>6, <2>1, <3>1, <3>2
  <2>2. StoppedInv'
    BY <1>1, <1>2, <1>6, <2>1 DEF GoneInv, StoppedInv
  <2> QED
    BY <1>1, <1>2, <1>3, <2>2 DEF GoneInv, DoneIsGone
<1> QED
  BY <1>11, <1>12, <1>13, <1>14, <1>15, <1>16, <1>17 DEF HostInv

\* Without a doubt everything was stopped and every name was gone through.
LEMMA UninstallEndsKeeps ==
    ASSUME HostInv, UninstallEnds
    PROVE  HostInv'
<1>1. /\ step = "remove" /\ plan = <<>> /\ step' = "idle" /\ doubt' = NoDoubt
      /\ result' = IF doubt.failed THEN "unfinished"
                   ELSE IF doubt.unconfirmed THEN "unconfirmed"
                   ELSE IF doubt.purge THEN "purged" ELSE "uninstalled"
      /\ UNCHANGED <<files, minted, service, serving, asked, paired, good, tried>>
  BY DEF UninstallEnds, diskFiles
<1>2. HostTypeOK /\ ScriptTypeOK /\ ProgramInv /\ GoneInv
  BY DEF HostInv
<1>3. HostTypeOK' /\ BindInv' /\ TokenInv' /\ CertInv'
  BY <1>1, <1>2, DiskStays DEF HostTypeOK
<1>4. ScriptTypeOK'
  BY <1>1, <1>2 DEF ScriptTypeOK, InstallStep, UninstallStep, NoDoubt
<1>5. ProgramInv'
  BY <1>1, <1>2, ProgramStays
<1>6. ASSUME result' \in {"uninstalled", "purged"}
      PROVE  /\ serving = Absent /\ \A u \in Unit : ~service[u].active
             /\ \A i \in 1..5 : ~Exists(Removed[i])
             /\ result' = "purged" => \A i \in 1..4 : ~Exists(Purged[i])
  <2>1. ~doubt.failed /\ ~doubt.unconfirmed /\ (result' = "purged" => doubt.purge)
        /\ doubt.purge \in BOOLEAN
    BY <1>1, <1>2, <1>6 DEF ScriptTypeOK
  <2>2. \A u \in Unit : ~service[u].active
    BY <1>1, <1>2, <2>1 DEF GoneInv, StoppedInv, Unit
  <2>3. serving = Absent
    BY <1>2, <2>2 DEF GoneInv
  <2>4. \A f \in NamesOf(RemovalOrder(doubt.purge)) : files[f] = Absent
    BY <1>1, <1>2, <2>1, NamesOfNone DEF GoneInv, StoppedInv
  <2>5. \A f \in NamesOf(Removed) : ~Exists(f)
    BY <2>1, <2>4, RemovalOrderIs DEF Exists
  <2>6. doubt.purge => \A f \in NamesOf(Purged) : ~Exists(f)
    BY <2>1, <2>4, RemovalOrderIs DEF Exists
  <2>7. /\ \A i \in 1..5 : Removed[i] \in NamesOf(Removed)
        /\ \A i \in 1..4 : Purged[i] \in NamesOf(Purged)
    <3>1. DOMAIN Removed = 1..5 /\ DOMAIN Purged = 1..4
      BY DEF Removed, Purged
    <3> QED
      BY <3>1 DEF NamesOf
  <2> QED
    BY <2>1, <2>2, <2>3, <2>5, <2>6, <2>7
<1>7. GoneInv'
  <2>1. DoneIsGone'
    BY <1>1, <1>6 DEF DoneIsGone, Exists
  <2> QED
    BY <1>1, <1>2, <2>1 DEF GoneInv, StoppedInv
<1> QED
  BY <1>3, <1>4, <1>5, <1>7 DEF HostInv

----------------------------------------------------------------------------
(* AgentInstall: the agents.                                               *)

\* A step that changes neither the scripts nor what they decided.
LEMMA ScriptStays ==
    ASSUME ScriptTypeOK, UNCHANGED <<step, plan, doubt, result>>
    PROVE  ScriptTypeOK'
  BY DEF ScriptTypeOK

\* While a unit is active, nothing is claimed of the host.
LEMMA ActiveIsTold ==
    ASSUME GoneInv, NEW u \in Unit, service[u].active,
           UNCHANGED <<service, step, plan, doubt, result>>,
           serving' # Absent => serving'.unit \in Unit /\ service[serving'.unit].active,
           \A f \in FileName \ {"key", "cert"} : files'[f] = files[f]
    PROVE  GoneInv'
<1>1. result' \notin {"uninstalled", "purged"}
  BY DEF GoneInv, DoneIsGone
<1>2. step = "remove" => doubt.unconfirmed
  BY DEF GoneInv, StoppedInv, Unit
<1>3. StoppedInv'
  BY <1>2 DEF GoneInv, StoppedInv
<1> QED
  BY <1>1, <1>3 DEF GoneInv, DoneIsGone

LEMMA AgentStartsKeeps ==
    ASSUME HostInv, AgentStarts
    PROVE  HostInv'
<1> DEFINE cert == IF ServesTls THEN files["cert"] ELSE Absent
<1>1. /\ service["agent"].active /\ serving = Absent /\ Exists("env")
      /\ ServesTls => HasPair
      /\ Serves(cert)
      /\ UNCHANGED <<files, minted, service, step, plan, doubt, result, asked, good, tried>>
  BY DEF AgentStarts, Startable, diskFiles
<1>2. /\ HostTypeOK /\ ScriptTypeOK /\ BindInv /\ ProgramInv /\ GoneInv /\ TokenInv /\ CertInv
      /\ files["env"] \in EnvFile
  BY <1>1 DEF HostInv, HostTypeOK, Exists
<1>3. /\ serving'.unit = "agent" /\ serving'.bin = files["live"]
      /\ serving'.bind = files["env"].bind /\ serving'.cert = cert /\ serving'.asked = asked
      /\ paired' = [token |-> files["env"].token,
                    cert |-> IF cert = Absent THEN paired.cert ELSE cert]
  BY <1>1 DEF Serves
<1>4. cert \in Nat \union {Absent} /\ (cert # Absent => cert = files["cert"])
  BY <1>2 DEF HostTypeOK
<1>5. OwnWildcardHasTls'
  <2>1. ServesTls => cert # Absent
    BY <1>1 DEF HasPair, Exists
  <2>2. ~ServesTls => ~files["env"].tls \/ ~Capable(files["live"])
    BY DEF ServesTls
  <2>3. ~files["env"].tls /\ files["env"].bind = "wildcard" => asked = "wildcard"
    BY <1>1, <1>2, Zenon DEF BindInv
  <2> QED
    BY <1>3, <2>1, <2>2, <2>3 DEF OwnWildcardHasTls, Capable
<1> HIDE DEF cert
<1>6. HostTypeOK'
  <2>1. files["env"].token \in Nat
    BY <1>2 DEF EnvFile
  <2>2. paired' \in [token : Nat \union {Absent}, cert : Nat \union {Absent}]
    BY <1>2, <1>3, <1>4, <2>1 DEF HostTypeOK
  <2> QED
    BY <1>1, <1>2, <2>2 DEF HostTypeOK
<1>7. ScriptTypeOK'
  BY <1>1, <1>2, ScriptStays
<1>8. BindInv'
  BY <1>1, <1>2, <1>5 DEF BindInv, Exists, LegacyBind, FirstOf
<1>9. ProgramInv'
  BY <1>1, <1>2, ProgramStays
<1>10. TokenInv'
  BY <1>1, <1>2, <1>3 DEF TokenInv, Exists
<1>11. CertInv'
  BY <1>1, <1>2, <1>3, <1>4 DEF CertInv, Exists
<1>12. GoneInv'
  BY <1>1, <1>2, <1>3, ActiveIsTold DEF Unit
<1> QED
  BY <1>6, <1>7, <1>8, <1>9, <1>10, <1>11, <1>12 DEF HostInv

\* A pair is made only where there is none, and no pairing then.
LEMMA GenerateKeeps ==
    ASSUME HostInv, Generate
    PROVE  HostInv'
<1>1. /\ service["agent"].active /\ serving = Absent /\ Exists("env") /\ ServesTls
      /\ ~Exists("key") /\ ~Exists("cert") /\ minted' = minted + 1
      /\ \/ /\ files' = [files EXCEPT !["key"] = minted + 1, !["cert"] = minted + 1]
            /\ Serves(minted + 1)
         \/ Put("key", minted + 1) /\ UNCHANGED <<serving, paired>>
      /\ UNCHANGED <<service, step, plan, doubt, result, asked, good, tried>>
  BY DEF Generate, Startable, MayGenerate
<1>2. /\ HostTypeOK /\ ScriptTypeOK /\ BindInv /\ ProgramInv /\ GoneInv /\ TokenInv /\ CertInv
      /\ DOMAIN files = FileName /\ minted \in Nat /\ files["env"] \in EnvFile
  BY <1>1 DEF HostInv, HostTypeOK, Exists
<1>3. /\ DOMAIN files' = FileName /\ files'["key"] = minted + 1
      /\ files'["cert"] \in {minted + 1, files["cert"]}
      /\ \A f \in FileName \ {"key", "cert"} : files'[f] = files[f]
  <2>1. CASE files' = [files EXCEPT !["key"] = minted + 1, !["cert"] = minted + 1]
    BY <1>2, <2>1, NamesAre
  <2>2. CASE Put("key", minted + 1)
    BY <1>2, <2>2, NamesAre DEF Put
  <2> QED
    BY <1>1, <2>1, <2>2
<1>4. /\ files'["env"] = files["env"] /\ files'["devcanopyEnv"] = files["devcanopyEnv"]
      /\ files'["live"] = files["live"] /\ files'["prev"] = files["prev"]
      /\ files'["new"] = files["new"]
  BY <1>3, NamesAre
<1>5. minted + 1 \in Nat /\ minted + 1 # Absent
  BY <1>2, InstallAssumption
<1>6. \/ UNCHANGED <<serving, paired>>
      \/ /\ serving'.unit = "agent" /\ serving'.cert = minted + 1
         /\ paired' = [token |-> files["env"].token, cert |-> minted + 1]
         /\ files'["cert"] = minted + 1
  BY <1>1, <1>2, <1>5, NamesAre DEF Serves
<1>7. HostTypeOK'
  <2>1. files["env"].token \in Nat
    BY <1>2 DEF EnvFile
  <2>2. paired' \in [token : Nat \union {Absent}, cert : Nat \union {Absent}]
    BY <1>2, <1>5, <1>6, <2>1 DEF HostTypeOK
  <2> QED
    BY <1>1, <1>2, <1>3, <1>4, <1>5, <2>2 DEF HostTypeOK
<1>8. ScriptTypeOK'
  BY <1>1, <1>2, ScriptStays
<1>9. BindInv'
  <2>1. OwnWildcardHasTls'
    BY <1>1, <1>2, <1>5, <1>6 DEF BindInv, OwnWildcardHasTls
  <2> QED
    BY <1>1, <1>2, <1>4, <2>1 DEF BindInv, Exists, LegacyBind, FirstOf
<1>10. ProgramInv'
  BY <1>1, <1>2, <1>4, ProgramStays
<1>11. TokenInv'
  BY <1>1, <1>2, <1>4, <1>6 DEF TokenInv, Exists
<1>12. CertInv'
  BY <1>1, <1>2, <1>3, <1>5, <1>6 DEF CertInv, Exists
<1>13. GoneInv'
  BY <1>1, <1>2, <1>3, <1>6, ActiveIsTold DEF Unit
<1> QED
  BY <1>7, <1>8, <1>9, <1>10, <1>11, <1>12, <1>13 DEF HostInv

\* The older agent's token is that of the env file, where there are both.
LEMMA LegacyStartsKeeps ==
    ASSUME HostInv, LegacyStarts
    PROVE  HostInv'
<1>1. /\ service["devcanopy"].active /\ serving = Absent /\ Exists("devcanopyEnv")
      /\ serving'.unit = "devcanopy"
      /\ paired' = [paired EXCEPT !.token = files["devcanopyEnv"].token]
      /\ UNCHANGED <<files, minted, service, step, plan, doubt, result, asked, good, tried>>
  BY DEF LegacyStarts, diskFiles
<1>2. /\ HostTypeOK /\ ScriptTypeOK /\ BindInv /\ ProgramInv /\ GoneInv /\ TokenInv /\ CertInv
      /\ files["devcanopyEnv"] \in LegacyFile
  BY <1>1 DEF HostInv, HostTypeOK, Exists
<1>3. /\ paired' \in [token : Nat \union {Absent}, cert : Nat \union {Absent}]
      /\ paired'.token = files["devcanopyEnv"].token /\ paired'.cert = paired.cert
  BY <1>1, <1>2 DEF HostTypeOK, LegacyFile
<1>4. HostTypeOK'
  BY <1>1, <1>2, <1>3 DEF HostTypeOK
<1>5. ScriptTypeOK'
  BY <1>1, <1>2, ScriptStays
<1>6. BindInv'
  BY <1>1, <1>2 DEF BindInv, Exists, LegacyBind, FirstOf, OwnWildcardHasTls
<1>7. ProgramInv'
  BY <1>1, <1>2, ProgramStays
<1>8. TokenInv' /\ CertInv'
  BY <1>1, <1>2, <1>3 DEF TokenInv, CertInv, Exists
<1>9. GoneInv'
  BY <1>1, <1>2, ActiveIsTold DEF Unit
<1> QED
  BY <1>4, <1>5, <1>6, <1>7, <1>8, <1>9 DEF HostInv

LEMMA AgentDiesKeeps ==
    ASSUME HostInv, AgentDies
    PROVE  HostInv'
<1>1. /\ serving' = Absent
      /\ UNCHANGED <<files, minted, service, step, plan, doubt, result, asked, paired, good,
                     tried>>
  BY DEF AgentDies, diskFiles
<1>2. HostTypeOK /\ ScriptTypeOK /\ ProgramInv /\ GoneInv
  BY DEF HostInv
<1>3. HostTypeOK' /\ BindInv' /\ TokenInv' /\ CertInv'
  BY <1>1, <1>2, DiskStays DEF HostTypeOK
<1>4. ScriptTypeOK'
  BY <1>1, <1>2, ScriptStays
<1>5. ProgramInv'
  BY <1>1, <1>2, ProgramStays
<1>6. GoneInv'
  BY <1>1, <1>2 DEF GoneInv, StoppedInv, DoneIsGone, Exists
<1> QED
  BY <1>3, <1>4, <1>5, <1>6 DEF HostInv

\* Nothing starts after a reboot whose unit file was removed.
LEMMA RebootKeeps ==
    ASSUME HostInv, Reboot
    PROVE  HostInv'
<1>1. /\ serving' = Absent /\ step' = "idle" /\ doubt' = NoDoubt
      /\ service' = [u \in Unit |->
             [service[u] EXCEPT !.active = service[u].enabled /\ Exists(UnitFile(u))]]
      /\ result' = IF step = "idle" THEN result ELSE "stopped"
      /\ UNCHANGED <<files, minted, asked, paired, good, tried>>
  BY DEF Reboot, diskFiles
<1>2. HostTypeOK /\ ScriptTypeOK /\ ProgramInv /\ GoneInv
  BY DEF HostInv
<1>3. ASSUME NEW u \in Unit
      PROVE  /\ service'[u] \in [enabled : BOOLEAN, active : BOOLEAN]
             /\ service'[u].active => Exists(UnitFile(u))
  <2> DEFINE ac == service[u].enabled /\ Exists(UnitFile(u))
  <2>1. service'[u] = [service[u] EXCEPT !.active = ac]
    BY <1>1
  <2>2. ac \in BOOLEAN /\ (ac => Exists(UnitFile(u)))
    BY Zenon
  <2>3. service[u] \in [enabled : BOOLEAN, active : BOOLEAN]
    BY <1>2 DEF HostTypeOK
  <2> HIDE DEF ac
  <2> QED
    BY <2>1, <2>2, <2>3
<1>4. service' \in [Unit -> [enabled : BOOLEAN, active : BOOLEAN]]
  BY <1>1, <1>3
<1>5. HostTypeOK' /\ BindInv' /\ TokenInv' /\ CertInv'
  BY <1>1, <1>2, <1>4, DiskStays DEF HostTypeOK
<1>6. ScriptTypeOK'
  BY <1>1, <1>2 DEF ScriptTypeOK, InstallStep, UninstallStep, NoDoubt
<1>7. ProgramInv'
  BY <1>1, <1>2, ProgramStays
<1>8. ASSUME result' \in {"uninstalled", "purged"}
      PROVE  /\ \A u \in Unit : ~service'[u].active
             /\ \A i \in 1..5 : ~Exists(Removed[i])
             /\ result' = "purged" => \A i \in 1..4 : ~Exists(Purged[i])
  <2>1. result' = result
    BY <1>1, <1>8
  <2>2. /\ \A i \in 1..5 : ~Exists(Removed[i])
        /\ result = "purged" => \A i \in 1..4 : ~Exists(Purged[i])
    BY <1>2, <1>8, <2>1 DEF GoneInv, DoneIsGone
  <2>3. ~Exists(UnitFile("agent")) /\ ~Exists(UnitFile("devcanopy"))
    <3>1. Removed[1] = "unit" /\ Removed[2] = "devcanopyUnit"
      BY DEF Removed
    <3> QED
      BY <2>2, <3>1 DEF UnitFile
  <2>4. \A u \in Unit : ~service'[u].active
    BY <1>3, <2>3 DEF Unit
  <2> QED
    BY <2>1, <2>2, <2>4
<1>9. GoneInv'
  <2>1. DoneIsGone'
    BY <1>1, <1>8 DEF DoneIsGone, Exists
  <2> QED
    BY <1>1, <2>1 DEF GoneInv, StoppedInv
<1> QED
  BY <1>5, <1>6, <1>7, <1>9 DEF HostInv

\* A lost certificate leaves its key, and the pairing goes with the pair.
LEMMA LosePairKeeps ==
    ASSUME HostInv, LosePair
    PROVE  HostInv'
<1>1. /\ step = "idle"
      /\ \/ /\ HasPair /\ \E f \in {"key", "cert"} : Put(f, Absent)
            /\ UNCHANGED paired
         \/ /\ files' = [files EXCEPT !["key"] = Absent, !["cert"] = Absent]
            /\ paired' = [paired EXCEPT !.cert = Absent]
      /\ UNCHANGED <<minted, service, serving, step, plan, doubt, result, asked, good, tried>>
  BY DEF LosePair
<1>2. /\ HostTypeOK /\ ScriptTypeOK /\ BindInv /\ ProgramInv /\ GoneInv /\ TokenInv /\ CertInv
      /\ DOMAIN files = FileName
  BY DEF HostInv, HostTypeOK
<1>3. /\ DOMAIN files' = FileName
      /\ \A f \in FileName \ {"key", "cert"} : files'[f] = files[f]
      /\ files'["key"] \in {files["key"], Absent} /\ files'["cert"] \in {files["cert"], Absent}
      /\ \/ paired' = paired /\ HasPair /\ (Exists("cert")' \/ Exists("key")')
         \/ paired' = [paired EXCEPT !.cert = Absent]
  <2>1. CASE files' = [files EXCEPT !["key"] = Absent, !["cert"] = Absent]
             /\ paired' = [paired EXCEPT !.cert = Absent]
    BY <1>2, <2>1, NamesAre
  <2>2. ASSUME HasPair, NEW f \in {"key", "cert"}, Put(f, Absent), UNCHANGED paired
        PROVE  <1>3
    BY <1>2, <2>2, NamesAre DEF Put, HasPair, Exists
  <2> QED
    BY <1>1, <2>1, <2>2
<1>4. /\ files'["env"] = files["env"] /\ files'["devcanopyEnv"] = files["devcanopyEnv"]
      /\ files'["live"] = files["live"] /\ files'["prev"] = files["prev"]
      /\ files'["new"] = files["new"]
  BY <1>3, NamesAre
<1>5. /\ paired' \in [token : Nat \union {Absent}, cert : Nat \union {Absent}]
      /\ paired'.token = paired.token /\ paired'.cert \in {paired.cert, Absent}
  BY <1>2, <1>3 DEF HostTypeOK
<1>6. HostTypeOK'
  BY <1>1, <1>2, <1>3, <1>4, <1>5 DEF HostTypeOK
<1>7. ScriptTypeOK'
  BY <1>1, <1>2, ScriptStays
<1>8. BindInv'
  BY <1>1, <1>2, <1>4 DEF BindInv, Exists, LegacyBind, OwnWildcardHasTls
<1>9. ProgramInv'
  BY <1>1, <1>2, <1>4, ProgramStays
<1>10. TokenInv'
  BY <1>1, <1>2, <1>4, <1>5 DEF TokenInv, Exists
<1>11. CertInv'
  <2>1. paired'.cert # Absent => paired' = paired /\ HasPair /\ (Exists("cert")' \/ Exists("key")')
    BY <1>2, <1>3 DEF HostTypeOK
  <2> QED
    BY <1>2, <1>3, <2>1 DEF CertInv, Exists, HasPair
<1>12. GoneInv'
  <2>1. /\ \A i \in 1..5 : Exists(Removed[i])' => Exists(Removed[i])
        /\ \A i \in 1..4 : Exists(Purged[i])' => Exists(Purged[i])
    <3>1. \A f \in FileName : Exists(f)' => Exists(f)
      BY <1>3 DEF Exists
    <3>2. /\ \A i \in 1..5 : Removed[i] \in FileName
          /\ \A i \in 1..4 : Purged[i] \in FileName
      <4>1. DOMAIN Removed = 1..5 /\ DOMAIN Purged = 1..4
        BY DEF Removed, Purged
      <4> QED
        BY <4>1, RemovalNames DEF NamesOf
    <3> QED
      BY <3>1, <3>2 DEF Exists
  <2>2. DoneIsGone'
    BY <1>1, <1>2, <2>1 DEF GoneInv, DoneIsGone, Exists
  <2> QED
    BY <1>1, <1>2, <2>2 DEF GoneInv, StoppedInv
<1> QED
  BY <1>6, <1>7, <1>8, <1>9, <1>10, <1>11, <1>12 DEF HostInv

----------------------------------------------------------------------------
(* AgentInstall: every step.                                               *)

LEMMA HostStep == HostInv /\ [InstallNext]_installVars => HostInv'
<1> SUFFICES ASSUME HostInv, [InstallNext]_installVars PROVE HostInv'
  OBVIOUS
<1>1. CASE UNCHANGED installVars
  BY <1>1 DEF installVars, diskFiles, HostInv, HostTypeOK, ScriptTypeOK, BindInv, ProgramInv,
       GoodIsNear, ReplacedInv, GoneInv, StoppedInv, DoneIsGone, TokenInv, CertInv, Exists,
       LegacyBind, FirstOf, OwnWildcardHasTls
<1>2. ASSUME NEW r \in Request, Install(r) PROVE HostInv'
  BY <1>2, InstallKeeps
<1>3. CASE InstallSteps
  BY <1>3, HandoverKeeps, WriteEnvKeeps, PreserveKeeps, StageKeeps, SwapKeeps, PutUnitKeeps,
     RestartKeeps, InstallDoneKeeps, GivesUpKeeps DEF InstallSteps
<1>4. ASSUME NEW purge \in BOOLEAN, Uninstall(purge) PROVE HostInv'
  BY <1>4, UninstallKeeps
<1>5. CASE StopAgent \/ StopLegacy \/ RemoveFile \/ UninstallEnds
  BY <1>5, StopKeeps, RemoveFileKeeps, UninstallEndsKeeps
<1>6. CASE AgentStarts \/ Generate \/ LegacyStarts \/ AgentDies \/ Reboot \/ LosePair
  BY <1>6, AgentStartsKeeps, GenerateKeeps, LegacyStartsKeeps, AgentDiesKeeps, RebootKeeps,
     LosePairKeeps
<1> QED
  BY <1>1, <1>2, <1>3, <1>4, <1>5, <1>6 DEF InstallNext

\* What the scripts leave between their steps, on every host an installer
\* finds and however often they are run, killed or fail (install.sh
\* 1000-1200, 1590-2420).
THEOREM HostsAreInductive == InstallSpec => []HostInv
  BY InstallInitInv, HostStep, PTL DEF InstallSpec

\* The agent never listens in the clear on every interface unless asked to,
\* the verified release is kept while one other is tried, and an uninstall
\* that says it is done is (install.sh 1604-1627, 2277-2291, 672-726).
THEOREM InstallsAreSafe == InstallSpec => []InstallInv
<1>1. HostInv => InstallInv
  <2> SUFFICES ASSUME HostInv PROVE InstallInv
    OBVIOUS
  <2>1. files["live"] # Partial
    BY InstallAssumption DEF HostInv, ProgramInv
  <2>2. good # Absent /\ Cardinality(tried) <= 1 => good \in {files["live"], files["prev"]}
    BY DEF HostInv, ProgramInv, GoodIsNear
  <2> QED
    BY <2>1, <2>2 DEF HostInv, BindInv, GoneInv, InstallInv, GoodIsKept
<1> QED
  BY HostsAreInductive, <1>1, PTL

\* A host that was paired answers under the token and the certificate it
\* first had until both are given up (install.sh 2112-2143, tls.rs 134-156).
THEOREM PairingsStay == InstallSpec => PairingKept
<1> DEFINE Kept == serving' # serving /\ serving' # Absent /\ serving'.unit = "agent" =>
                      /\ paired.token \in {Absent, serving'.token}
                      /\ \/ Absent \in {paired.cert, serving'.cert}
                         \/ paired.cert = serving'.cert
<1>1. ASSUME HostInv, [InstallNext]_installVars, serving' # serving, serving' # Absent,
             serving'.unit = "agent"
      PROVE  Kept
  <2>1. CASE AgentStarts \/ Generate
    <3>1. Exists("env") /\ (\E cert \in {Absent, files["cert"], minted + 1} : Serves(cert)
                               /\ (cert \in {Absent, files["cert"]}
                                   \/ (~Exists("key") /\ ~Exists("cert"))))
      BY <1>1, <2>1, Zenon DEF AgentStarts, Generate, Startable, MayGenerate
    <3>2. PICK cert \in {Absent, files["cert"], minted + 1} :
             Serves(cert) /\ (cert \in {Absent, files["cert"]}
                              \/ (~Exists("key") /\ ~Exists("cert")))
      BY <3>1
    <3>3. serving'.token = files["env"].token /\ serving'.cert = cert
      BY <3>2 DEF Serves
    <3>4. paired.token \in {Absent, files["env"].token}
      BY <1>1, <3>1 DEF HostInv, TokenInv
    <3>5. Absent \in {paired.cert, cert} \/ paired.cert = cert
      BY <1>1, <3>2 DEF HostInv, CertInv, Exists
    <3> QED
      BY <3>3, <3>4, <3>5
  <2>2. CASE LegacyStarts
    BY <1>1, <2>2 DEF LegacyStarts
  <2>3. CASE ~(AgentStarts \/ Generate \/ LegacyStarts)
    <3>1. serving' \in {serving, Absent}
      BY <1>1, <2>3 DEF InstallNext, InstallSteps, Install, Handover, WriteEnv, Preserve,
           Preserved, StageNew, StagedNew, SwapIn, PutUnit, RestartAgent, InstallDone, GivesUp,
           Uninstall, StopAgent, StopLegacy, StopAndDisable, RemoveFile, UninstallEnds,
           AgentDies, Reboot, LosePair, Halted, installVars
    <3> QED
      BY <1>1, <3>1
  <2> QED
    BY <2>1, <2>2, <2>3
<1>2. HostInv /\ [InstallNext]_installVars => [Kept]_installVars
  BY <1>1
<1> QED
  BY HostsAreInductive, <1>2, PTL DEF InstallSpec, PairingKept
=============================================================================

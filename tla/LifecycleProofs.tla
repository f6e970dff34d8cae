--------------------------- MODULE LifecycleProofs ---------------------------
(***************************************************************************)
(* Theorems about the accounting pipeline of Lifecycle, for every set of     *)
(* users, traffic units, rates and snapshots, every choice of faults and     *)
(* every bound on batches, outbox and boots.                                 *)
(***************************************************************************)
EXTENDS Lifecycle, TLAPS

Created == 1..Len(batches)

(* A batch that replay may still apply, or has applied. *)
Published(b) == visible[b] = "json" \/ durable[b] = "json" \/ b \in rows

(* Where entries may still become a batch or go back to the counters. *)
InHand == Holding \/ pc \in {"sync", "rename"}

(* Only batches that were created occur anywhere. *)
OnlyCreated ==
    /\ rows \subseteq Created
    /\ acknowledged \subseteq Created
    /\ flushed \subseteq Created
    /\ todoFiles \subseteq Created
    /\ \A b \in BatchIDs \ Created : visible[b] = "none" /\ durable[b] = "none"

(* The batch being saved holds the drained entries, and is not yet published *)
(* before its rename.                                                        *)
SavingInv ==
    pc \in {"sync", "rename", "syncdir"} =>
        /\ Saving \in Created
        /\ batches[Saving].units = EntryUnits
        /\ Saving \notin rows
        /\ durable[Saving] = "none"
        /\ visible[Saving] = IF pc = "syncdir" THEN "json" ELSE "tmp"
        /\ pc # "sync" => Saving \in flushed

(* Replay works through exactly the files of the outbox, and removes a file  *)
(* only when its row is in the database.                                     *)
ReplayInv ==
    /\ pc \in {"commit", "remove"} => todoFiles = Listed
    /\ pc = "removesync" => Listed = {b \in todoFiles : ~First(b)}
    /\ pc \in {"remove", "removesync"} => \A b \in BatchIDs : First(b) => b \in rows

(* A file that is gone for system calls and not on the disk was billed. *)
RemovedIsBilled ==
    \A b \in BatchIDs : durable[b] # "none" => visible[b] # "none" \/ b \in rows

(* An acknowledged batch is billed, or safe from a power loss too. *)
StoredDurably ==
    \A b \in acknowledged :
        b \in rows \/ (visible[b] = "json" /\ durable[b] = "json" /\ b \in flushed)

StorageInv == OnlyCreated /\ SavingInv /\ ReplayInv /\ RemovedIsBilled /\ StoredDurably

(* Traffic is only where it was produced. *)
OnlyProduced ==
    /\ \A u \in UserIDs : counters[u] \subseteq produced
    /\ EntryUnits \subseteq produced
    /\ \A b \in Created : batches[b].units \subseteq produced

(* A unit is in one counter, one entry or one published batch. *)
OneHolder ==
    /\ \A u, v \in UserIDs : \A t \in Units :
          t \in counters[u] /\ t \in counters[v] => u = v
    /\ InHand => \A u, v \in UserIDs : \A t \in Units :
          <<u, t>> \in entries => t \notin counters[v] /\ (<<v, t>> \in entries => u = v)
    /\ \A b \in Created : Published(b) => \A t \in batches[b].units :
          /\ \A u \in UserIDs : t \notin counters[u]
          /\ InHand => \A u \in UserIDs : <<u, t>> \notin entries
          /\ \A c \in Created : Published(c) /\ t \in batches[c].units => c = b

(* A reload in place keeps the rate. *)
ApplyKeepsRate ==
    /\ job = "apply" => target.rate = snapshot.rate
    /\ pc = "apply" => job = "apply"

(* Everything that is held flowed at the rate of the engine's snapshot, and   *)
(* a batch has the rate of its units.                                        *)
RateInv ==
    /\ \A u \in UserIDs : \A t \in counters[u] : rateOf[t] = snapshot.rate
    /\ InHand => \A t \in EntryUnits : rateOf[t] = snapshot.rate
    /\ \A b \in Created : \A t \in batches[b].units : batches[b].rate = rateOf[t]

BilledWith(t) == {b \in rows : t \in batches[b].units}

(* A unit is added to its user once when a row has it, and else never. *)
BilledInv == \A t \in Units : billed[t] = IF BilledWith(t) = {} THEN 0 ELSE 1

(* While Save is under way there is a last batch. *)
SavingExists == pc \in {"sync", "rename", "syncdir"} => Saving \in BatchIDs

----------------------------------------------------------------------------
(* Type correctness                                                         *)

LEMMA SnapshotType ==
    ASSUME NEW s \in Snapshots
    PROVE  s.users \subseteq UserIDs /\ s.rate \in Rates
BY SnapshotsAssumption

LEMMA InitType == Init => TypeOK
<1> SUFFICES ASSUME Init PROVE TypeOK
  OBVIOUS
<1>1. OutboxTypeOK /\ DatabaseTypeOK
  BY OutboxAssumption DEF Init, OutboxInit, DatabaseInit, OutboxTypeOK, DatabaseTypeOK, Entry
<1>2. EngineTypeOK
  BY SnapshotType DEF Init, EngineTypeOK, NoCounters
<1>3. closeFailed \in BOOLEAN
  BY Zenon DEF Init
<1>4. boots \in 0..MaxBoots
  BY MaxBootsAssumption DEF Init
<1> QED
  BY <1>1, <1>2, <1>3, <1>4 DEF Init, TypeOK, Jobs, Places

(* Sessions and their traffic. *)
LEMMA DataPlaneType == TypeOK /\ DataPlane => TypeOK'
<1> SUFFICES ASSUME TypeOK, DataPlane PROVE TypeOK'
  OBVIOUS
<1>1. PICK u \in UserIDs : OpenSession(u) \/ CloseSession(u) \/ \E t \in Units : Traffic(u, t)
  BY DEF DataPlane
<1>2. EngineTypeOK'
  BY <1>1, SnapshotType DEF TypeOK, EngineTypeOK, OpenSession, CloseSession, Traffic, historyVars
<1> QED
  BY <1>2 DEF TypeOK, OutboxTypeOK, DatabaseTypeOK, DataPlane, Storage, outboxVars, databaseVars,
              loopVars

LEMMA BootingType == TypeOK /\ Booting => TypeOK'
<1> SUFFICES ASSUME TypeOK, Booting PROVE TypeOK'
  OBVIOUS
<1> USE DEF TypeOK, Storage, Kept, outboxVars, databaseVars, historyVars
<1>1. CASE Boot
  BY <1>1, MaxBootsAssumption DEF Boot, engineVars, OutboxTypeOK, DatabaseTypeOK, EngineTypeOK,
       Jobs, Places
<1>2. CASE BootFail
  BY <1>2 DEF BootFail, Goto, engineVars, OutboxTypeOK, DatabaseTypeOK, EngineTypeOK, Places
<1>3. ASSUME NEW first \in Snapshots, BootServe(first) PROVE TypeOK'
  BY <1>3 DEF BootServe, StartInstance, NoCounters, OutboxTypeOK, DatabaseTypeOK, EngineTypeOK,
       Places
<1> QED
  BY <1>1, <1>2, <1>3 DEF Booting, BootEnds

LEMMA TicksType == TypeOK /\ Ticks => TypeOK'
<1> SUFFICES ASSUME TypeOK, Ticks PROVE TypeOK'
  OBVIOUS
<1>1. PICK j \in Jobs, place \in {"drain", "close"}, next \in Snapshots : Begin(j, place, next)
  BY DEF Ticks, ReportTick, Stop, RefreshTick, TypeOK, EngineTypeOK, Jobs
<1>2. DrainedUsers \subseteq UserIDs
  BY SnapshotType DEF TypeOK, EngineTypeOK, DrainedUsers
<1> QED
  BY <1>1, <1>2 DEF Begin, TypeOK, Storage, Kept, outboxVars, databaseVars, historyVars,
       engineVars, OutboxTypeOK, DatabaseTypeOK, EngineTypeOK, Places

LEMMA DrainingType == TypeOK /\ Draining => TypeOK'
<1> SUFFICES ASSUME TypeOK, Draining PROVE TypeOK'
  OBVIOUS
<1>1. DrainedUsers \subseteq UserIDs
  BY SnapshotType DEF TypeOK, EngineTypeOK, DrainedUsers
<1> USE DEF TypeOK, Storage, Kept, outboxVars, databaseVars, historyVars, OutboxTypeOK,
            DatabaseTypeOK, EngineTypeOK
<1>2. ASSUME NEW failed \in BOOLEAN, CloseInstance(failed) PROVE TypeOK'
  BY <1>1, <1>2 DEF CloseInstance, Places
<1>3. CASE CloseAgain
  BY <1>3 DEF CloseAgain, engineVars, Places
<1>4. ASSUME NEW u \in UserIDs, TakeCounter(u) PROVE TypeOK'
  BY <1>4 DEF TakeCounter, Places
<1>5. ASSUME NEW u \in UserIDs, NEW left \in SUBSET Units, DrainFails(u, left) PROVE TypeOK'
  BY <1>5 DEF DrainFails, EndLoop, Places, Jobs
<1>6. CASE CheckRetired
  BY <1>6 DEF CheckRetired, Places
<1>7. CASE DrainDone
  BY <1>7 DEF DrainDone, EndLoop, Goto, engineVars, Places, Jobs
<1> QED
  BY <1>2, <1>3, <1>4, <1>5, <1>6, <1>7 DEF Draining

LEMMA PersistingType == TypeOK /\ SavingExists /\ Persisting => TypeOK'
<1> SUFFICES ASSUME TypeOK, SavingExists, Persisting PROVE TypeOK'
  OBVIOUS
<1> USE DEF TypeOK, Storage, Kept, outboxVars, databaseVars, historyVars, DatabaseTypeOK,
            EngineTypeOK, engineVars, Goto, Places
<1>1. CASE PersistNothing \/ SaveRefused \/ SaveFails \/ SaveSyncDirFails
  BY <1>1 DEF PersistNothing, SaveRefused, SaveFails, SaveSyncDirFails, OutboxTypeOK
<1>2. CASE SaveCreate
  <2>1. EntryUnits \subseteq Units /\ snapshot.rate \in Rates
    BY SnapshotType DEF EntryUnits
  <2>2. [rate |-> snapshot.rate, units |-> EntryUnits] \in Batch
    BY <2>1 DEF Batch
  <2>3. OutboxTypeOK'
    BY <1>2, <2>2, OutboxAssumption DEF SaveCreate, CreateTemp, OutboxTypeOK, BatchIDs, Entry
  <2> QED  BY <1>2, <2>3 DEF SaveCreate
<1>3. CASE SaveSync
  BY <1>3 DEF SaveSync, SyncFile, SavingExists, OutboxTypeOK
<1>4. CASE SaveRename
  BY <1>4 DEF SaveRename, PublishRename, OutboxTypeOK, Entry
<1>5. CASE SaveDone
  BY <1>5 DEF SaveDone, syncDir, SavingExists, OutboxTypeOK
<1> QED
  BY <1>1, <1>2, <1>3, <1>4, <1>5 DEF Persisting

LEMMA AfterPersistType == TypeOK /\ AfterPersist => TypeOK'
<1> SUFFICES ASSUME TypeOK, AfterPersist PROVE TypeOK'
  OBVIOUS
<1> USE DEF TypeOK, Storage, Kept, outboxVars, databaseVars, historyVars, OutboxTypeOK,
            DatabaseTypeOK, EngineTypeOK, Goto, EndLoop, Places, Jobs
<1>1. Restore(entries) => counters' \in [UserIDs -> SUBSET Units]
  BY DEF Restore
<1>2. CASE PersistFailedInPlace
  BY <1>1, <1>2 DEF PersistFailedInPlace
<1>3. CASE RestoreAfterRestart
  BY <1>1, <1>3 DEF RestoreAfterRestart
<1>4. CASE PersistFailedInRestart
  BY <1>4 DEF PersistFailedInRestart, StartInstance, NoCounters
<1>5. CASE PersistAndRollbackFailed \/ PersistFailedInShutdown \/ ApplyFails
  BY <1>5 DEF PersistAndRollbackFailed, PersistFailedInShutdown, ApplyFails, engineVars
<1>6. CASE Saved
  BY <1>6 DEF Saved, engineVars
<1>7. CASE ApplySnapshot
  BY <1>7, SnapshotType DEF ApplySnapshot, retiredAfter
<1>8. CASE StartNext
  BY <1>8 DEF StartNext, StartInstance, NoCounters
<1>9. ASSUME NEW rolledBack \in BOOLEAN, StartFails(rolledBack) PROVE TypeOK'
  <2>1. CASE StartInstance(snapshot)
    BY <1>9, <2>1 DEF StartFails, StartInstance, NoCounters
  <2>2. CASE UNCHANGED engineVars
    BY <1>9, <2>2 DEF StartFails, engineVars
  <2> QED  BY <1>9, <2>1, <2>2 DEF StartFails
<1> QED
  BY <1>2, <1>3, <1>4, <1>5, <1>6, <1>7, <1>8, <1>9 DEF AfterPersist

(* What a commit leaves in the database. *)
LEMMA ApplyBatchType ==
    ASSUME DatabaseTypeOK, NEW b \in BatchIDs, ApplyBatch(b)
    PROVE  DatabaseTypeOK'
BY DEF DatabaseTypeOK, ApplyBatch, databaseVars

LEMMA LoseMemoryType ==
    ASSUME TypeOK, NEW place \in Places, LoseMemory(place), UNCHANGED Kept
    PROVE  /\ EngineTypeOK'
           /\ pc' \in Places /\ job' \in Jobs /\ todo' \subseteq UserIDs
           /\ checking' \subseteq UserIDs /\ entries' \subseteq UserIDs \X Units
           /\ target' \in Snapshots /\ closeFailed' \in BOOLEAN
           /\ todoFiles' \subseteq BatchIDs /\ boots' \in 0..MaxBoots
BY DEF TypeOK, EngineTypeOK, LoseMemory, Kept, historyVars, NoCounters

LEMMA ReplayingType == TypeOK /\ Replaying => TypeOK'
<1> SUFFICES ASSUME TypeOK, Replaying PROVE TypeOK'
  OBVIOUS
<1> USE DEF Storage, Kept, outboxVars, databaseVars, historyVars, engineVars, Goto, Places
<1>1. CASE ReplayList
  BY <1>1 DEF ReplayList, Listed, TypeOK, OutboxTypeOK, DatabaseTypeOK, EngineTypeOK
<1>2. CASE ReplayRemoveFails \/ ReplayDone
  BY <1>2 DEF ReplayRemoveFails, ReplayDone, TypeOK, OutboxTypeOK, DatabaseTypeOK, EngineTypeOK
<1>3. ASSUME NEW b \in BatchIDs, ReplayCommit(b) PROVE TypeOK'
  <2>1. DatabaseTypeOK'
    BY <1>3, ApplyBatchType DEF ReplayCommit, TypeOK
  <2> QED  BY <1>3, <2>1 DEF ReplayCommit, TypeOK, OutboxTypeOK, EngineTypeOK
<1>4. ASSUME NEW b \in BatchIDs, NEW committed \in BOOLEAN, ReplayCommitFails(b, committed)
      PROVE  TypeOK'
  <2>1. ApplyBatch(b) \/ UNCHANGED databaseVars
    BY <1>4 DEF ReplayCommitFails
  <2>2. DatabaseTypeOK'
    BY <2>1, ApplyBatchType DEF TypeOK, DatabaseTypeOK
  <2> QED  BY <1>4, <2>2 DEF ReplayCommitFails, TypeOK, OutboxTypeOK, EngineTypeOK
<1>5. ASSUME NEW b \in BatchIDs, ReplayRemove(b) PROVE TypeOK'
  BY <1>5 DEF ReplayRemove, RemoveFile, TypeOK, OutboxTypeOK, DatabaseTypeOK, EngineTypeOK, Entry
<1>6. ASSUME NEW b \in BatchIDs, ReplayRemoveSync(b) PROVE TypeOK'
  BY <1>6 DEF ReplayRemoveSync, syncDir, TypeOK, OutboxTypeOK, DatabaseTypeOK, EngineTypeOK
<1>7. CASE ReportDone
  BY <1>7 DEF ReportDone, EndLoop, Jobs, TypeOK, OutboxTypeOK, DatabaseTypeOK, EngineTypeOK
<1>8. CASE ShutdownDone
  BY <1>8, LoseMemoryType DEF ShutdownDone, TypeOK, OutboxTypeOK, DatabaseTypeOK
<1> QED
  BY <1>1, <1>2, <1>3, <1>4, <1>5, <1>6, <1>7, <1>8 DEF Replaying

LEMMA LossType == TypeOK /\ (Crash \/ PowerLoss) => TypeOK'
<1> SUFFICES ASSUME TypeOK, Crash \/ PowerLoss PROVE TypeOK'
  OBVIOUS
<1>1. "down" \in Places
  BY DEF Places
<1>2. CASE Crash
  BY <1>1, <1>2, LoseMemoryType DEF Crash, Storage, outboxVars, databaseVars, TypeOK,
       OutboxTypeOK, DatabaseTypeOK
<1>3. CASE PowerLoss
  BY <1>1, <1>3, LoseMemoryType DEF PowerLoss, PowerLossDirectory, databaseVars, TypeOK,
       OutboxTypeOK, DatabaseTypeOK
<1> QED  BY <1>2, <1>3

(* Every step that changes files or rows is one of these. *)
StorageStep ==
    \/ SaveCreate \/ SaveSync \/ SaveRename \/ SaveDone \/ PowerLoss
    \/ \E b \in BatchIDs : \/ ReplayCommit(b)
                           \/ \E committed \in BOOLEAN : ReplayCommitFails(b, committed)
                           \/ ReplayRemove(b)
                           \/ ReplayRemoveSync(b)

(* The others leave them alone, and do not begin to save, commit or remove    *)
(* anything but what List has just returned.                                 *)
QuietStep ==
    /\ UNCHANGED Storage
    /\ todoFiles' \in {todoFiles, {}, Listed}
    /\ pc' \in {"sync", "rename", "syncdir", "commit", "remove", "removesync"} =>
          \/ pc' = pc /\ entries' = entries /\ todoFiles' = todoFiles
          \/ pc' = "commit" /\ todoFiles' = Listed

LEMMA StepKinds == [Next]_vars => StorageStep \/ QuietStep
<1> SUFFICES ASSUME [Next]_vars PROVE StorageStep \/ QuietStep
  OBVIOUS
<1> USE DEF QuietStep, Goto, EndLoop
<1>1. CASE UNCHANGED vars
  BY <1>1 DEF vars, Storage, loopVars
<1>2. CASE DataPlane
  BY <1>2 DEF DataPlane, loopVars
<1>3. CASE Booting
  BY <1>3 DEF Booting, BootEnds, Boot, BootFail, BootServe
<1>4. CASE Ticks
  BY <1>4 DEF Ticks, ReportTick, Stop, RefreshTick, Begin
<1>5. CASE Draining
  BY <1>5 DEF Draining, CloseInstance, CloseAgain, TakeCounter, DrainFails, CheckRetired,
       DrainDone
<1>6. CASE Persisting
  BY <1>6 DEF Persisting, StorageStep, PersistNothing, SaveRefused, SaveFails, SaveSyncDirFails
<1>7. CASE AfterPersist
  BY <1>7 DEF AfterPersist, PersistFailedInPlace, PersistFailedInRestart, RestoreAfterRestart,
       PersistAndRollbackFailed, PersistFailedInShutdown, Saved, ApplySnapshot, ApplyFails,
       StartNext, StartFails
<1>8. CASE Replaying
  BY <1>8 DEF Replaying, StorageStep, ReplayList, ReplayRemoveFails, ReplayDone, ReportDone,
       ShutdownDone, LoseMemory
<1>9. CASE Crash \/ PowerLoss
  BY <1>9 DEF StorageStep, Crash, LoseMemory
<1> QED
  BY <1>1, <1>2, <1>3, <1>4, <1>5, <1>6, <1>7, <1>8, <1>9 DEF Next

(* The batches with the one that SaveCreate adds. *)
LEMMA SaveCreateBatches ==
    ASSUME TypeOK, SaveCreate
    PROVE  /\ Len(batches') = Len(batches) + 1
           /\ Len(batches') \in BatchIDs
           /\ batches'[Len(batches')] = [rate |-> snapshot.rate, units |-> EntryUnits]
           /\ \A b \in Created : batches'[b] = batches[b]
<1>1. batches \in Seq(Batch) /\ Len(batches) \in Nat /\ Len(batches) < MaxBatches
  BY DEF SaveCreate, CreateTemp, TypeOK, OutboxTypeOK
<1>2. batches' = Append(batches, [rate |-> snapshot.rate, units |-> EntryUnits])
  BY DEF SaveCreate, CreateTemp
<1>3. Len(batches') = Len(batches) + 1
  BY <1>1, <1>2
<1>4. Len(batches') \in BatchIDs
  BY <1>1, <1>3, OutboxAssumption DEF BatchIDs
<1> QED
  BY <1>1, <1>2, <1>3, <1>4 DEF Created

(* Only SaveCreate begins a save, and no batch is ever taken back. *)
LEMMA SavingExistsStep == TypeOK /\ SavingExists /\ [Next]_vars => SavingExists'
<1> SUFFICES ASSUME TypeOK, SavingExists, [Next]_vars PROVE SavingExists'
  OBVIOUS
<1> USE DEF SavingExists, Saving
<1>1. CASE SaveCreate
  BY <1>1, SaveCreateBatches
<1>2. CASE StorageStep /\ ~SaveCreate
  BY <1>2 DEF StorageStep, SaveSync, SyncFile, SaveRename, PublishRename, SaveDone, syncDir,
       PowerLoss, PowerLossDirectory, LoseMemory, ReplayCommit, ReplayCommitFails, ReplayRemove,
       RemoveFile, ReplayRemoveSync, outboxVars, Goto
<1>3. CASE QuietStep
  BY <1>3 DEF QuietStep, Storage, outboxVars
<1> QED  BY <1>1, <1>2, <1>3, StepKinds

Types == TypeOK /\ SavingExists

LEMMA TypesInvariant == Spec => []Types
<1>1. Init => Types
  BY InitType DEF Init, Types, SavingExists
<1>2. Types /\ [Next]_vars => Types'
  <2> SUFFICES ASSUME Types, [Next]_vars PROVE TypeOK'
    BY SavingExistsStep DEF Types
  <2>1. CASE Next
    BY <2>1, DataPlaneType, BootingType, TicksType, DrainingType, PersistingType,
       AfterPersistType, ReplayingType, LossType DEF Types, Next
  <2>2. CASE UNCHANGED vars
    BY <2>2 DEF Types, TypeOK, OutboxTypeOK, DatabaseTypeOK, EngineTypeOK, vars, outboxVars,
         databaseVars, engineVars, historyVars, loopVars
  <2> QED  BY <2>1, <2>2
<1> QED  BY <1>1, <1>2, PTL DEF Spec

(* Every variable of the accounting pipeline keeps its type: the outbox never *)
(* holds more than the batches created, a drained entry is a user with a unit, *)
(* and a retired user is never one of the engine's users.                      *)
THEOREM TypeCorrect == Spec => []TypeOK
<1>1. Types => TypeOK
  BY DEF Types
<1> QED  BY <1>1, TypesInvariant, PTL

----------------------------------------------------------------------------
(* The outbox and the database                                              *)

LEMMA CreatedType == TypeOK => Created \subseteq BatchIDs /\ Len(batches) \in Nat
BY OutboxAssumption DEF TypeOK, OutboxTypeOK, Created, BatchIDs

LEMMA InitStorage == Init => StorageInv
<1> SUFFICES ASSUME Init PROVE StorageInv
  OBVIOUS
<1> QED
  BY DEF Init, OutboxInit, DatabaseInit, StorageInv, OnlyCreated, SavingInv, ReplayInv,
         RemovedIsBilled, StoredDurably, Created

LEMMA QuietStorage ==
    ASSUME Types, StorageInv, QuietStep
    PROVE  StorageInv'
<1> USE DEF Types, QuietStep, Storage, outboxVars, databaseVars
<1>1. Listed \subseteq Created
  BY DEF StorageInv, OnlyCreated, Listed
<1>2. OnlyCreated'
  BY <1>1 DEF StorageInv, OnlyCreated, Created
<1>3. SavingInv'
  BY DEF StorageInv, SavingInv, Saving, EntryUnits, Created
<1>4. ReplayInv'
  BY DEF StorageInv, ReplayInv, Listed, First
<1>5. RemovedIsBilled' /\ StoredDurably'
  BY DEF StorageInv, RemovedIsBilled, StoredDurably
<1> QED  BY <1>2, <1>3, <1>4, <1>5 DEF StorageInv

LEMMA SaveCreateStorage ==
    ASSUME Types, StorageInv, SaveCreate
    PROVE  StorageInv'
<1> DEFINE new == Len(batches) + 1
<1> USE DEF Types
<1>1. /\ Created' = Created \cup {new}
      /\ new \in BatchIDs /\ new \notin Created /\ Saving' = new
  BY SaveCreateBatches, CreatedType DEF Created, Saving
<1>2. /\ visible' = [visible EXCEPT ![new] = "tmp"]
      /\ pc' = "sync"
      /\ UNCHANGED <<durable, flushed, rows, acknowledged, todoFiles, entries>>
  BY DEF SaveCreate, CreateTemp, Goto, databaseVars
<1>3. visible \in [BatchIDs -> Entry] /\ durable \in [BatchIDs -> Entry]
  BY DEF TypeOK, OutboxTypeOK
<1>4. OnlyCreated'
  BY <1>1, <1>2, <1>3 DEF StorageInv, OnlyCreated
<1>5. SavingInv'
  <2>1. batches'[new].units = EntryUnits
    BY SaveCreateBatches
  <2> QED  BY <1>1, <1>2, <1>3, <2>1 DEF StorageInv, OnlyCreated, SavingInv, EntryUnits
<1>6. ReplayInv'
  BY <1>2 DEF ReplayInv
<1>7. RemovedIsBilled' /\ StoredDurably'
  BY <1>1, <1>2, <1>3 DEF StorageInv, OnlyCreated, RemovedIsBilled, StoredDurably
<1> QED  BY <1>4, <1>5, <1>6, <1>7 DEF StorageInv

LEMMA SavingStorage ==
    ASSUME Types, StorageInv, SaveSync \/ SaveRename \/ SaveDone
    PROVE  StorageInv'
<1> USE DEF Types
<1>1. /\ Saving \in Created /\ Saving \in BatchIDs
      /\ batches[Saving].units = EntryUnits
      /\ Saving \notin rows
      /\ durable[Saving] = "none"
  BY CreatedType DEF StorageInv, SavingInv, SaveSync, SaveRename, SaveDone
<1>2. visible \in [BatchIDs -> Entry] /\ durable \in [BatchIDs -> Entry]
  BY DEF TypeOK, OutboxTypeOK
<1>3. /\ UNCHANGED <<batches, rows, entries, todoFiles>>
      /\ Created' = Created /\ EntryUnits' = EntryUnits /\ Saving' = Saving
  BY DEF SaveSync, SyncFile, SaveRename, PublishRename, SaveDone, syncDir, Goto, databaseVars,
         Created, EntryUnits, Saving
<1>4. CASE SaveSync
  BY <1>1, <1>2, <1>3, <1>4 DEF StorageInv, OnlyCreated, SavingInv, ReplayInv, RemovedIsBilled,
       StoredDurably, SaveSync, SyncFile, Goto
<1>5. CASE SaveRename
  BY <1>1, <1>2, <1>3, <1>5 DEF StorageInv, OnlyCreated, SavingInv, ReplayInv, RemovedIsBilled,
       StoredDurably, SaveRename, PublishRename, Goto
<1>6. CASE SaveDone
  BY <1>1, <1>2, <1>3, <1>6 DEF StorageInv, OnlyCreated, SavingInv, ReplayInv, RemovedIsBilled,
       StoredDurably, SaveDone, syncDir, Goto
<1> QED  BY <1>4, <1>5, <1>6

LEMMA CommitStorage ==
    ASSUME Types, StorageInv, NEW b \in BatchIDs,
           ReplayCommit(b) \/ \E committed \in BOOLEAN : ReplayCommitFails(b, committed)
    PROVE  StorageInv'
<1> USE DEF Types
<1>1. /\ pc = "commit" /\ First(b) /\ pc' \in {"remove", "replayfailed"}
      /\ pc' = "remove" => ApplyBatch(b)
      /\ ApplyBatch(b) \/ rows' = rows
      /\ UNCHANGED <<batches, visible, durable, flushed, acknowledged, entries, todoFiles>>
  BY DEF ReplayCommit, ReplayCommitFails, Goto, outboxVars, databaseVars
<1>2. b \in Listed /\ b \in Created
  BY <1>1 DEF StorageInv, OnlyCreated, ReplayInv, First
<1>3. (rows' = rows \/ rows' = rows \cup {b}) /\ (pc' = "remove" => b \in rows')
  BY <1>1 DEF ApplyBatch, databaseVars
<1>4. OnlyCreated' /\ RemovedIsBilled' /\ StoredDurably' /\ SavingInv'
  BY <1>1, <1>2, <1>3 DEF StorageInv, OnlyCreated, RemovedIsBilled, StoredDurably, SavingInv, Created
<1>5. ReplayInv'
  <2>1. \A c \in BatchIDs : First(c) => c = b
    BY <1>1 DEF First, BatchIDs
  <2>2. \A c \in BatchIDs : First(c)' <=> First(c)
    BY <1>1 DEF First
  <2> QED  BY <1>1, <1>3, <2>1, <2>2 DEF StorageInv, ReplayInv, Listed
<1> QED  BY <1>4, <1>5 DEF StorageInv

LEMMA RemoveStorage ==
    ASSUME Types, StorageInv, NEW b \in BatchIDs, ReplayRemove(b) \/ ReplayRemoveSync(b)
    PROVE  StorageInv'
<1> USE DEF Types
<1>1. First(b) /\ b \in rows /\ b \in todoFiles
  BY DEF ReplayRemove, ReplayRemoveSync, StorageInv, ReplayInv, First
<1>2. \A c \in BatchIDs : First(c) => c = b
  BY <1>1 DEF First, BatchIDs
<1>3. visible \in [BatchIDs -> Entry] /\ durable \in [BatchIDs -> Entry] /\ todoFiles \subseteq BatchIDs
  BY DEF TypeOK, OutboxTypeOK
<1>4. CASE ReplayRemove(b)
  <2>1. /\ visible' = [visible EXCEPT ![b] = "none"]
        /\ pc = "remove" /\ pc' = "removesync"
        /\ UNCHANGED <<batches, durable, flushed, rows, acknowledged, entries, todoFiles>>
    BY <1>4 DEF ReplayRemove, RemoveFile, Goto, databaseVars
  <2>2. \A c \in BatchIDs : First(c)' <=> First(c)
    BY <2>1 DEF First
  <2>3. ReplayInv'
    BY <1>1, <1>2, <1>3, <2>1, <2>2 DEF StorageInv, ReplayInv, Listed
  <2> QED
    BY <1>1, <1>3, <2>1, <2>3 DEF StorageInv, OnlyCreated, SavingInv, RemovedIsBilled,
         StoredDurably, Created
<1>5. CASE ReplayRemoveSync(b)
  <2>1. /\ durable' = visible /\ todoFiles' = todoFiles \ {b}
        /\ pc = "removesync" /\ pc' = "commit"
        /\ UNCHANGED <<batches, visible, flushed, rows, acknowledged, entries>>
    BY <1>5 DEF ReplayRemoveSync, syncDir, databaseVars
  <2>2. ReplayInv'
    BY <1>1, <1>2, <1>3, <2>1 DEF StorageInv, ReplayInv, Listed
  <2> QED
    BY <1>1, <1>3, <2>1, <2>2 DEF StorageInv, OnlyCreated, SavingInv, RemovedIsBilled,
         StoredDurably, Created
<1> QED  BY <1>4, <1>5

LEMMA PowerLossStorage ==
    ASSUME Types, StorageInv, PowerLoss
    PROVE  StorageInv'
<1> USE DEF Types
<1>1. /\ pc' = "down" /\ todoFiles' = {}
      /\ UNCHANGED <<batches, flushed, rows, acknowledged>>
      /\ visible' = durable'
      /\ \A b \in BatchIDs : visible'[b] \in AfterPowerLoss(b)
  BY DEF PowerLoss, PowerLossDirectory, LoseMemory, databaseVars
<1>2. acknowledged \subseteq BatchIDs
  BY DEF TypeOK
<1> QED
  BY <1>1, <1>2 DEF StorageInv, OnlyCreated, SavingInv, ReplayInv, RemovedIsBilled,
       StoredDurably, Created, AfterPowerLoss

LEMMA StorageInvariant == Spec => [](Types /\ StorageInv)
<1>1. Types /\ StorageInv /\ [Next]_vars => StorageInv'
  BY StepKinds, QuietStorage, SaveCreateStorage, SavingStorage, CommitStorage, RemoveStorage,
     PowerLossStorage DEF StorageStep
<1> QED  BY <1>1, InitStorage, TypesInvariant, PTL DEF Spec

(* A batch that Save reported as stored stays in the outbox, readable and     *)
(* under its final name, until the database has its row: neither a failed      *)
(* replay, a crash nor a power loss takes it away.                            *)
THEOREM StoredUntilBilledAlways == Spec => []StoredUntilBilled
<1>1. StorageInv => StoredUntilBilled
  BY DEF StorageInv, StoredDurably, StoredUntilBilled
<1> QED  BY <1>1, StorageInvariant, PTL

(* replay bills the files of an outbox in the order of their creation: it     *)
(* never commits a batch while an earlier one waits in the outbox unbilled.    *)
THEOREM BilledInOrderAlways == Spec => BilledInOrder
<1> DEFINE Ordered == \A b \in rows' \ rows : \A c \in BatchIDs :
                          c < b /\ visible[c] = "json" => c \in rows
<1>1. Types /\ StorageInv /\ [Next]_vars => Ordered
  <2> SUFFICES ASSUME Types, StorageInv, [Next]_vars,
                      NEW b \in rows' \ rows, NEW c \in BatchIDs, c < b, visible[c] = "json"
               PROVE  FALSE
    OBVIOUS
  <2>1. pc = "commit" /\ First(b) /\ b \in BatchIDs
    BY StepKinds DEF QuietStep, Storage, databaseVars, StorageStep, SaveCreate, SaveSync,
       SaveRename, SaveDone, PowerLoss, ReplayCommit, ReplayCommitFails, ApplyBatch,
       ReplayRemove, ReplayRemoveSync
  <2>2. c \in todoFiles
    BY <2>1 DEF StorageInv, ReplayInv, Listed
  <2> QED  BY <2>1, <2>2 DEF First, BatchIDs
<1>2. Types /\ StorageInv /\ [Next]_vars => [Ordered]_vars
  BY <1>1
<1> QED  BY <1>2, StorageInvariant, PTL DEF Spec, BilledInOrder

----------------------------------------------------------------------------
(* Counters and entries                                                     *)

LEMMA InitApply == Init => ApplyKeepsRate
BY DEF Init, ApplyKeepsRate

LEMMA ApplyKeepsRateStep == ApplyKeepsRate /\ [Next]_vars => ApplyKeepsRate'
<1> SUFFICES ASSUME ApplyKeepsRate, [Next]_vars PROVE ApplyKeepsRate'
  OBVIOUS
<1> USE DEF ApplyKeepsRate, Goto, EndLoop, engineVars
<1>1. CASE UNCHANGED vars
  BY <1>1 DEF vars, loopVars
<1>2. CASE DataPlane
  BY <1>2 DEF DataPlane, loopVars, OpenSession, CloseSession, Traffic
<1>3. CASE Booting
  BY <1>3 DEF Booting, BootEnds, Boot, BootFail, BootServe
<1>4. CASE Ticks
  BY <1>4 DEF Ticks, ReportTick, Stop, RefreshTick, Begin, dataPlaneNodeEqual
<1>5. CASE Draining
  BY <1>5 DEF Draining, CloseInstance, CloseAgain, TakeCounter, DrainFails, CheckRetired,
       DrainDone
<1>6. CASE Persisting
  BY <1>6 DEF Persisting, PersistNothing, SaveRefused, SaveCreate, SaveSync, SaveRename,
       SaveFails, SaveDone, SaveSyncDirFails
<1>7. CASE AfterPersist
  BY <1>7 DEF AfterPersist, PersistFailedInPlace, PersistFailedInRestart, RestoreAfterRestart,
       PersistAndRollbackFailed, PersistFailedInShutdown, Saved, ApplySnapshot, ApplyFails,
       StartNext, StartFails, StartInstance
<1>8. CASE Replaying
  BY <1>8 DEF Replaying, ReplayList, ReplayRemoveFails, ReplayDone, ReplayCommit,
       ReplayCommitFails, ReplayRemove, ReplayRemoveSync, ReportDone, ShutdownDone, LoseMemory
<1>9. CASE Crash \/ PowerLoss
  BY <1>9 DEF Crash, PowerLoss, LoseMemory
<1> QED
  BY <1>1, <1>2, <1>3, <1>4, <1>5, <1>6, <1>7, <1>8, <1>9 DEF Next

(* What a step can do with traffic that is not in a file: a session adds a    *)
(* unit, a counter is swapped into the entries, the entries go back, ...      *)
Flows == \E u \in UserIDs, t \in Units : Traffic(u, t) /\ UNCHANGED <<Storage, loopVars>>

PutsBack ==
    /\ pc \in {"unsaved", "restore"}
    /\ Restore(entries)
    /\ pc' = "close"
    /\ entries' = {}
    /\ UNCHANGED <<Storage, historyVars, snapshot>>

(* ... or something of it is dropped.  Entries are never picked up again once *)
(* they left the hands of the main loop, and a rate never changes under them. *)
Drops ==
    /\ UNCHANGED historyVars
    /\ \A u \in UserIDs : counters'[u] \subseteq counters[u]
    /\ entries' = entries \/ entries' = {}
    /\ InHand' => InHand \/ entries' = {}
    /\ snapshot'.rate = snapshot.rate \/ (counters' = NoCounters /\ ~InHand')

LEMMA HandsStep ==
    ASSUME TypeOK, ApplyKeepsRate, [Next]_vars
    PROVE  Flows \/ (\E u \in UserIDs : TakeCounter(u)) \/ PutsBack \/ Drops
<1> USE DEF Drops, InHand, Holding, Goto, EndLoop, engineVars, historyVars, Kept
<1>1. CASE UNCHANGED vars
  BY <1>1 DEF vars, loopVars
<1>2. CASE DataPlane
  <2>1. PICK u \in UserIDs : OpenSession(u) \/ CloseSession(u) \/ \E t \in Units : Traffic(u, t)
    BY <1>2 DEF DataPlane
  <2>2. CASE \E t \in Units : Traffic(u, t)
    BY <1>2, <2>2 DEF DataPlane, Flows
  <2> QED  BY <1>2, <2>1, <2>2 DEF DataPlane, loopVars, OpenSession, CloseSession
<1>3. CASE Booting
  BY <1>3 DEF Booting, BootEnds, Boot, BootFail, BootServe, StartInstance, NoCounters
<1>4. CASE Ticks
  BY <1>4 DEF Ticks, ReportTick, Stop, RefreshTick, Begin
<1>5. CASE Draining /\ ~\E u \in UserIDs : TakeCounter(u)
  <2>1. counters \in [UserIDs -> SUBSET Units]
    BY DEF TypeOK, EngineTypeOK
  <2> QED
    BY <1>5, <2>1 DEF Draining, CloseInstance, CloseAgain, DrainFails, CheckRetired, DrainDone
<1>6. CASE Persisting
  BY <1>6 DEF Persisting, PersistNothing, SaveRefused, SaveCreate, SaveSync, SaveRename,
       SaveFails, SaveDone, SaveSyncDirFails
<1>7. CASE AfterPersist
  <2>1. CASE PersistFailedInPlace \/ RestoreAfterRestart
    BY <1>7, <2>1 DEF PersistFailedInPlace, RestoreAfterRestart, MustRestore, PutsBack
  <2>2. CASE ApplySnapshot
    BY <2>2 DEF ApplySnapshot, ApplyKeepsRate
  <2>3. CASE PersistFailedInRestart \/ StartNext \/ \E rolledBack \in BOOLEAN : StartFails(rolledBack)
    BY <2>3 DEF PersistFailedInRestart, StartNext, StartFails, StartInstance, NoCounters,
         MustRestore
  <2> QED
    BY <1>7, <2>1, <2>2, <2>3 DEF AfterPersist, PersistAndRollbackFailed,
         PersistFailedInShutdown, Saved, ApplyFails
<1>8. CASE Replaying
  BY <1>8 DEF Replaying, ReplayList, ReplayRemoveFails, ReplayDone, ReplayCommit,
       ReplayCommitFails, ReplayRemove, ReplayRemoveSync, ReportDone, ShutdownDone, LoseMemory,
       NoCounters
<1>9. CASE Crash \/ PowerLoss
  BY <1>9 DEF Crash, PowerLoss, LoseMemory, NoCounters
<1> QED
  BY <1>1, <1>2, <1>3, <1>4, <1>5, <1>6, <1>7, <1>8, <1>9 DEF Next

----------------------------------------------------------------------------
(* Batches                                                                  *)

(* A batch is immutable; a step may add one, with the drained entries, and    *)
(* only the rename of Save publishes one.                                     *)
LEMMA BatchesStep ==
    ASSUME Types, StorageInv, [Next]_vars
    PROVE  /\ \A b \in Created : b \in Created' /\ batches'[b] = batches[b]
           /\ \A b \in Created' \ Created :
                 /\ SaveCreate
                 /\ batches'[b] = [rate |-> snapshot.rate, units |-> EntryUnits]
                 /\ ~Published(b)'
           /\ \A b \in Created : Published(b)' => Published(b) \/ (SaveRename /\ b = Saving)
<1> USE DEF Types
<1>1. visible \in [BatchIDs -> Entry] /\ durable \in [BatchIDs -> Entry] /\ Created \subseteq BatchIDs
  BY CreatedType DEF TypeOK, OutboxTypeOK
<1>2. CASE QuietStep
  BY <1>2 DEF QuietStep, Storage, outboxVars, databaseVars, Published, Created
<1>3. CASE SaveCreate
  <2> DEFINE new == Len(batches) + 1
  <2>1. /\ Created' = Created \cup {new}
        /\ new \in BatchIDs /\ new \notin Created /\ new = Len(batches')
    BY <1>3, SaveCreateBatches, CreatedType DEF Created
  <2>2. /\ visible' = [visible EXCEPT ![new] = "tmp"]
        /\ UNCHANGED <<durable, rows>>
    BY <1>3 DEF SaveCreate, CreateTemp, databaseVars
  <2> QED
    BY <1>1, <1>3, <2>1, <2>2, SaveCreateBatches DEF Published, StorageInv, OnlyCreated
<1>4. CASE StorageStep /\ ~SaveCreate
  <2>1. batches' = batches
    BY <1>4 DEF StorageStep, SaveSync, SyncFile, SaveRename, PublishRename, SaveDone, syncDir,
         PowerLoss, PowerLossDirectory, ReplayCommit, ReplayCommitFails, ReplayRemove, RemoveFile,
         ReplayRemoveSync, outboxVars
  <2>2. CASE SaveSync \/ SaveRename \/ SaveDone
    BY <1>1, <2>1, <2>2 DEF SaveSync, SyncFile, SaveRename, PublishRename, SaveDone, syncDir,
         databaseVars, Published, Created
  <2>3. CASE PowerLoss
    BY <1>1, <2>1, <2>3 DEF PowerLoss, PowerLossDirectory, AfterPowerLoss, databaseVars,
         Published, Created
  <2>4. ASSUME NEW b \in BatchIDs,
               ReplayCommit(b) \/ \E committed \in BOOLEAN : ReplayCommitFails(b, committed)
        PROVE  \A c \in Created : Published(c)' => Published(c)
    <3>1. First(b) /\ pc = "commit"
      BY <2>4 DEF ReplayCommit, ReplayCommitFails
    <3>2. visible[b] = "json"
      BY <3>1 DEF StorageInv, ReplayInv, First, Listed
    <3>3. rows' \subseteq rows \cup {b}
      BY <2>4 DEF ReplayCommit, ReplayCommitFails, ApplyBatch, databaseVars
    <3> QED  BY <2>4, <3>2, <3>3 DEF ReplayCommit, ReplayCommitFails, outboxVars, Published
  <2>5. ASSUME NEW b \in BatchIDs, ReplayRemove(b) \/ ReplayRemoveSync(b)
        PROVE  \A c \in Created : Published(c)' => Published(c)
    BY <1>1, <2>5 DEF ReplayRemove, RemoveFile, ReplayRemoveSync, syncDir, databaseVars, Published
  <2> QED
    BY <1>4, <2>1, <2>2, <2>3, <2>4, <2>5 DEF StorageStep, Created
<1> QED  BY <1>2, <1>3, <1>4, StepKinds

(* The unit of an entry is a unit of the entries. *)
LEMMA EntryUnit ==
    ASSUME entries \subseteq UserIDs \X Units
    PROVE  EntryUnits = {t \in Units : \E u \in UserIDs : <<u, t>> \in entries}
<1>1. ASSUME NEW t \in EntryUnits PROVE t \in Units /\ \E u \in UserIDs : <<u, t>> \in entries
  <2>1. PICK e \in entries : t = e[2]
    BY DEF EntryUnits
  <2>2. e[1] \in UserIDs /\ e[2] \in Units /\ e = <<e[1], e[2]>>
    BY <2>1
  <2> QED  BY <2>1, <2>2
<1>2. ASSUME NEW t \in Units, NEW u \in UserIDs, <<u, t>> \in entries PROVE t \in EntryUnits
  <2>1. t = <<u, t>>[2]
    OBVIOUS
  <2> QED  BY <1>2, <2>1 DEF EntryUnits
<1> QED  BY <1>1, <1>2

LEMMA BatchUnits ==
    ASSUME TypeOK
    PROVE  \A b \in Created : batches[b].units \subseteq Units
<1>1. \A b \in Created : batches[b] \in Batch
  BY DEF TypeOK, OutboxTypeOK, Created
<1> QED  BY <1>1 DEF Batch

LEMMA OnlyProducedStep ==
    ASSUME Types, StorageInv, ApplyKeepsRate, OnlyProduced, [Next]_vars
    PROVE  OnlyProduced'
<1> USE DEF Types
<1>1. /\ entries \subseteq UserIDs \X Units /\ counters \in [UserIDs -> SUBSET Units]
      /\ EntryUnits = {t \in Units : \E u \in UserIDs : <<u, t>> \in entries}
  BY EntryUnit DEF TypeOK, EngineTypeOK
<1>2. produced \subseteq produced'
  BY HandsStep DEF Flows, Traffic, TakeCounter, PutsBack, Drops, historyVars, Kept
<1>3. \A b \in Created' : batches'[b].units \subseteq produced'
  BY <1>2, BatchesStep DEF OnlyProduced
<1>4. (\A u \in UserIDs : counters'[u] \subseteq produced') /\ EntryUnits' \subseteq produced'
  <2>1. CASE Flows
    BY <1>1, <2>1 DEF Flows, Traffic, OnlyProduced, EntryUnits, loopVars
  <2>2. ASSUME NEW u \in UserIDs, TakeCounter(u)
        PROVE  (\A v \in UserIDs : counters'[v] \subseteq produced') /\ EntryUnits' \subseteq produced'
    BY <1>1, <1>2, <2>2 DEF TakeCounter, OnlyProduced, EntryUnits
  <2>3. CASE PutsBack
    BY <1>1, <1>2, <2>3 DEF PutsBack, Restore, OnlyProduced, EntryUnits
  <2>4. CASE Drops
    BY <1>1, <1>2, <2>4 DEF Drops, OnlyProduced, EntryUnits
  <2> QED  BY <2>1, <2>2, <2>3, <2>4, HandsStep
<1> QED  BY <1>3, <1>4 DEF OnlyProduced

(* Save publishes the entries, which from then on are out of its hands. *)
LEMMA RenameHolder ==
    ASSUME Types, StorageInv, ApplyKeepsRate, OneHolder, [Next]_vars, SaveRename
    PROVE  OneHolder'
<1> USE DEF Types
<1>1. /\ InHand /\ ~InHand'
      /\ Saving \in Created /\ batches[Saving].units = EntryUnits
      /\ UNCHANGED <<batches, counters>> /\ Created' = Created
  BY DEF SaveRename, PublishRename, Goto, engineVars, InHand, Holding, StorageInv, SavingInv,
         Created
<1>2. EntryUnits = {t \in Units : \E u \in UserIDs : <<u, t>> \in entries}
  BY EntryUnit DEF TypeOK
<1>3. \A b \in Created : Published(b)' => Published(b) \/ b = Saving
  BY BatchesStep
<1>4. \A b \in Created : batches[b].units \subseteq Units
  BY BatchUnits
<1>5. \A t \in Units : t \in batches[Saving].units =>
          /\ \A u \in UserIDs : t \notin counters[u]
          /\ \A b \in Created : Published(b) => t \notin batches[b].units
  BY <1>1, <1>2 DEF OneHolder
<1>6. \A b \in Created : Published(b)' => \A t \in batches[b].units :
          /\ \A u \in UserIDs : t \notin counters[u]
          /\ \A c \in Created : Published(c)' /\ t \in batches[c].units => c = b
  BY <1>1, <1>3, <1>4, <1>5 DEF OneHolder
<1> QED
  BY <1>1, <1>6 DEF OneHolder

(* Every other step moves a unit, or drops it. *)
LEMMA MoveHolder ==
    ASSUME Types, StorageInv, ApplyKeepsRate, OnlyProduced, OneHolder, [Next]_vars, ~SaveRename
    PROVE  OneHolder'
<1> USE DEF Types
<1>1. \A b \in Created' : Published(b)' =>
          b \in Created /\ Published(b) /\ batches'[b] = batches[b]
  BY BatchesStep
<1>2. \A b \in Created : batches[b].units \subseteq Units
  BY BatchUnits
<1>3. entries \subseteq UserIDs \X Units /\ counters \in [UserIDs -> SUBSET Units]
  BY DEF TypeOK, EngineTypeOK
<1>4. CASE Flows
  <2>1. PICK u \in UserIDs, t \in Units : Traffic(u, t) /\ UNCHANGED loopVars
    BY <1>4 DEF Flows
  <2>2. /\ counters' = [counters EXCEPT ![u] = @ \cup {t}]
        /\ entries' = entries /\ (InHand' <=> InHand)
        /\ t \notin produced
    BY <2>1 DEF Traffic, loopVars, InHand, Holding
  <2>3. /\ \A v \in UserIDs : t \notin counters[v] /\ <<v, t>> \notin entries
        /\ \A b \in Created : t \notin batches[b].units
    BY <2>2, <1>3 DEF OnlyProduced, EntryUnits
  <2>4. \A v \in UserIDs : counters'[v] = IF v = u THEN counters[v] \cup {t} ELSE counters[v]
    BY <1>3, <2>2
  <2>5. \A v, w \in UserIDs : \A x \in Units :
            x \in counters'[v] /\ x \in counters'[w] => v = w
    <3>1. \A v, w \in UserIDs : \A x \in Units : x \in counters[v] /\ x \in counters[w] => v = w
      BY DEF OneHolder
    <3>2. \A v \in UserIDs : \A x \in Units :
              x \in counters'[v] <=> x \in counters[v] \/ (v = u /\ x = t)
      BY <2>4
    <3> SUFFICES ASSUME NEW v \in UserIDs, NEW w \in UserIDs, NEW x \in Units,
                        x \in counters'[v], x \in counters'[w]
                 PROVE  v = w
      OBVIOUS
    <3>3. CASE x = t
      <4>1. x \notin counters[v] /\ x \notin counters[w]
        BY <2>3, <3>3
      <4>2. v = u /\ w = u
        BY <3>2, <4>1
      <4> QED  BY <4>2
    <3>4. CASE x # t
      <4>1. x \in counters[v] /\ x \in counters[w]
        BY <3>2, <3>4
      <4> QED  BY <3>1, <4>1
    <3> QED  BY <3>3, <3>4
  <2>6. InHand' => \A v, w \in UserIDs : \A x \in Units :
            <<v, x>> \in entries' => x \notin counters'[w] /\ (<<w, x>> \in entries' => v = w)
    <3>1. InHand' => \A v, w \in UserIDs : \A x \in Units :
              <<v, x>> \in entries' => x # t /\ x \notin counters[w] /\ (<<w, x>> \in entries' => v = w)
      BY <2>2, <2>3 DEF OneHolder
    <3> QED  BY <2>4, <3>1
  <2>7. \A b \in Created' : Published(b)' => \A x \in batches'[b].units :
            /\ \A v \in UserIDs : x \notin counters'[v]
            /\ InHand' => \A v \in UserIDs : <<v, x>> \notin entries'
            /\ \A c \in Created' : Published(c)' /\ x \in batches'[c].units => c = b
    BY <1>1, <2>2, <2>3, <2>4 DEF OneHolder
  <2> QED  BY <2>5, <2>6, <2>7 DEF OneHolder
<1>5. ASSUME NEW u \in UserIDs, TakeCounter(u) PROVE OneHolder'
  <2>1. /\ counters' = [counters EXCEPT ![u] = {}]
        /\ entries' = entries \cup ({u} \X counters[u])
        /\ InHand
    BY <1>5 DEF TakeCounter, InHand, Holding
  <2> QED  BY <1>1, <1>2, <1>3, <2>1 DEF OneHolder
<1>6. CASE PutsBack
  <2>1. /\ counters' = [u \in UserIDs |-> IF u \in registered
                           THEN counters[u] \cup {e[2] : e \in {x \in entries : x[1] = u}}
                           ELSE counters[u]]
        /\ entries' = {} /\ InHand
    BY <1>6 DEF PutsBack, Restore, InHand, Holding
  <2>2. \A u \in UserIDs : \A t \in Units :
            t \in counters'[u] => t \in counters[u] \/ <<u, t>> \in entries
    BY <1>3, <2>1
  <2> QED  BY <1>1, <1>2, <1>3, <2>1, <2>2 DEF OneHolder
<1>7. CASE Drops
  BY <1>1, <1>2, <1>3, <1>7 DEF Drops, OneHolder
<1> QED  BY <1>4, <1>5, <1>6, <1>7, HandsStep

LEMMA RateStep ==
    ASSUME Types, StorageInv, ApplyKeepsRate, OnlyProduced, RateInv, [Next]_vars
    PROVE  RateInv'
<1> USE DEF Types
<1>1. /\ entries \subseteq UserIDs \X Units /\ counters \in [UserIDs -> SUBSET Units]
      /\ EntryUnits = {t \in Units : \E u \in UserIDs : <<u, t>> \in entries}
      /\ rateOf \in [Units -> Rates]
  BY EntryUnit DEF TypeOK, EngineTypeOK
<1>2. \A t \in produced : rateOf'[t] = rateOf[t]
  <2>1. rateOf' = rateOf \/ \E t \in Units : t \notin produced
                                   /\ rateOf' = [rateOf EXCEPT ![t] = snapshot.rate]
    BY HandsStep DEF Flows, Traffic, TakeCounter, PutsBack, Drops, historyVars, Kept
  <2>2. produced \subseteq Units
    BY DEF TypeOK, EngineTypeOK
  <2> QED  BY <1>1, <2>1, <2>2
<1>3. \A b \in Created' : \A t \in batches'[b].units : batches'[b].rate = rateOf'[t]
  <2>1. SaveCreate => InHand
    BY DEF SaveCreate, InHand, Holding
  <2> QED  BY <1>2, <2>1, BatchesStep DEF OnlyProduced, RateInv
<1>4. /\ \A u \in UserIDs : \A t \in counters'[u] : rateOf'[t] = snapshot'.rate
      /\ InHand' => \A t \in EntryUnits' : rateOf'[t] = snapshot'.rate
  <2>1. CASE Flows
    <3>1. PICK u \in UserIDs, t \in Units : Traffic(u, t) /\ UNCHANGED loopVars
      BY <2>1 DEF Flows
    <3> QED
      BY <1>1, <3>1 DEF Traffic, loopVars, InHand, Holding, OnlyProduced, RateInv, EntryUnits
  <2>2. ASSUME NEW u \in UserIDs, TakeCounter(u)
        PROVE  /\ \A v \in UserIDs : \A t \in counters'[v] : rateOf'[t] = snapshot'.rate
               /\ InHand' => \A t \in EntryUnits' : rateOf'[t] = snapshot'.rate
    BY <1>1, <2>2 DEF TakeCounter, Kept, historyVars, InHand, Holding, RateInv, EntryUnits
  <2>3. CASE PutsBack
    BY <1>1, <2>3 DEF PutsBack, Restore, historyVars, InHand, Holding, RateInv, EntryUnits
  <2>4. CASE Drops
    BY <1>1, <2>4 DEF Drops, historyVars, RateInv, EntryUnits, NoCounters
  <2> QED  BY <2>1, <2>2, <2>3, <2>4, HandsStep
<1> QED  BY <1>3, <1>4 DEF RateInv

----------------------------------------------------------------------------
(* Billing                                                                  *)

(* A transaction that writes the row of a batch; its file is in the outbox. *)
Bills(b) ==
    /\ b \notin rows
    /\ visible[b] = "json"
    /\ rows' = rows \cup {b}
    /\ billed' = [t \in Units |->
                     IF t \in batches[b].units THEN billed[t] + 1 ELSE billed[t]]
    /\ UNCHANGED <<outboxVars, acknowledged, counters, entries, rateOf, produced>>

(* The tables change in no other way, whether or not the answer arrives. *)
LEMMA RowsStep ==
    ASSUME Types, StorageInv, [Next]_vars
    PROVE  UNCHANGED databaseVars \/ \E b \in Created : Bills(b)
<1>1. ASSUME NEW b \in BatchIDs,
             ReplayCommit(b) \/ \E committed \in BOOLEAN : ReplayCommitFails(b, committed)
      PROVE  UNCHANGED databaseVars \/ \E c \in Created : Bills(c)
  <2>1. pc = "commit" /\ First(b)
    BY <1>1 DEF ReplayCommit, ReplayCommitFails
  <2>2. visible[b] = "json" /\ b \in Created
    BY <2>1 DEF StorageInv, OnlyCreated, ReplayInv, First, Listed
  <2>3. /\ ApplyBatch(b) \/ UNCHANGED databaseVars
        /\ UNCHANGED <<outboxVars, acknowledged, counters, entries, rateOf, produced>>
    BY <1>1 DEF ReplayCommit, ReplayCommitFails, Goto, engineVars, Kept, historyVars
  <2> QED  BY <2>2, <2>3 DEF ApplyBatch, Bills
<1>2. CASE QuietStep
  BY <1>2 DEF QuietStep, Storage
<1>3. CASE SaveCreate \/ SaveSync \/ SaveRename \/ SaveDone \/ PowerLoss
  BY <1>3 DEF SaveCreate, SaveSync, SaveRename, SaveDone, PowerLoss
<1>4. ASSUME NEW b \in BatchIDs, ReplayRemove(b) \/ ReplayRemoveSync(b)
      PROVE  UNCHANGED databaseVars
  BY <1>4 DEF ReplayRemove, ReplayRemoveSync
<1> QED  BY <1>1, <1>2, <1>3, <1>4, StepKinds DEF StorageStep

(* A unit of a batch that is billed now was in no row before. *)
LEMMA BillsFresh ==
    ASSUME OnlyCreated, OneHolder, NEW b \in Created, Bills(b), NEW t \in batches[b].units
    PROVE  BilledWith(t) = {} /\ BilledWith(t)' = {b}
<1>1. Published(b) /\ \A c \in rows : c \in Created /\ Published(c) /\ c # b
  BY DEF Published, Bills, OnlyCreated
<1>2. \A c \in rows : t \notin batches[c].units
  BY <1>1 DEF OneHolder
<1> QED  BY <1>2 DEF BilledWith, Bills, outboxVars

LEMMA BilledStep ==
    ASSUME Types, StorageInv, OneHolder, BilledInv, [Next]_vars
    PROVE  BilledInv'
<1>1. CASE UNCHANGED databaseVars
  <2>1. \A b \in rows : batches'[b] = batches[b]
    BY BatchesStep DEF StorageInv, OnlyCreated
  <2> QED  BY <1>1, <2>1 DEF BilledInv, BilledWith, databaseVars
<1>2. ASSUME NEW b \in Created, Bills(b) PROVE BilledInv'
  <2> SUFFICES ASSUME NEW t \in Units
               PROVE  billed'[t] = IF BilledWith(t)' = {} THEN 0 ELSE 1
    BY DEF BilledInv
  <2>1. CASE t \in batches[b].units
    BY <1>2, <2>1, BillsFresh DEF StorageInv, BilledInv, Bills
  <2>2. CASE t \notin batches[b].units
    <3>1. BilledWith(t)' = BilledWith(t)
      BY <1>2, <2>2 DEF BilledWith, Bills, outboxVars
    <3> QED  BY <1>2, <2>2, <3>1 DEF BilledInv, Bills
  <2> QED  BY <2>1, <2>2
<1> QED  BY <1>1, <1>2, RowsStep

IInv == /\ Types /\ StorageInv /\ ApplyKeepsRate
        /\ OnlyProduced /\ OneHolder /\ RateInv /\ BilledInv

LEMMA InitIInv == Init => IInv
<1> SUFFICES ASSUME Init PROVE IInv
  OBVIOUS
<1>1. Types /\ StorageInv /\ ApplyKeepsRate
  BY InitType, InitStorage, InitApply DEF Init, Types, SavingExists
<1>2. Created = {} /\ rows = {} /\ entries = {} /\ counters = NoCounters
  BY DEF Init, OutboxInit, DatabaseInit, Created
<1>3. OnlyProduced /\ OneHolder /\ RateInv
  BY <1>2 DEF OnlyProduced, OneHolder, RateInv, EntryUnits, NoCounters
<1>4. BilledInv
  BY <1>2 DEF Init, DatabaseInit, BilledInv, BilledWith
<1> QED  BY <1>1, <1>3, <1>4 DEF IInv

LEMMA Invariant == Spec => []IInv
<1>1. IInv /\ [Next]_vars /\ Types' /\ StorageInv' => IInv'
  BY ApplyKeepsRateStep, OnlyProducedStep, RenameHolder, MoveHolder, RateStep, BilledStep DEF IInv
<1> QED  BY <1>1, InitIInv, StorageInvariant, PTL DEF Spec

(* Exactly-once billing, the half no failure may break: no unit of traffic is  *)
(* added to its user twice, whatever crashes, power losses, lost commit        *)
(* answers, failed saves and rollbacks happen.                                 *)
THEOREM NeverBilledTwiceAlways == Spec => []NeverBilledTwice
<1>1. IInv => NeverBilledTwice
  BY DEF IInv, BilledInv, NeverBilledTwice
<1> QED  BY <1>1, Invariant, PTL

(* A unit in the outbox under its final name, or billed, is nowhere else where *)
(* the main loop could save it again.                                          *)
THEOREM InOneBatchAlways == Spec => []InOneBatch
<1>1. ASSUME IInv PROVE InOneBatch
  <2>1. EntryUnits = {t \in Units : \E u \in UserIDs : <<u, t>> \in entries}
    BY <1>1, EntryUnit DEF IInv, Types, TypeOK
  <2>2. \A b \in Created : Published(b) => \A t \in batches[b].units :
            /\ \A u \in UserIDs : t \notin counters[u]
            /\ Holding => t \notin EntryUnits
            /\ \A c \in Created : Published(c) /\ t \in batches[c].units => c = b
    BY <1>1, <2>1 DEF IInv, OneHolder, InHand
  <2> QED  BY <2>2 DEF InOneBatch, Created, Published
<1> QED  BY <1>1, Invariant, PTL

(* Traffic is billed at the rate that was in force when it flowed, although it *)
(* is billed later and reloads change the rate.                                *)
THEOREM FrozenRateAlways == Spec => []FrozenRate
<1>1. IInv => FrozenRate
  BY DEF IInv, StorageInv, OnlyCreated, RateInv, FrozenRate
<1> QED  BY <1>1, Invariant, PTL

----------------------------------------------------------------------------
(* The ledger                                                               *)

(* Where the ledger has a unit, without the state of the files: a batch that  *)
(* was acknowledged and is not billed is always readable.                     *)
PlaceOf(t) ==
    IF t \notin produced THEN "fresh"
    ELSE IF BilledWith(t) # {} THEN "billed"
    ELSE IF \E b \in acknowledged : t \in batches[b].units THEN "stored"
    ELSE IF Held(t) THEN "held" ELSE "lost"

PlacesClear == \A t \in Units : LedgerPlace(t) = PlaceOf(t)

LEMMA PlacesAreClear == IInv => PlacesClear
<1> SUFFICES ASSUME IInv, NEW t \in Units PROVE LedgerPlace(t) = PlaceOf(t)
  BY DEF PlacesClear
<1>1. BilledWith(t) # {} <=> \E b \in rows : t \in batches[b].units
  BY DEF BilledWith
<1>2. BilledWith(t) = {} => (Stored(t) <=> \E b \in acknowledged : t \in batches[b].units)
  BY <1>1 DEF IInv, StorageInv, StoredDurably, Stored
<1>3. t \notin produced => BilledWith(t) = {}
  BY <1>1 DEF IInv, StorageInv, OnlyCreated, OnlyProduced
<1> QED
  BY <1>1, <1>2, <1>3 DEF LedgerPlace, PlaceOf

(* A unit is nowhere again that it has left: files, counters and entries only *)
(* hand over what they have.                                                  *)
LEMMA FilesStep ==
    ASSUME Types, StorageInv, [Next]_vars, NEW b \in Created,
           visible'[b] # "none" \/ durable'[b] # "none"
    PROVE  visible[b] # "none" \/ durable[b] # "none"
<1> USE DEF Types
<1>1. /\ visible \in [BatchIDs -> Entry] /\ durable \in [BatchIDs -> Entry]
      /\ b \in BatchIDs /\ b # Len(batches) + 1
  BY CreatedType DEF TypeOK, OutboxTypeOK, Created
<1>2. CASE QuietStep
  BY <1>2 DEF QuietStep, Storage, outboxVars
<1>3. CASE SaveCreate \/ SaveSync \/ SaveDone
  BY <1>1, <1>3 DEF SaveCreate, CreateTemp, SaveSync, SyncFile, SaveDone, syncDir
<1>4. CASE SaveRename
  <2>1. visible[Saving] = "tmp"
    BY <1>4 DEF StorageInv, SavingInv, SaveRename
  <2> QED  BY <1>1, <1>4, <2>1 DEF SaveRename, PublishRename
<1>5. CASE PowerLoss
  BY <1>1, <1>5 DEF PowerLoss, PowerLossDirectory, AfterPowerLoss
<1>6. ASSUME NEW c \in BatchIDs,
             \/ ReplayCommit(c) \/ \E committed \in BOOLEAN : ReplayCommitFails(c, committed)
             \/ ReplayRemove(c) \/ ReplayRemoveSync(c)
      PROVE  visible[b] # "none" \/ durable[b] # "none"
  BY <1>1, <1>6 DEF ReplayCommit, ReplayCommitFails, ReplayRemove, RemoveFile, ReplayRemoveSync,
       syncDir, outboxVars
<1> QED  BY <1>2, <1>3, <1>4, <1>5, <1>6, StepKinds DEF StorageStep

LEMMA HeldStep ==
    ASSUME IInv, [Next]_vars, ~Flows, NEW t \in Units, Held(t)'
    PROVE  Held(t)
<1> USE DEF IInv, Types
<1>1. /\ entries \subseteq UserIDs \X Units /\ counters \in [UserIDs -> SUBSET Units]
      /\ EntryUnits = {x \in Units : \E u \in UserIDs : <<u, x>> \in entries}
  BY EntryUnit DEF TypeOK, EngineTypeOK
<1>2. CASE (\E u \in UserIDs : t \in counters'[u]) \/ t \in EntryUnits'
  <2>1. ASSUME NEW u \in UserIDs, TakeCounter(u) PROVE Held(t)
    BY <1>1, <1>2, <2>1 DEF TakeCounter, Held, EntryUnits
  <2>2. CASE PutsBack
    BY <1>1, <1>2, <2>2 DEF PutsBack, Restore, Held, EntryUnits
  <2>3. CASE Drops
    BY <1>2, <2>3 DEF Drops, Held, EntryUnits
  <2> QED  BY <2>1, <2>2, <2>3, HandsStep
<1>3. ASSUME NEW b \in Created', t \in batches'[b].units,
             visible'[b] # "none" \/ durable'[b] # "none"
      PROVE  Held(t)
  <2>1. CASE b \in Created
    BY <1>3, <2>1, FilesStep, BatchesStep DEF Held, Created
  <2>2. CASE b \notin Created
    BY <1>3, <2>2, BatchesStep DEF Held
  <2> QED  BY <2>1, <2>2
<1> QED  BY <1>2, <1>3 DEF Held, Created

LEMMA HistoryStep ==
    ASSUME TypeOK, ApplyKeepsRate, [Next]_vars
    PROVE  Flows \/ UNCHANGED historyVars
BY HandsStep DEF TakeCounter, Kept, PutsBack, Drops

LEMMA AcknowledgedStep ==
    ASSUME [Next]_vars
    PROVE  UNCHANGED acknowledged \/ SaveDone
BY StepKinds DEF StorageStep, QuietStep, Storage, SaveCreate, SaveSync, SaveRename, PowerLoss,
   ReplayCommit, ReplayCommitFails, ReplayRemove, ReplayRemoveSync

(* Traffic flows in the ledger. *)
LEMMA LedgerFlow ==
    ASSUME IInv, PlacesClear, PlacesClear', Flows
    PROVE  Promise!LedgerNext
<1> USE DEF IInv, Types
<1>1. PICK u \in UserIDs, t \in Units : Traffic(u, t) /\ UNCHANGED <<Storage, loopVars>>
  BY DEF Flows
<1>2. /\ t \notin produced /\ produced' = produced \cup {t}
      /\ rateOf' = [rateOf EXCEPT ![t] = snapshot.rate]
      /\ counters' = [counters EXCEPT ![u] = @ \cup {t}]
      /\ UNCHANGED <<batches, visible, durable, flushed, rows, acknowledged, entries>>
      /\ counters \in [UserIDs -> SUBSET Units] /\ snapshot.rate \in Rates
      /\ rows \subseteq Created /\ acknowledged \subseteq Created
  BY <1>1, SnapshotType DEF Traffic, Storage, outboxVars, databaseVars, loopVars, TypeOK,
       EngineTypeOK, StorageInv, OnlyCreated
<1>3. \A x \in Units : BilledWith(x)' = BilledWith(x) /\ LedgerInvoices(x)' = LedgerInvoices(x)
  BY <1>2 DEF BilledWith, LedgerInvoices
<1>4. LedgerPlace(t) = "fresh" /\ LedgerPlace(t)' = "held"
  <2>1. \A b \in Created : t \notin batches[b].units
    BY <1>2 DEF OnlyProduced
  <2>2. BilledWith(t)' = {} /\ ~\E b \in acknowledged' : t \in batches'[b].units
    BY <1>2, <1>3, <2>1 DEF BilledWith
  <2>3. Held(t)'
    BY <1>2 DEF Held
  <2> QED  BY <1>2, <2>2, <2>3 DEF PlacesClear, PlaceOf
<1>5. \A x \in Units \ {t} : LedgerPlace(x)' = LedgerPlace(x)
  <2>1. \A x \in Units \ {t} : Held(x)' <=> Held(x)
    BY <1>2 DEF Held, EntryUnits
  <2> QED  BY <1>2, <1>3, <2>1 DEF PlacesClear, PlaceOf
<1>6. Promise!Flow(t, snapshot.rate)
  BY <1>2, <1>3, <1>4, <1>5 DEF Promise!Flow, Promise!Move
<1> QED  BY <1>2, <1>6 DEF Promise!LedgerNext

(* Save has synced the directory: the units of its batch are stored. *)
LEMMA LedgerStore ==
    ASSUME IInv, PlacesClear, PlacesClear', SaveDone
    PROVE  Promise!LedgerNext
<1> USE DEF IInv, Types
<1> DEFINE units == batches[Saving].units
<1>1. /\ Saving \in Created /\ Saving \notin rows /\ visible[Saving] = "json"
      /\ acknowledged' = acknowledged \cup {Saving} /\ durable' = visible
      /\ UNCHANGED <<batches, visible, flushed, rows, entries, counters, rateOf, produced>>
  BY DEF SaveDone, syncDir, Goto, databaseVars, engineVars, Kept, historyVars, StorageInv, SavingInv
<1>2. units \subseteq Units /\ units \subseteq produced
  BY <1>1, BatchUnits DEF OnlyProduced
<1>3. \A x \in Units : BilledWith(x)' = BilledWith(x) /\ LedgerInvoices(x)' = LedgerInvoices(x)
  BY <1>1 DEF BilledWith, LedgerInvoices
<1>4. ASSUME NEW t \in units PROVE LedgerPlace(t) = "held" /\ LedgerPlace(t)' = "stored"
  <2>1. Published(Saving) /\ \A c \in rows : c \in Created /\ Published(c) /\ c # Saving
    BY <1>1 DEF Published, StorageInv, OnlyCreated
  <2>2. BilledWith(t) = {}
    BY <1>1, <2>1 DEF OneHolder, BilledWith
  <2>3. Saving \notin acknowledged
    BY <1>1 DEF StorageInv, StoredDurably, SavingInv, SaveDone
  <2>4. \A b \in acknowledged : t \notin batches[b].units
    <3> SUFFICES ASSUME NEW b \in acknowledged, t \in batches[b].units PROVE FALSE
      OBVIOUS
    <3>1. b \in Created /\ b # Saving /\ Published(b)
      BY <2>3 DEF StorageInv, OnlyCreated, StoredDurably, Published
    <3> QED  BY <1>1, <2>1, <3>1 DEF OneHolder
  <2>5. Held(t)
    BY <1>1 DEF Held, Created
  <2> QED  BY <1>1, <1>2, <1>3, <2>2, <2>4, <2>5 DEF PlacesClear, PlaceOf
<1>5. \A x \in Units \ units : LedgerPlace(x)' = LedgerPlace(x)
  <2>1. \A x \in Units : BilledWith(x) = {} => (Held(x)' <=> Held(x))
    <3>1. \A b \in Created : b \in rows \/ (durable[b] # "none" => visible[b] # "none")
      BY CreatedType DEF StorageInv, RemovedIsBilled
    <3> QED  BY <1>1, <3>1 DEF Held, EntryUnits, BilledWith, Created
  <2>2. \A x \in Units \ units : (\E b \in acknowledged' : x \in batches'[b].units)
                                    <=> (\E b \in acknowledged : x \in batches[b].units)
    BY <1>1
  <2> QED  BY <1>1, <1>3, <2>1, <2>2 DEF PlacesClear, PlaceOf
<1>6. Promise!Store(units)
  BY <1>1, <1>2, <1>3, <1>4, <1>5 DEF Promise!Store, Promise!Move
<1> QED  BY <1>2, <1>6 DEF Promise!LedgerNext

(* A transaction bills the units of a batch at the rate they are due. *)
LEMMA LedgerBill ==
    ASSUME IInv, PlacesClear, PlacesClear', NEW b \in Created, Bills(b)
    PROVE  Promise!LedgerNext
<1> USE DEF IInv, Types
<1> DEFINE units == batches[b].units
<1>1. /\ visible[b] = "json" /\ rows' = rows \cup {b} /\ b \in BatchIDs
      /\ UNCHANGED <<batches, visible, durable, flushed, acknowledged, entries, counters,
                     rateOf, produced>>
  BY CreatedType DEF Bills, outboxVars
<1>2. units \subseteq Units /\ units \subseteq produced
  BY BatchUnits DEF OnlyProduced
<1>3. ASSUME NEW t \in units
      PROVE  /\ LedgerPlace(t) \in {"held", "stored"} /\ LedgerPlace(t)' = "billed"
             /\ LedgerInvoices(t)' = {<<b, rateOf[t]>>}
  <2>1. BilledWith(t) = {} /\ BilledWith(t)' = {b}
    BY BillsFresh DEF StorageInv
  <2>2. Held(t)
    BY <1>1 DEF Held, Created
  <2>3. batches[b].rate = rateOf[t]
    BY DEF RateInv
  <2>4. LedgerInvoices(t)' = {<<c, batches'[c].rate>> : c \in BilledWith(t)'}
    BY <1>2 DEF LedgerInvoices, BilledWith
  <2>5. LedgerInvoices(t)' = {<<b, rateOf[t]>>}
    BY <1>1, <2>1, <2>3, <2>4
  <2> QED  BY <1>1, <1>2, <2>1, <2>2, <2>5 DEF PlacesClear, PlaceOf
<1>4. ASSUME NEW x \in Units \ units
      PROVE  LedgerPlace(x)' = LedgerPlace(x) /\ LedgerInvoices(x)' = LedgerInvoices(x)
  <2>1. BilledWith(x)' = BilledWith(x)
    BY <1>1 DEF BilledWith
  <2>2. Held(x)' <=> Held(x)
    BY <1>1 DEF Held, EntryUnits
  <2>3. LedgerInvoices(x)' = LedgerInvoices(x)
    BY <1>1 DEF LedgerInvoices
  <2> QED  BY <1>1, <2>1, <2>2, <2>3 DEF PlacesClear, PlaceOf
<1>5. Promise!Bill(b, units)
  BY <1>1, <1>2, <1>3, <1>4 DEF Promise!Bill, Promise!Move
<1> QED  BY <1>1, <1>2, <1>5 DEF Promise!LedgerNext

(* Every other step loses units that are only held, or changes nothing. *)
LEMMA LedgerLose ==
    ASSUME IInv, PlacesClear, PlacesClear', [Next]_vars,
           ~Flows, UNCHANGED <<rows, acknowledged>>
    PROVE  Promise!LedgerNext
<1> USE DEF IInv, Types
<1> DEFINE gone == {t \in Units : LedgerPlace(t) = "held" /\ LedgerPlace(t)' = "lost"}
<1>1. UNCHANGED <<produced, rateOf>>
  BY HistoryStep DEF historyVars
<1>2. \A b \in rows \cup acknowledged : batches'[b] = batches[b]
  BY BatchesStep DEF StorageInv, OnlyCreated
<1>3. \A t \in Units : BilledWith(t)' = BilledWith(t) /\ LedgerInvoices(t)' = LedgerInvoices(t)
  BY <1>2 DEF BilledWith, LedgerInvoices
<1>4. \A t \in Units : (\E b \in acknowledged' : t \in batches'[b].units)
                          <=> (\E b \in acknowledged : t \in batches[b].units)
  BY <1>2
<1>5. \A t \in Units : LedgerPlace(t)' = IF t \in gone THEN "lost" ELSE LedgerPlace(t)
  BY <1>1, <1>3, <1>4, HeldStep DEF PlacesClear, PlaceOf
<1>6. Promise!Lose(gone)
  BY <1>1, <1>3, <1>5 DEF Promise!Lose, Promise!Move
<1> QED  BY <1>6 DEF Promise!LedgerNext

(* The pipeline of counters, outbox and database implements the ledger: each   *)
(* unit is billed at most once, at the rate of its time, and one that Save      *)
(* reported as stored is not lost, through every crash, power loss and failure.  *)
THEOREM LedgerImplemented == Spec => ImplementsLedger
<1>1. Init => Promise!LedgerInit
  <2> SUFFICES ASSUME Init PROVE Promise!LedgerInit
    OBVIOUS
  <2>1. \A t \in Units : LedgerPlace(t) = "fresh" /\ LedgerInvoices(t) = {}
    BY DEF Init, DatabaseInit, LedgerPlace, LedgerInvoices
  <2>2. rateOf \in [Units -> Rates]
    BY SnapshotType DEF Init
  <2> QED  BY <2>1, <2>2 DEF Promise!LedgerInit
<1>2. IInv /\ PlacesClear /\ PlacesClear' /\ [Next]_vars => [Promise!LedgerNext]_(Promise!ledgerVars)
  <2> SUFFICES ASSUME IInv, PlacesClear, PlacesClear', [Next]_vars PROVE Promise!LedgerNext
    OBVIOUS
  <2>1. CASE SaveDone
    BY <2>1, LedgerStore
  <2>2. CASE ~SaveDone
    BY <2>2, LedgerFlow, LedgerBill, LedgerLose, RowsStep, AcknowledgedStep DEF IInv, databaseVars
  <2> QED  BY <2>1, <2>2
<1> QED
  BY <1>1, <1>2, PlacesAreClear, Invariant, PTL DEF Spec, ImplementsLedger, Promise!LedgerSpec
=============================================================================

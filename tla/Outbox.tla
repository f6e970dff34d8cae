------------------------------ MODULE Outbox ------------------------------
(***************************************************************************)
(* The traffic outbox of internal/accounting/outbox.go: a directory with    *)
(* one file per immutable batch.  A batch is written to a .tmp file, synced, *)
(* renamed to .json and published by syncing the directory; it is removed    *)
(* the same way.  The model has two views of the directory: what system      *)
(* calls see, and what a power loss leaves behind.                           *)
(*                                                                          *)
(* The system calls that can fail are the ones storeHooks injects failures   *)
(* into.  Batch contents are sets of traffic units; size is one per batch.   *)
(***************************************************************************)
EXTENDS Naturals, FiniteSets, Sequences

CONSTANTS
    Units,       \* indivisible pieces of user traffic
    Rates,       \* traffic rates a node may have
    MaxBatches,  \* bound: batches ever created
    OutboxMax    \* OutboxMaxBytes, in batches

ASSUME OutboxAssumption == MaxBatches \in Nat /\ OutboxMax \in Nat

BatchIDs == 1..MaxBatches
Entry == {"none", "tmp", "json"}

VARIABLES
    batches,   \* what NewBatch froze: rate and traffic units, in creation order
    visible,   \* directory entries as system calls see them
    durable,   \* directory entries on the disk
    flushed    \* batches whose file content is on the disk

outboxVars == <<batches, visible, durable, flushed>>

Batch == [rate: Rates, units: SUBSET Units]

OutboxTypeOK ==
    /\ batches \in Seq(Batch)
    /\ Len(batches) <= MaxBatches
    /\ visible \in [BatchIDs -> Entry]
    /\ durable \in [BatchIDs -> Entry]
    /\ flushed \subseteq BatchIDs

OutboxInit ==
    /\ batches = << >>
    /\ visible = [b \in BatchIDs |-> "none"]
    /\ durable = [b \in BatchIDs |-> "none"]
    /\ flushed = {}

----------------------------------------------------------------------------
Size == Cardinality({b \in BatchIDs : visible[b] # "none"})

CapacityExceeded == Size >= OutboxMax

\* readBatch accepts a file whose content survived whole: its JSON and its
\* payload hash are right.
readBatch(b) == b \in flushed

\* List refuses a directory that holds a .tmp file or an unreadable batch.
Listable ==
    \A b \in BatchIDs : visible[b] # "tmp" /\ (visible[b] = "json" => readBatch(b))

Listed == {b \in BatchIDs : visible[b] = "json"}

\* NewBatch and the creation of the temporary file.
CreateTemp(rate, units) ==
    /\ Len(batches) < MaxBatches
    /\ batches' = Append(batches, [rate |-> rate, units |-> units])
    /\ visible' = [visible EXCEPT ![Len(batches) + 1] = "tmp"]
    /\ UNCHANGED <<durable, flushed>>

\* Write and sync of the temporary file.
SyncFile(b) ==
    /\ flushed' = flushed \cup {b}
    /\ UNCHANGED <<batches, visible, durable>>

\* The file system applies the rename at once for everyone but the disk.
PublishRename(b) ==
    /\ visible' = [visible EXCEPT ![b] = "json"]
    /\ UNCHANGED <<batches, durable, flushed>>

\* Mutant: the directory is never synced.
syncDirSkipped == UNCHANGED outboxVars

syncDir ==
    /\ durable' = visible
    /\ UNCHANGED <<batches, visible, flushed>>

RemoveFile(b) ==
    /\ visible' = [visible EXCEPT ![b] = "none"]
    /\ UNCHANGED <<batches, durable, flushed>>

\* What a power loss may leave of one entry: its old state, its new state, or
\* the .tmp file between creation and rename.
AfterPowerLoss(b) ==
    {durable[b], visible[b]}
        \cup (IF durable[b] = "none" /\ visible[b] = "json" /\ b \in flushed
              THEN {"tmp"} ELSE {})

PowerLossDirectory ==
    \E left \in [BatchIDs -> Entry] :
        /\ \A b \in BatchIDs : left[b] \in AfterPowerLoss(b)
        /\ visible' = left
        /\ durable' = left
        /\ UNCHANGED <<batches, flushed>>
=============================================================================

----------------------------- MODULE Lifecycle -----------------------------
(***************************************************************************)
(* The accounting life of a node process, internal/lifecycle/run.go: one    *)
(* main loop that boots, reports, reloads and shuts down, moving traffic     *)
(* from the engine's counters through the outbox into the database, while    *)
(* sessions produce traffic and the process may crash between any two steps. *)
(*                                                                          *)
(* Composes EngineCounters, Outbox and BillingDatabase.  pc is the place in  *)
(* the main loop and job the function it is in; drain, persist and replay    *)
(* are the helpers that several jobs share.  Telemetry, logging, timers and  *)
(* the authorization of users are left out; a ticker is a step that may      *)
(* happen whenever the loop is idle.                                         *)
(***************************************************************************)
EXTENDS EngineCounters

CONSTANT MaxBoots   \* bound: starts of the process

ASSUME MaxBootsAssumption == MaxBoots \in Nat

VARIABLES
    pc,
    job,
    todo,          \* users drainLocked has still to visit
    checking,      \* the retired user it found without traffic, if any
    entries,       \* drained (user, unit) pairs held by the main loop
    target,        \* the snapshot a reload goes to
    closeFailed,   \* instance.Close returned an error
    todoFiles,     \* outbox files replay has still to apply
    acknowledged,  \* history: batches Save reported as stored
    boots

loopVars == <<pc, job, todo, checking, entries, target, closeFailed, todoFiles>>
vars == <<outboxVars, databaseVars, engineVars, historyVars, loopVars,
          acknowledged, boots>>

Jobs == {"boot", "report", "apply", "restart", "shutdown"}
Places == {"down", "idle", "close", "drain", "check", "persist", "sync",
           "rename", "syncdir", "saved", "unsaved", "published", "restore", "replay",
           "commit", "remove", "removesync", "replayed", "replayfailed",
           "apply", "start", "stopped"}

TypeOK ==
    /\ OutboxTypeOK
    /\ DatabaseTypeOK
    /\ EngineTypeOK
    /\ pc \in Places
    /\ job \in Jobs
    /\ todo \subseteq UserIDs
    /\ checking \subseteq UserIDs
    /\ entries \subseteq UserIDs \X Units
    /\ target \in Snapshots
    /\ closeFailed \in BOOLEAN
    /\ todoFiles \subseteq BatchIDs
    /\ acknowledged \subseteq BatchIDs
    /\ boots \in 0..MaxBoots

\* A machine with an empty outbox and a process that was never started.
Init ==
    /\ OutboxInit
    /\ DatabaseInit
    /\ snapshot \in Snapshots
    /\ instanceUp = FALSE
    /\ registered = {}
    /\ counters = NoCounters
    /\ active = {}
    /\ retired = {}
    /\ rateOf = [t \in Units |-> snapshot.rate]
    /\ produced = {}
    /\ pc = "down"
    /\ job = "boot"
    /\ todo = {}
    /\ checking = {}
    /\ entries = {}
    /\ target = snapshot
    /\ closeFailed = FALSE
    /\ todoFiles = {}
    /\ acknowledged = {}
    /\ boots = 0

\* The main loop goes to another place and touches nothing else of its own.
Goto(place) ==
    /\ pc' = place
    /\ UNCHANGED <<job, todo, checking, entries, target, closeFailed, todoFiles>>

\* An error ends the loop: Run calls shutdown.
EndLoop ==
    /\ pc' = "close"
    /\ job' = "shutdown"
    /\ entries' = {}
    /\ UNCHANGED <<todo, checking, target, closeFailed, todoFiles>>

Storage == <<outboxVars, databaseVars, acknowledged>>
Kept == <<historyVars, boots>>

----------------------------------------------------------------------------
(* bootstrap                                                                *)

\* accounting.Open refuses an outbox that needs an operator; then replay runs.
Boot ==
    /\ pc \in {"down", "stopped"}
    /\ boots < MaxBoots
    /\ Listable
    /\ boots' = boots + 1
    /\ pc' = "replay"
    /\ job' = "boot"
    /\ UNCHANGED <<Storage, engineVars, historyVars, todo, checking, entries, target,
                   closeFailed, todoFiles>>

\* replay done: LoadSnapshot and Start succeed, or bootstrap gives up.
BootServe(first) ==
    /\ pc = "replayed"
    /\ job = "boot"
    /\ StartInstance(first)
    /\ closeFailed' = FALSE
    /\ pc' = "idle"
    /\ UNCHANGED <<Storage, Kept, job, todo, checking, entries, target, todoFiles>>

BootFail ==
    /\ job = "boot"
    /\ \/ pc = "replayfailed"
       \/ pc = "replayed" /\ Faults \cap {"start", "database"} # {}
    /\ Goto("down")
    /\ UNCHANGED <<Storage, Kept, engineVars>>

----------------------------------------------------------------------------
(* The select of Run                                                        *)

Begin(newJob, place, next) ==
    /\ pc = "idle"
    /\ pc' = place
    /\ job' = newJob
    /\ target' = next
    /\ todo' = IF place = "drain" THEN DrainedUsers ELSE {}
    /\ entries' = {}
    /\ UNCHANGED <<Storage, Kept, engineVars, checking, closeFailed, todoFiles>>

ReportTick == Begin("report", "drain", snapshot)

\* Mutant: a changed rate is applied in place.
dataPlaneNodeAlwaysEqual(left, right) == TRUE

dataPlaneNodeEqual(left, right) == left.rate = right.rate

\* refresh found another snapshot; reload applies it or restarts the engine.
RefreshTick(next) ==
    /\ next # snapshot
    /\ IF dataPlaneNodeEqual(snapshot, next)
       THEN Begin("apply", "drain", next)
       ELSE Begin("restart", "close", next)

\* A signal, a node that is gone, or a snapshot that is too old.
Stop == Begin("shutdown", "close", snapshot)

----------------------------------------------------------------------------
(* CloseAndDrain and drainLocked                                            *)

\* sessions.Close revokes all sessions; their links end by themselves.
CloseInstance(failed) ==
    /\ pc = "close"
    /\ instanceUp
    /\ failed => "close" \in Faults
    /\ instanceUp' = FALSE
    /\ closeFailed' = failed
    /\ todo' = DrainedUsers
    /\ entries' = {}
    /\ pc' = "drain"
    /\ UNCHANGED <<Storage, Kept, snapshot, registered, counters, active, retired,
                   job, checking, target, todoFiles>>

\* CloseAndDrain of an engine that is closed already.
CloseAgain ==
    /\ pc = "close"
    /\ ~instanceUp
    /\ entries' = {}
    /\ pc' = "persist"
    /\ UNCHANGED <<Storage, Kept, engineVars, job, todo, checking, target, closeFailed,
                   todoFiles>>

\* takeCounter: an atomic swap, concurrent with the sessions.
TakeCounter(u) ==
    /\ pc = "drain"
    /\ u \in todo
    /\ entries' = entries \cup ({u} \X counters[u])
    /\ counters' = [counters EXCEPT ![u] = {}]
    /\ todo' = todo \ {u}
    /\ IF counters[u] = {} /\ u \in retired
       THEN pc' = "check" /\ checking' = {u}
       ELSE UNCHANGED <<pc, checking>>
    /\ UNCHANGED <<Storage, Kept, instanceUp, snapshot, registered, active, retired, job,
                   target, closeFailed, todoFiles>>

\* Later, HasUserSessions decides whether a retired user may be forgotten.
CheckRetired ==
    /\ pc = "check"
    /\ retired' = retired \ (checking \ active)
    /\ checking' = {}
    /\ pc' = "drain"
    /\ UNCHANGED <<Storage, Kept, instanceUp, snapshot, registered, counters, active,
                   job, todo, entries, target, closeFailed, todoFiles>>

\* takeCounter meets a negative uplink or downlink: drainLocked drops what it
\* took from earlier users, and the uplink when it is the downlink that is
\* negative.  Only shutdown goes on.
DrainFails(u, left) ==
    /\ pc = "drain"
    /\ u \in todo
    /\ "counter" \in Faults
    /\ left \subseteq counters[u]
    /\ counters' = [counters EXCEPT ![u] = left]
    /\ IF job = "shutdown"
       THEN /\ pc' = "persist"
            /\ entries' = {}
            /\ UNCHANGED <<job, todo, checking, target, closeFailed, todoFiles>>
       ELSE EndLoop
    /\ UNCHANGED <<Storage, Kept, instanceUp, snapshot, registered, active, retired>>

\* reload returns the error of Close and drops what it drained.
DrainDone ==
    /\ pc = "drain"
    /\ todo = {}
    /\ IF job = "restart" /\ closeFailed THEN EndLoop ELSE Goto("persist")
    /\ UNCHANGED <<Storage, Kept, engineVars>>

----------------------------------------------------------------------------
(* persist and Store.Save                                                   *)

EntryUnits == {e[2] : e \in entries}

\* Mutant: a report without new traffic skips the replay.
PersistNothingEndsReport ==
    /\ pc = "persist"
    /\ entries = {}
    /\ IF job = "report" THEN Goto("replayed") ELSE Goto("saved")
    /\ UNCHANGED <<Storage, Kept, engineVars>>

PersistNothing ==
    /\ pc = "persist"
    /\ entries = {}
    /\ Goto("saved")
    /\ UNCHANGED <<Storage, Kept, engineVars>>

\* Over capacity, or the file cannot be created: nothing reaches the outbox.
SaveRefused ==
    /\ pc = "persist"
    /\ entries # {}
    /\ CapacityExceeded \/ "disk" \in Faults
    /\ Goto("unsaved")
    /\ UNCHANGED <<Storage, Kept, engineVars>>

SaveCreate ==
    /\ pc = "persist"
    /\ entries # {}
    /\ ~CapacityExceeded
    /\ CreateTemp(snapshot.rate, EntryUnits)
    /\ Goto("sync")
    /\ UNCHANGED <<databaseVars, acknowledged, Kept, engineVars>>

\* The batch being saved is always the last one created.
Saving == Len(batches)

SaveSync ==
    /\ pc = "sync"
    /\ SyncFile(Saving)
    /\ Goto("rename")
    /\ UNCHANGED <<databaseVars, acknowledged, Kept, engineVars>>

SaveRename ==
    /\ pc = "rename"
    /\ PublishRename(Saving)
    /\ Goto("syncdir")
    /\ UNCHANGED <<databaseVars, acknowledged, Kept, engineVars>>

\* Write, sync, close or rename fail: the .tmp file stays as evidence.
SaveFails ==
    /\ pc \in {"sync", "rename"}
    /\ "disk" \in Faults
    /\ Goto("unsaved")
    /\ UNCHANGED <<Storage, Kept, engineVars>>

SaveDone ==
    /\ pc = "syncdir"
    /\ syncDir
    /\ acknowledged' = acknowledged \cup {Saving}
    /\ Goto("saved")
    /\ UNCHANGED <<databaseVars, Kept, engineVars>>

\* Mutant: the error of the directory sync is dropped.
SaveSyncDirErrorDropped ==
    /\ pc = "syncdir"
    /\ "disk" \in Faults
    /\ acknowledged' = acknowledged \cup {Saving}
    /\ Goto("saved")
    /\ UNCHANGED <<outboxVars, databaseVars, Kept, engineVars>>

\* saveError{published: true}: the batch is in the outbox all the same.
SaveSyncDirFails ==
    /\ pc = "syncdir"
    /\ "disk" \in Faults
    /\ Goto("published")
    /\ UNCHANGED <<Storage, Kept, engineVars>>

----------------------------------------------------------------------------
(* What the callers of persist do with its result                           *)

\* Mutant: WasPublished is not asked.
MustRestoreAlways == TRUE

\* Only a batch that was not published goes back to the counters.
MustRestore == pc = "unsaved"

PersistFailedInPlace ==
    /\ pc \in {"unsaved", "published"}
    /\ job \in {"report", "apply"}
    /\ IF MustRestore THEN Restore(entries) ELSE UNCHANGED counters
    /\ EndLoop
    /\ UNCHANGED <<Storage, Kept, instanceUp, snapshot, registered, active, retired>>

\* reload starts the previous configuration again and, if the batch was not
\* published, restores into it.  A fresh instance has counters only for the
\* users who opened a session in the meantime.
PersistFailedInRestart ==
    /\ pc \in {"unsaved", "published"}
    /\ job = "restart"
    /\ StartInstance(snapshot)
    /\ IF MustRestore THEN Goto("restore") ELSE EndLoop
    /\ UNCHANGED <<Storage, Kept>>

RestoreAfterRestart ==
    /\ pc = "restore"
    /\ Restore(entries)
    /\ EndLoop
    /\ UNCHANGED <<Storage, Kept, instanceUp, snapshot, registered, active, retired>>

PersistAndRollbackFailed ==
    /\ pc \in {"unsaved", "published"}
    /\ job = "restart"
    /\ "start" \in Faults
    /\ EndLoop
    /\ UNCHANGED <<Storage, Kept, engineVars>>

\* shutdown only notes the error and goes on to replay.
PersistFailedInShutdown ==
    /\ pc \in {"unsaved", "published"}
    /\ job = "shutdown"
    /\ Goto("replay")
    /\ UNCHANGED <<Storage, Kept, engineVars>>

Saved ==
    /\ pc = "saved"
    /\ pc' = CASE job = "apply"   -> "apply"
               [] job = "restart" -> "start"
               [] OTHER           -> "replay"
    /\ entries' = {}
    /\ UNCHANGED <<Storage, Kept, engineVars, job, todo, checking, target, closeFailed,
                   todoFiles>>

\* Engine.Apply replaces the users; it may fail and roll the users back.
ApplySnapshot ==
    /\ pc = "apply"
    /\ snapshot' = target
    /\ retired' = retiredAfter(target)
    /\ Goto("idle")
    /\ UNCHANGED <<Storage, Kept, instanceUp, registered, counters, active>>

ApplyFails ==
    /\ pc = "apply"
    /\ "apply" \in Faults
    /\ EndLoop
    /\ UNCHANGED <<Storage, Kept, engineVars>>

StartNext ==
    /\ pc = "start"
    /\ StartInstance(target)
    /\ Goto("idle")
    /\ UNCHANGED <<Storage, Kept>>

\* The new configuration does not start: back to the previous one, then stop.
StartFails(rolledBack) ==
    /\ pc = "start"
    /\ "start" \in Faults
    /\ IF rolledBack THEN StartInstance(snapshot) ELSE UNCHANGED engineVars
    /\ EndLoop
    /\ UNCHANGED <<Storage, Kept>>

----------------------------------------------------------------------------
(* replay                                                                   *)

ReplayList ==
    /\ pc = "replay"
    /\ IF Listable
       THEN pc' = "commit" /\ todoFiles' = Listed
       ELSE pc' = "replayfailed" /\ todoFiles' = {}
    /\ UNCHANGED <<Storage, Kept, engineVars, job, todo, checking, entries, target,
                   closeFailed>>

\* Mutant: the files are not sorted.
FirstUnsorted(b) == b \in todoFiles

\* Files are applied in the order of their names, which begin with the time of
\* their creation: this takes the clock of the machine to be monotone.
First(b) == b \in todoFiles /\ \A c \in todoFiles : b <= c

ReplayCommit(b) ==
    /\ pc = "commit"
    /\ First(b)
    /\ ApplyBatch(b)
    /\ Goto("remove")
    /\ UNCHANGED <<outboxVars, acknowledged, Kept, engineVars>>

\* The transaction fails, or it commits and the answer is lost.
ReplayCommitFails(b, committed) ==
    /\ pc = "commit"
    /\ First(b)
    /\ "database" \in Faults
    /\ IF committed THEN ApplyBatch(b) ELSE UNCHANGED databaseVars
    /\ Goto("replayfailed")
    /\ UNCHANGED <<outboxVars, acknowledged, Kept, engineVars>>

ReplayRemove(b) ==
    /\ pc = "remove"
    /\ First(b)
    /\ RemoveFile(b)
    /\ Goto("removesync")
    /\ UNCHANGED <<databaseVars, acknowledged, Kept, engineVars>>

ReplayRemoveSync(b) ==
    /\ pc = "removesync"
    /\ First(b)
    /\ syncDir
    /\ todoFiles' = todoFiles \ {b}
    /\ pc' = "commit"
    /\ UNCHANGED <<databaseVars, acknowledged, Kept, engineVars, job, todo, checking,
                   entries, target, closeFailed>>

ReplayRemoveFails ==
    /\ pc \in {"remove", "removesync"}
    /\ "disk" \in Faults
    /\ Goto("replayfailed")
    /\ UNCHANGED <<Storage, Kept, engineVars>>

ReplayDone ==
    /\ pc = "commit"
    /\ todoFiles = {}
    /\ Goto("replayed")
    /\ UNCHANGED <<Storage, Kept, engineVars>>

\* report only logs a failed replay; it ends the loop at the hard limit, and when
\* the directory cannot be read for its size.
ReportDone ==
    /\ pc \in {"replayed", "replayfailed"}
    /\ job = "report"
    /\ \/ CapacityExceeded /\ EndLoop
       \/ "disk" \in Faults /\ EndLoop
       \/ ~CapacityExceeded /\ Goto("idle")
    /\ UNCHANGED <<Storage, Kept, engineVars>>

----------------------------------------------------------------------------
(* The end of the process                                                   *)

\* All that is in memory is gone.
LoseMemory(place) ==
    /\ instanceUp' = FALSE
    /\ registered' = {}
    /\ counters' = NoCounters
    /\ active' = {}
    /\ retired' = {}
    /\ pc' = place
    /\ todo' = {}
    /\ checking' = {}
    /\ entries' = {}
    /\ todoFiles' = {}
    /\ UNCHANGED <<snapshot, job, target, closeFailed>>

ShutdownDone ==
    /\ pc \in {"replayed", "replayfailed"}
    /\ job = "shutdown"
    /\ LoseMemory("stopped")
    /\ UNCHANGED <<Storage, Kept>>

Crash ==
    /\ "crash" \in Faults
    /\ pc \notin {"down", "stopped"}
    /\ LoseMemory("down")
    /\ UNCHANGED <<Storage, Kept>>

PowerLoss ==
    /\ "power" \in Faults
    /\ visible # durable
    /\ PowerLossDirectory
    /\ LoseMemory("down")
    /\ UNCHANGED <<databaseVars, acknowledged, Kept>>

----------------------------------------------------------------------------
DataPlane ==
    /\ \E u \in UserIDs : \/ OpenSession(u)
                          \/ CloseSession(u)
                          \/ \E t \in Units : Traffic(u, t)
    /\ UNCHANGED <<Storage, loopVars, boots>>

BootEnds == BootFail \/ \E first \in Snapshots : BootServe(first)

Booting == Boot \/ BootEnds

Ticks == ReportTick \/ Stop \/ \E next \in Snapshots : RefreshTick(next)

Draining ==
    \/ \E failed \in BOOLEAN : CloseInstance(failed)
    \/ CloseAgain
    \/ \E u \in UserIDs : TakeCounter(u)
    \/ \E u \in UserIDs, left \in SUBSET Units : DrainFails(u, left)
    \/ CheckRetired
    \/ DrainDone

Persisting ==
    \/ PersistNothing \/ SaveRefused \/ SaveCreate \/ SaveSync \/ SaveRename
    \/ SaveFails \/ SaveDone \/ SaveSyncDirFails

AfterPersist ==
    \/ PersistFailedInPlace \/ PersistFailedInRestart \/ RestoreAfterRestart
    \/ PersistAndRollbackFailed \/ PersistFailedInShutdown
    \/ Saved \/ ApplySnapshot \/ ApplyFails \/ StartNext
    \/ \E rolledBack \in BOOLEAN : StartFails(rolledBack)

Replaying ==
    \/ ReplayList \/ ReplayRemoveFails \/ ReplayDone
    \/ \E b \in BatchIDs : \/ ReplayCommit(b)
                           \/ \E committed \in BOOLEAN : ReplayCommitFails(b, committed)
                           \/ ReplayRemove(b)
                           \/ ReplayRemoveSync(b)
    \/ ReportDone \/ ShutdownDone

Next == \/ DataPlane \/ Booting \/ Ticks \/ Draining \/ Persisting \/ AfterPersist
        \/ Replaying \/ Crash \/ PowerLoss

Spec == Init /\ [][Next]_vars

\* The main loop always goes on; select picks every ready ticker again and
\* again; and a database that is asked again and again answers some day.
Fairness ==
    /\ WF_vars(BootEnds \/ Draining \/ Persisting \/ AfterPersist \/ Replaying)
    /\ SF_vars(ReportTick)
    /\ \A b \in BatchIDs : SF_vars(ReplayCommit(b))

FairSpec == Spec /\ Fairness

----------------------------------------------------------------------------
(* Properties                                                               *)

(* Exactly-once billing, the half no failure may break: whatever crashes,   *)
(* power losses, lost commit answers, failed saves and rollbacks happen, no  *)
(* unit of traffic is added to its user twice.                               *)
NeverBilledTwice == \A t \in Units : billed[t] <= 1

\* Where the main loop still has traffic in its hands and would save it.
Holding == pc \in {"drain", "check", "persist", "unsaved", "restore"}

(* A unit that is in the outbox under its final name, or billed, is nowhere *)
(* else where it could be saved again: not in a counter, not in entries that *)
(* may be persisted or restored, and in no other such batch.                 *)
InOneBatch ==
    \A b \in 1..Len(batches) : \A t \in batches[b].units :
        (visible[b] = "json" \/ durable[b] = "json" \/ b \in rows) =>
            /\ \A u \in UserIDs : t \notin counters[u]
            /\ Holding => t \notin EntryUnits
            /\ \A c \in 1..Len(batches) \ {b} :
                  t \in batches[c].units =>
                      visible[c] # "json" /\ durable[c] # "json" /\ c \notin rows

(* Traffic is billed at the rate that was in force when it flowed, although *)
(* it is billed later and rates change by reload.                            *)
FrozenRate ==
    \A b \in rows : \A t \in batches[b].units : batches[b].rate = rateOf[t]

(* A batch that Save reported as stored stays in the outbox, readable, until *)
(* the database has its row: the file is removed only after the commit, and  *)
(* neither a crash nor a power loss undoes that.                             *)
StoredUntilBilled ==
    \A b \in acknowledged :
        b \in rows \/ (visible[b] = "json" /\ b \in flushed)

(* The batches of an outbox are billed in the order of their creation, also  *)
(* after a stop in the middle of a replay and after failed ones: a batch      *)
(* that fails holds back those behind it.                                     *)
BilledInOrder ==
    [][\A b \in rows' \ rows : \A c \in BatchIDs :
           c < b /\ visible[c] = "json" => c \in rows]_vars

\* A unit that is still in a counter, in drained entries or in a file.
Held(t) ==
    \/ \E u \in UserIDs : t \in counters[u]
    \/ t \in EntryUnits
    \/ \E b \in 1..Len(batches) :
          t \in batches[b].units /\ (visible[b] # "none" \/ durable[b] # "none")

\* A unit in a batch that Save reported as stored and List will find.
Stored(t) ==
    \E b \in acknowledged :
        t \in batches[b].units /\ visible[b] = "json" /\ b \in flushed

LedgerPlace(t) ==
    CASE t \notin produced -> "fresh"
      [] \E b \in rows : t \in batches[b].units -> "billed"
      [] OTHER -> IF Stored(t) THEN "stored" ELSE IF Held(t) THEN "held" ELSE "lost"

LedgerInvoices(t) ==
    {<<b, batches[b].rate>> : b \in {c \in rows : t \in batches[c].units}}

Promise == INSTANCE Ledger WITH
               place <- [t \in Units |-> LedgerPlace(t)],
               due <- rateOf,
               invoices <- [t \in Units |-> LedgerInvoices(t)]

(* The pipeline of counters, outbox and database implements the ledger:      *)
(* through crashes, power losses and failures of every step, each unit is     *)
(* billed once at the rate of its time or never, and one that was stored is   *)
(* not lost.                                                                  *)
ImplementsLedger == Promise!LedgerSpec

(* A user with traffic in the counters of the running engine is one that    *)
(* the next drain visits.                                                    *)
TrafficIsDrained ==
    instanceUp => \A u \in UserIDs : counters[u] # {} => u \in DrainedUsers

\* Traffic that is safe: billed, or in the outbox under its final name.
Safe(t) ==
    \E b \in 1..Len(batches) :
        t \in batches[b].units /\ (b \in rows \/ visible[b] = "json")

(* While the process runs, a batch in the outbox is billed eventually: the  *)
(* reports keep replaying it until the database takes it.                    *)
BacklogIsBilled ==
    \A b \in BatchIDs :
        visible[b] = "json" ~> (b \in rows \/ pc \in {"down", "stopped"})

(* An orderly stop leaves no traffic behind that is neither billed nor in   *)
(* the outbox.                                                               *)
StoppedIsSafe == pc = "stopped" => \A t \in produced : Safe(t)
=============================================================================

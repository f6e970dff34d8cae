# A TLA+ model of vlesshappy

vlesshappy runs one VLESS/REALITY node for a panel: it embeds Xray-core, loads
users and policies from the panel's MySQL database, enforces them on every
session, counts traffic and bills it exactly once. This directory models the
three parts of it that are hard to test: the **session registry**, which
goroutines of Xray and the main loop use concurrently; the **accounting path**
from traffic counters through a file outbox into the database, which has to
survive crashes; and the **authorization path** from the panel's tables to
Xray's users and the registry, which fails, rolls back and restarts. Two
smaller modules treat the policy rules and the configuration as pure functions.

## 1. The system

| Component (source) | State | Operations | Talks to |
|---|---|---|---|
| session registry (`internal/session/registry.go`) | users and limits of the installed snapshot, leases, session/source/handshake counters, limiters | `AcquireHandshake`, `Open`, `BindInterrupt`, `Rebind`, `Wait`, `lease.Close`, `Update`, `RevokeUsers`, `Close` | called by Xray's hooks from many goroutines, by `Engine.Apply`/`CloseAndDrain` from the main loop; calls interrupt callbacks after unlocking |
| Xray hooks (`vendor/.../sessioncontrol`, `app/dispatcher`, `common/mux`) | the process-wide controller, links, Mux carriers, XUDP sessions kept one minute | dispatch, bind, rebind, close | registry |
| engine (`internal/xrayadapter/engine.go`) | Xray instance, credential table, per-user counters, `retired` users, snapshot | `Start`, `Apply`, `Drain`, `Restore`, `CloseAndDrain` | registry, Xray stats and user manager |
| outbox (`internal/accounting/outbox.go`) | directory of immutable batch files | `Open`, `Save`, `List`, `Remove`, `Size` | file system |
| database (`internal/database/mysql.go`) | panel tables, `vless_traffic_batches` | `LoadSnapshot`, `ApplyBatch`, `ReportTelemetry` | MySQL |
| lifecycle (`internal/lifecycle/run.go`) | engine, store, last authorization | `bootstrap`, `report`, `refresh`, `reload`, `persist`, `replay`, `shutdown` | everything above, from one goroutine |
| policy, model, config | none | parsing, matching, hashing, validation | pure |
| panel overlay, migrations, command line, fault proxy, packaging | - | - | outside the node's core |

What is hard, and what makes each part correct:

* **Registry.** `Open` drops the mutex to resolve a name and decides again
  later; snapshots arrive at any moment; a callback may be bound before or
  after the revocation it should serve; XUDP leases outlive their carrier.
  Correct means: an unrevoked session is authorized by the *current* snapshot;
  limits hold; every slot that is taken is given back once; revoked sessions
  end.
* **Accounting.** Counters are swapped while sessions run; a batch passes four
  system calls, a commit and a removal, and the process or the machine may stop
  between any two of them; every error path must put traffic back exactly when
  it was not published. Correct means: nothing is billed twice or at another
  rate; what is acknowledged stays until it is billed; the backlog is billed,
  in order; an orderly stop loses nothing.
* **Authorization.** A snapshot is read with two queries outside a transaction;
  `Apply` edits Xray's users one at a time while clients authenticate, and
  undoes that one at a time when an edit fails; a full reload closes one
  registry and opens another. Correct means: Xray's table, the snapshot and the
  registry agree whenever no edit is under way; nobody holds a session the
  registry would refuse; a revocation arrives at every leased session; a node that is cut off stops.

The full list of hazards, with lines and the properties aimed at them, is in
`PROJECT.json`.

## 2. Modules

| Module | Models |
|---|---|
| `SessionRegistry` | the registry; one action per critical section of `Registry.mu` |
| `AdmissionGate` | abstract specification of the registry: the set of permitted sessions |
| `MCSessionRegistry` | snapshot families and the symmetry of openers for TLC |
| `SessionRegistryProofs` | theorems about `SessionRegistry`: types, policy, counters, interrupts |
| `AdmissionGateProofs` | that `SessionRegistry` implements `AdmissionGate` (extends `SessionRegistryProofs`) |
| `ConnectorProofs` | theorems about source counters and connector limits (extends `SessionRegistryProofs`) |
| `Outbox` | the outbox directory, as system calls see it and as the disk has it |
| `BillingDatabase` | `ApplyBatch` (extends `Outbox`) |
| `EngineCounters` | counters, sessions and retired users of the engine (extends `BillingDatabase`) |
| `Lifecycle` | the main loop composing the three modules above with crash and power loss |
| `Ledger` | abstract specification of the accounting: where each unit of traffic is |
| `MCLifecycle` | snapshots and symmetry for TLC |
| `LifecycleProofs` | theorems about `Lifecycle`: all its invariants, and that it implements `Ledger` |
| `CredentialTable` | `Engine.Apply` with its rollback, the session controller, and connections that outlive both |
| `AuthRefresh` | the panel, `LoadSnapshot`, `refresh` and `reload` (extends `CredentialTable`) |
| `MCAuthRefresh` | contents of the panel for TLC |
| `AuthRefreshProofs` | theorems and proofs about `AuthRefresh` |
| `PolicyRules` | the rules of `internal/policy` as pure operators |
| `PolicyRulesProofs` | that they do what the rules say |
| `Configuration` | defaults and validation of the configuration's numbers, with its two theorems |

### SessionRegistry

`installed` is the snapshot in force (`users`, `nodeSpeed`, `nodeConnectors`);
`leases` holds the lease structs that somebody still references, `sessions` the
keys of `Registry.sessions`; `sources`, `total`, `perUser` and `handshakes` are
the counters, with an absent key as 0. Rule lists are the sets they denote, a
request carries the addresses its target resolved to, a limiter is its rate and
the installation that created it, so that two limiters of the same rate are
still different objects.

* `AuthorizeTarget` and `OpenAdmit`/`OpenReject` are the two critical sections
  of `Open`; other actions interleave. An opener is a goroutine of the VLESS
  inbound or of Mux; it has given its handshake slot back before it opens.
* `Update` installs a snapshot, revokes by policy and then by connector limit
  (`enforceConnectorsLocked`), and collects callbacks; `RunCallback` runs them
  after the unlock. `UpdatePanic` is the run-time panic of `ordered[limit:]`.
  `MainLoopFree` says that one goroutine calls `Update`, `RevokeUsers` and
  `Close`, and that `Apply` is not called after `CloseAndDrain`.
* `BindInterrupt` interrupts at once (`lateCallbacks`) when the lease was
  revoked before.
* `LeaseClose` is `lease.Close` under its `sync.Once`. An unrevoked XUDP lease
  may stay referenced by Mux (`XUDPManager`) after it was closed, and `Rebind`
  does not look whether it is still in the registry; `Forget` ends that.

Left out: the `rejected` tallies, `Online` and `Metrics` (reads), and `Wait`,
which blocks a copy on the limiters and changes nothing in the registry.

### Outbox, BillingDatabase, EngineCounters, Lifecycle

Traffic is a set of indivisible `Units`, so that double billing and loss are
visible per unit; uplink and downlink are not told apart. A batch has size one,
and `OutboxMax` is the byte limit in batches. `visible` is the directory as
system calls see it, `durable` what is on the disk, `flushed` the files whose
content is; `PowerLoss` may keep the old or the new entry of each file.

`Lifecycle` runs the main loop with a program counter `pc` and the function it
is in (`job`): boot, report, apply (targeted reload), restart (full reload) and
shutdown; drain, persist and replay are shared. Every system call and every
transaction is a step of its own, between which sessions produce traffic and
`Crash` or `PowerLoss` may strike. `drainLocked` is modelled user by user, with
the swap of a counter and the later `HasUserSessions` of a retired user as two
steps, and `DrainFails` where it returns an error in the middle (a negative
counter) and drops what it had taken. The constant `Faults` selects which
failures an instance may suffer: `crash`, `power`, `database` (failed
transaction, or a commit whose answer is lost), `disk` (each hooked system
call, and reading the outbox for its size), `close` (error of `instance.Close`), `apply`, `start`, `tail` (a copy
that still counts after `Close`) and `counter`.

`Ledger` forgets all of this: a unit of traffic is fresh, held, stored, billed
or lost, and the only moves are fresh to held, held to stored, held or stored to
billed (once, at the rate it flowed under) and held to lost. `LedgerPlace` and
`LedgerInvoices` are the refinement mapping; `ImplementsLedger` is a property of
`billing_faults`. A unit counts as stored only while a batch that `Save`
acknowledged is readable *and* flushed, so a loss after acknowledgement, a
second invoice and a wrong rate are all steps `Ledger` does not have.

Left out: what an XUDP session still receives after its lease was closed is
counted by Xray, while `Traffic` asks for a session of the user.

Batches are numbered in the order they are created; that file names sort in
that order (`First`) holds as long as the wall clock does not go backwards.

Xray itself, MySQL's atomic commit and the file system are external: modelled
from how the code uses them.

### CredentialTable, AuthRefresh

A UUID is computed from a user's id and password, so a credential is that pair.
`table` is Xray's validator, `snapshot` the engine's, `policy` the registry's
copy of the users. A *link* is a connection whose request header was accepted;
it may be a Mux carrier and open sessions long afterwards. `Open` is one step
here: that the registry decides as if in one step is what `ImplementsGate`
shows.

`Apply` is a step per `RemoveUser` and `AddUser` (`ApplyRemove`, `ApplyAdd`), in
the order of ids, then `ApplyPublish` for `sessions.Update` and the exchange of
the snapshot; `ApplyFails` starts `rollbackUsers` (`UndoAdd`, `UndoRemove`),
which goes on after an error. `CloseSessions`, `Unregister`, `Persist`,
`Register` and `Listen` are the steps of a full reload, with the way back to the
previous snapshot when saving or starting fails. `goal` tells a targeted reload
from a restart, a step back and the end. `sessions` are the ones with a lease,
and `SessionsAuthorized`, `RotationRevokes` and `RevocationArrives` speak of
these. Outside them are sessions opened without a controller (`uncontrolled`;
see `uncontrolled_session`) and XUDP sessions that Mux keeps for a minute after
the carrier's end closed their lease, which `SessionRegistry` models. Traffic is left to `Lifecycle`: saving
a batch is one step that succeeds or fails.

`AuthRefresh` adds the panel. `QueryNode` and `QueryUsers` are the two queries;
the panel may change between them, and the second uses class and group as the
first read them. `age` counts clock ticks since the last good snapshot and
decides in `RefreshFailed` whether to give up; as in the code, nobody looks at
the age unless a refresh fails. Report ticks are left to `Lifecycle`.

### PolicyRules, Configuration

`PolicyRules` keeps addresses as bits, because the questions are about prefix
lengths and IPv4-mapped addresses. `Denotes` and `DenotedPorts` say what a rule
means without any normalisation. `Configuration` has the numbers of the file;
JSON, paths and other texts are one flag.

## 3. Runs

Bounds are chosen so that each hazard happens: `MaxLeases` and `MaxInstalls`
bound leases and snapshots ever seen; `MaxBatches`, `MaxBoots` bound batches
and starts of the process; `MaxChanges` bounds changes of the panel.

| Run | Shows | Bounds |
|---|---|---|
| `registry_sessions` | `LimitsRespected`, `CountersExact`, `LivePolicyCurrent`, `NoLostInterrupt`, `TypeOK`, and `ImplementsGate`: the registry refines `AdmissionGate` | 2 openers, interchangeable, for 1 handshake slot; 2 leases against a TCP limit of 1 per user and 2 on the node and XUDP limits of 1, so that both openers can be inside `Open` for the last slot; 2 installs out of 6 snapshots that change one thing each |
| `registry_connectors` | `OldestSourcesKept`, `SourcesExact`, `CountersExact`, `RevokedSessionsEnd` | 1 opener, 3 sources and 3 TCP leases of one user at once; effective connector limits 3, 2 and 1, the last with a disconnected source |
| `billing_faults` | `NeverBilledTwice`, `InOneBatch`, `FrozenRate`, `StoredUntilBilled`, `BilledInOrder`, `TypeOK`, and `ImplementsLedger` | all 9 faults, 2 units, 3 batches (one more than units, for a batch saved again), outbox of 2, 2 boots; unit symmetry |
| `billing_liveness` | `BacklogIsBilled` | faults of database, apply and start; as many batches as units, so that no bound stops the loop |
| `authorization` | `TableExact`, `OnlyFaultsFail`, `SessionsAuthorized`, `RotationRevokes`, `RevocationArrives`, `StaleStops`, `TypeOK` | 2 users, 2 passwords, 1 link, 2 changes of the panel, all 5 faults, a snapshot lives 2 ticks. One link suffices because links do not interact; two changes are needed to change the panel between the two queries of the refresh that follows the first |

The registry runs have one user, so the node's session limit is never the only
one that refuses; `SessionLimits` proves both limits for any number of users.
`SourcesExact` and `OldestSourcesKept` are checked without XUDP, because a lease
rebound after its close breaks the source counters (`registry_rebind`).

Deadlock is not checked: a closed registry, a stopped process and an exhausted
bound are legitimate ends.

Every property of a passing run has a mutant in `PROJECT.json`: an operator in
the module (marked `Mutant:`) that changes one definition the way a slip in the
code would, under which the run must fail.

### Disagreements between code and documents

These runs end with a counterexample; `PROJECT.json` quotes the documents.

| Run | What TLC finds |
|---|---|
| `registry_panic` | `enforceConnectorsLocked` decides on all counted sources, slices the live ones only: with live < limit < counted, `Update` panics while holding the mutex. One snapshot suffices: it changes the policy of a user with two sources, which revokes both, and makes the limit 1 (live 0, counted 2) |
| `registry_live_sources` | a source held only by a revoked, still closing session skips the connector check of `Open` |
| `registry_rebind` | a lease closed by the end of its carrier is rebound within the retention minute and leaks a source count |
| `loss_retired` | a retired user's counter is found empty, then traffic arrives and the last session ends, and the user is forgotten: the traffic is never drained, with no fault at all |
| `loss_capacity` | `shutdown` persists before it replays: at the limit the last entries are refused and lost |
| `credential_rotation` | a connection accepted with the old UUID opens sessions after the rotation is in force, because the registry knows users by e-mail |
| `uncontrolled_session` | between `unregister` and the next `Register` a connection that outlives `instance.Close` opens a session without any decision |

`StoppedIsSafe` is also violated without a full outbox when `instance.Close`
returns an error during a full reload (`Faults = {"close"}`): `reload` then
drops the entries that came with the error.

Three smaller observations. `ParseIPRules` accepts a mapped prefix shorter than
96 bits and makes an invalid prefix of it, which blocks nothing
(`ShortMappedPrefixIgnored`). The age of the snapshot is compared only after a
failed refresh, so the bound is passed by up to one refresh interval and one
query timeout. And docs/05 wants a stop when a batch cannot be saved; the
rollback of a full reload listens once more before the loop ends.

### Fairness

`registry_connectors` (without symmetry, which is not sound for liveness): the
goroutine that opened a session binds its interrupt
next, callbacks are run by a plain loop, and the copies of an interrupted link
fail and close the lease. These are weak fairness of `BindInterrupt`,
`RunCallback`, `RunLateCallback` and the close of an interrupted lease; opening,
updating and an unprompted close are not fair.

`billing_liveness`: the main loop goes on (weak fairness of its steps); Go's
`select` chooses at random among ready channels, so a report tick that is ready
again and again is taken (strong fairness of `ReportTick`); and a database that
is asked again and again takes a batch some day (strong fairness of
`ReplayCommit`). Nothing makes a process boot again.

`authorization`: tickers fire and the main loop goes on (weak fairness of
`Refresh` and `Reload`), the clock ticks, and a database that can be reached
again and again answers each of the two queries some day (strong fairness of
`QueryNode` and `QueryUsers`). Nothing forces the database to be reachable, the
panel to change, or a link to end; faults may repeat for ever, in which case
the node stops, and that also ends the sessions.

## 4. Proofs

`SessionRegistryProofs` proves, for every set of users, sources, snapshots,
goroutines and every limit:

* `TypeCorrect`: `Spec => []TypeOK`.
* `PolicyCurrent`: `Spec => []LivePolicyCurrent`. Inductive together with
  `TypeOK`: `OpenAdmit` decides on the installed snapshot; `Rebind` checks the
  disconnect list; `Update` revokes every session whose answers could differ
  (`UpdateKeepsCurrent`, which rests on what
  `userPolicyWithoutDisconnectChanged` leaves equal); a lease that left the
  registry is out of its reach, which is why `TypeOK` says that a revoked lease
  that is still referenced is in the registry.
* `CountersAreExact` and `SessionLimits`: `CountersExact` and `LimitsRespected`.
  The limits do not follow from the checks alone: the inductive invariant
  `CountInv` says that each counter is the cardinality of what it counts and
  that each counter is bounded. `Decrement`'s floor is shown not to matter.
* `InterruptsNotLost`: `Spec => []NoLostInterrupt`, inductive with `TypeOK`
  because the main loop collects callbacks only when its last ones have run.

`AdmissionGateProofs` proves `GateImplemented`: `Spec => ImplementsGate`. The
invariant is `TypeOK`, `LivePolicyCurrent` and the bound on lease ids. Each
operation is one move of the gate or none: `OpenAdmit` admits, a `Rebind` of a
registered lease moves a session, `Update` installs, `Close` shuts, whatever
takes sessions away drops a subset. `LivePolicyCurrent` in the *next* state is
what shows that the sessions `Update` leaves are permitted by the new snapshot.

`ConnectorProofs` is about the counters that connector limits are decided on:

* `SourcesExactUnlessStray`: `SourcesExact` holds in every behaviour in which no
  lease is rebound after its close. The hypothesis, `[][~StrayRebind]_vars`,
  cannot be dropped: `registry_rebind` is the counterexample, and the proof shows
  that it is the only step that spoils the counters.
* `OldestKeptUnlessStray`: `OldestSourcesKept` under the same hypothesis. It
  splits on `Overfull`: a user who is looked at keeps `OldestIn`, the sources
  with fewer than `limit` older ones; of these there are at most `limit`
  (`OldestAtMost`), and a source with `limit` older ones has `limit` of them
  before it (`OldestAtLeast`). A user who is not looked at has few counted
  sources, and by `SourcesExact` no others.
* `SourcesExactWithoutXUDP`, `OldestKeptWithoutXUDP`: without XUDP requests, as
  in `registry_connectors`, there is nothing to rebind and no hypothesis on the
  behaviour is left.
* `LiveSourcesLimited`: what is left of `LiveSourcesWithinLimit`, which
  `registry_live_sources` refutes. It holds in every behaviour in which no `Open`
  or `Rebind` joins a source that only closing sessions hold (`JoinsClosing`) and
  no closed lease is rebound; so these two are all a correction has to exclude.
  The proof follows the counters: a source that is not live is then not counted,
  and the checks of `Open` and `Rebind` (with the source that a move gives up)
  let it in only below the limit; `Update` is the first half of
  `OldestSourcesKept`.
* `PanicOnlyAfterRevocation`: the panic of `registry_panic` needs a session of an
  over-limit user that was revoked earlier or by the first half of the same
  `Update`, and still counts.

`LifecycleProofs` proves, for every set of users, units, rates and snapshots,
every choice of faults, and any number of batches and boots:

* `TypeCorrect`, `StoredUntilBilledAlways`, `NeverBilledTwiceAlways`,
  `InOneBatchAlways`, `FrozenRateAlways`: the invariants of `billing_faults`.
* `BilledInOrderAlways`: the action property `BilledInOrder`.
* `LedgerImplemented`: `Spec => ImplementsLedger`.

None of the invariants is inductive, and the inductive one, `IInv`, has three
layers. `Types` is `TypeOK` with `SavingExists`, because a step of `Save` names
the last batch. `StorageInv` describes the disk at each place of `Save` and
`replay`: the batch being saved holds the drained entries and has no final name
before its rename; replay works through exactly the files there are and removes
one only when its row exists (`ReplayInv`); a file that only the disk still has
was billed (`RemovedIsBilled`), so that a power loss brings back nothing that
was not; an acknowledged batch is billed or survives a power loss
(`StoredDurably`, stronger than `StoredUntilBilled`). The third layer follows the
units: `OneHolder` (a unit is in one counter, one drained entry or one published
batch), `OnlyProduced`, `RateInv` with `ApplyKeepsRate` (a reload that keeps
counters keeps the rate, so everything held has one rate), and `BilledInv` (a
unit was added once if a row has it and never otherwise). A batch whose save
failed before the rename keeps its units in `batches` while they go back to the
counters; that is why `OneHolder` speaks of published batches only, and why
`InHand` ends at the rename.

The steps are grouped by what they do instead of being taken through each layer
one by one: `StepKinds` shows that a step either touches the storage or leaves
it alone; `HandsStep` that traffic flows, is taken from a counter, is put back
or is dropped; `BatchesStep` and `RowsStep` that only `Save` creates a batch and
only a commit a row. `LedgerFlow`, `LedgerStore`, `LedgerBill` and `LedgerLose`
map these groups to the moves of `Ledger`.

`AuthRefreshProofs` proves, for every set of users, passwords, links and panel
contents, any number of changes and every choice of faults:

* `RefreshTypeCorrect`, `TableStaysExact`, `ApplyFailsOnlyByFaults` and
  `LeasesAreAuthorized`: the four invariants of `authorization`.
* `RotationAlwaysRevokes`: the action property `RotationRevokes`.

They rest on one inductive invariant, `Inv`. `StageInv` says for each place of
the main loop what agrees with what; its core is `Edited`: in the middle of
`Apply` the table is the old snapshot without what was removed and with what was
added, and `Halfway`: nothing is added before all that must go is gone. From
these and from one credential per user in each snapshot it follows that the
table never has two credentials of a user and that the rollback, in its own
order, meets exactly the users it expects. After a step of the rollback failed,
`Edited` is lost and only type correctness is kept. Sessions are empty whenever
no registry is open (`NoSessions`), which is what makes `Register` harmless.

`PolicyRulesProofs` proves for all rules, ports and addresses that ports and
disconnected sources are matched exactly, that network rules never block too
much, and that they block exactly what they say unless an IPv6 rule covers the
whole mapped range (`IPRulesExact`, `ShortMappedPrefixIgnored`).
`Configuration` proves that an accepted configuration meets the assumptions of
the models, and that the defaults are accepted.

The assumptions are the ones named in the modules: snapshots and panel contents
are well typed, `UserIDs`, `SourceIPs` and `Openers` of the registry are finite,
limits and ages are positive as `config.Validate` demands
(`LoadedMeetsAssumptions`), and the bounds on leases, installs, batches, boots
and panel changes are natural numbers, of any size.

Only model-checked: the liveness properties `RevokedSessionsEnd`,
`BacklogIsBilled`, `RevocationArrives` and `StaleStops`, which are out of the
prover's reach. Every invariant, action property and refinement of a passing run
is proved; `SourcesExact` and `OldestSourcesKept` under the hypothesis above.

## 5. Not modelled, and the plan

Not modelled: command line, packaging, panel overlay, migrations, telemetry
(errors are only logged), strict JSON and secret files, REALITY keys and the
text of `BuildConfig` (no state, or outside the node), the state-directory lock,
the amounts and rounding of `billed`, and Xray-core beyond the hooks.

Next: positive theorems beside the remaining runs that end with a
counterexample, as `LiveSourcesLimited` is to `registry_live_sources`:
`StoppedIsSafe` for an outbox below its limit and a `Close` that does not fail,
`TrafficIsDrained` while no retired user is forgotten, `CredentialCurrent`
while no connection outlives a rotation, `EverySessionControlled` while none
outlives `instance.Close`.

# KernAid: models, model checks and proofs

KernAid is a repair platform: it observes a machine, diagnoses it, plans a repair, has
it approved, executes it, verifies the result and can roll it back. What makes a repair
trustworthy is the durable record behind it: the original bytes are in the Repair Vault
before the target is touched, one repair is open at a time, the right to write is handed
out once per boot, and whatever a crash interrupts is settled before anything else
happens. The same questions come back in the journal under the Vault, in the fleet's
update of a resident device and in the work orders a control plane hands out. This
directory models these parts in TLA+, checks them with TLC and proves their safety with
TLAPS.

## The system and its parts

| Part | State | Operations | Interacts with | Hard behaviour | Model |
| --- | --- | --- | --- | --- | --- |
| Repair Vault store (`crates/rescue-secrets/src/repair_store.rs`) | encrypted event journal, its replayed state (reservations, transactions, rollbacks, tombstones, clock), backup files, checked-out capabilities | reserve, resume, persist, cancel, retire, consume a write lease, resolve; begin, lease and resolve a rollback; open with reconciliation; compaction | called by the rescue worker; appends to the secure journal | crash or power loss between intent, file operation and completion; limits; one lease per boot | `RepairEvents`, `RepairCompaction`, `RepairStore`, and `RepairVault`, what it promises |
| Journal generations (same file) | database, key and anchor under active, staging and backup names, PREPARED/COMMITTED marker, log files | stage, prepare, move, verify, commit, clean up; recover at open | inside a compaction and inside open | crash between any two renames, a recovery that is itself interrupted | `JournalSwap`, `JournalSwitch` |
| Secure journal (`crates/storage`) | hash chain in SQLite, key, anchor in a secret store | initialize, recover an initialization, open, verify, append | used by the store, Core and the fleet journals | neither store commits together with the other: entry committed and anchor not stored, five windows of an initialization, an older copy put back | `SecureJournal` |
| Rescue daemon and worker (`rescue_daemon/`) | service state, lifecycle marker, one worker process with the decrypted device, one credential lease, a thread per connection | unlock, lock, read and change operations, borrow a credential, revoke it, fault, stop, shut down, start | clients and brokers on one side, the worker, the store and the device on the other | a lock or a stop against a credential on its way out, deaths of either process between arming and attestation, a worker that answers late, processes a borrower leaves behind | `VaultSupervisor` |
| Repair service and executor (`crates/broker`) | prepared, approved and executing plans, target mount | prepare, approve, execute, cancel, roll back, recover at start | Vault client, write helper, target | crash after the target was written, deadlines, the lease already used, an edit by somebody else, answers lost after their effect | `RepairExecution` on `RepairVault` |
| Core sessions (`crates/core`) | sessions, staged candidates, approvals | stage, approve, consume | desk, broker | stale approvals | not modelled |
| Resident update staging and activation (`crates/fleet-resident-update`, `crates/update-client/src/staging.rs`) | two system slots, firmware default and one-shot entries, anti-rollback checkpoint, staging checkpoint and receipt, candidate, audit receipt, activation state, archived receipts | stager: pull, admit, stage, leave a candidate; activator: prepare, arm, observe, promote, roll back, finalize | the two executables share a lock and the state directory; `bootctl` | power loss between a write and a boot selection, retries of the finalization, slots reused while an old binding is still valid | `ResidentDevice`, `UpdateStager`, `BootActivator`, `ResidentUpdate` |
| Resident work orders (`crates/fleet-resident-work-orders`) | journal stage of one work order, receipt checkpoint | claim, authorize, prepare, execute, submit | control plane, local handoff | lost and late messages, lease expiry, a death between collecting and recording, clocks of different resolution | `WorkOrders` |
| Control plane (`services/fleet-control-plane`) | work orders, claims, retained responses, receipts; enrollment, inventory, licences, update intents | signed exchanges, operator requests | residents, consoles | a death between the two transactions of a request, retention, expiry | the work-order side in `WorkOrders` |
| Fleet runtime, sync, client, coordinator | enrollment, inventory | signed exchanges | control plane | retries | not modelled |
| Agent gateway (`services/agent-gateway`) | session operation queues | enqueue, run, audit | desk, providers | queue ordering | not modelled |
| Policy, entitlements, identity, evidence, report and protocol schemas | none | validate, encode | everything | none | not modelled: pure validation |
| Desk, consoles, media creator, image build, site, diagnostic packs | user interface or build products | | | | not modelled |

What makes each of them correct:

* store: the journal always replays; the files are what the journal says; one unresolved
  repair; one lease per boot; a decided resolution is recorded and final; a retried
  request allocates nothing twice; recovery always has room, always ends and always
  brings the store back;
* generations: no window loses the current generation; the swap is atomic to its users;
* secure journal: an acknowledged entry is never lost, the anchor never runs ahead of the
  chain and lags by at most one entry, and no interruption locks a journal for good;
* daemon: while the Vault is decrypted or a credential is outside, the marker says so to
  the next daemon; locked means closed and returned; a fault is contained and stays until
  the reboot;
* executor: the target is written only with a durable backup and a lease, what somebody
  else wrote stays, a transaction is resolved as what is on the disk, and what a crash
  interrupts is settled before the next request;
* work orders: an order is executed under one lease only, what is recorded as done was
  done, a claim is given one lease however often it is delivered, and the device comes
  free again;
* update: what is staged is intact, the default entry names a slot that works, the slot to
  fall back to is left alone, the recorded outcome is the real one, no older release
  comes back, and a recorded activation ends.

## Modules

`RepairEvents` holds the recovered state of the journal and one operator per event of
`apply_repair_event`. An event whose guard fails makes the journal unreadable in the code
(`CorruptJournal`); here it sets `verdict`. Maps are total functions with an absent value,
and identifiers are positive numbers with 0 for none.

`RepairCompaction` holds the snapshot a compaction writes (`compaction_events`), the
replay that reads it back, the retention of tombstones and the condition under which a
compaction is due.

`RepairStore` is the state machine. `disk` is what the durable journal replays to,
`events` its length, `file` and `stable` every backup file as a process sees it and as it
is on stable storage, `handle` and `step` the store handle and the next durable step of
the operation in progress. Each mutating handler is an action that appends the intent
under the handler's guards, followed by one action per file operation (create, allocate,
write, flush, fsync, unlink, directory fsync) and one for the completion. `Open` and the
reconcile actions are `open` with `reconcile_pending`, `validate_layout` and the
compaction it may call. The faults are `OperationFails` (any operation reports an error;
an append that reports an error although its entry is durable is the append followed by
this action), `Crash` (the process ends, the page cache survives), and `Reboot` (power
loss: every file becomes what a process saw, what was synchronized, or a mixture; the
Vault may come back attached to another parent). `issued`, `txLeases`, `rbLeases` and
`lost` are history variables. A retry that is answered from the recorded state changes
nothing and is not an action.

`RepairStoreInvariant` holds the inductive invariants of the store, `RepairStore_proofs`
the proofs about it, and `RepairVault_proofs` the refinement of `RepairVault` and what a
compaction's snapshot replays to. The other
modules with proofs, `JournalSwap_proofs`, `SecureJournal_proofs`,
`RepairExecution_proofs`, `WorkOrders_proofs`, `VaultSupervisor_proofs` and
`ResidentUpdate_proofs`, each extend the module they are about and begin with its
inductive invariant.

`RepairVault` is what the store promises to its user: one record per reservation and one
atomic step per request, at most one unresolved repair or rollback, final outcomes, one
lease per transaction and boot. `RepairStore!StoreIsVault` states that the store, with
its journal, files, reconciliation, compaction and crashes, implements it; the mapping
(`VaultView`) reads the replayed state, counts an operation as done from the entry on
that decides it, and hides reservations whose intent is pending. `RepairExecution`
builds on the promise instead of the store.

`SecureJournal` is the layer under the store. `db` is the committed database, `key` and
`anchor` lie in the secret store, `step` is the next durable write of an opening or
appending process (`open` and `poisoned` are states of a handle), `trusted` the head a
handle keeps. An entry hash covers the chain before it, so a head is modelled by the
chain itself: two heads are equal exactly if the chains are. `copy` is an older database
file that somebody may put back; `acked` and `replaced` are history variables.

`RepairExecution` is the repair service with its executor, for the exact replacement of
one file (fstab or crypttab, which share this code path). `dir` is the target directory
with the file and the two working names of each repair; `possible` holds the directories
a power loss may leave: a write adds one, an fsync or unmount leaves only the current
one. `service` is the public phase and receipt, `worker` the one job of the engine and
its next step: approve, persist, lease, writable mount, the file operations of
`apply_exact_replacement` and `restore_exact_backup` one by one, unmount, resolution.
Recovery looks the open transaction up and classifies the target as before, after or a
third state. The helper consumes the write lease over a connection of its own and so
advances the Vault's state version; every job asks for the transaction again after that,
except the recovery of a repair (`NeverRefreshes`), whose resolution the Vault therefore
refuses (`ResolveStale`). Other causes of a stale version are failing steps. Faults are failing steps (with or without the effect of a Vault call whose
answer is lost), deaths, power losses (the next boot) and edits by somebody else while
the service has no mount.

`WorkOrders` puts the engine of a resident Linux device and its diagnostic handoff
against the work-order tables of the control plane. `journal` is the device's durable
stage with the signed bytes it sends until they are answered, `record` the execution
record of the handoff; `orders`, `claims`, `retained` and `sequence` are tables of the
control plane. A request reaches the control plane from the call in progress or, when
the call was given up, later (`late`); the control plane may die between committing the
transaction and committing the response. `clock` counts ticks: the control plane stamps
with ticks, the device with whole seconds, which is `Second` ticks. Both read the same
clock; a claim or result is refused when its stamp is off by more than `ClockSkew`.

`VaultSupervisor` is the rescue daemon. `svc` is the `ServiceState` under its mutex
(`origin` says that a transition is in progress, `busy` that a provider operation is),
`marker` the file in `/run` and `armed` what the daemon believes of it, `worker`, `inbox`
and `replies` the worker process and its channel, `mapping` the decrypted device, `lease`
the one entry of the lease registry, `client` and `holders` the peers' processes and which
of them hold a credential. `thread` says which block each handler and the main loop run
next. A block the code runs under the `lifecycle` mutex is one step, and so is each wait
and each call to the worker between two such blocks; a stop or an exit of the client that
a block notices halfway (`StoppedAfterArm`, `ClientGoneAfterArm`) is part of its step. A
deadline may pass whenever the awaited event has not happened. State versions and the
unlock rate limit only refuse, and are `Refuse`. Provider, application, fleet and repair
requests go through one dispatch path (`prepare_application_operation` to
`finish_application_mutation` and its siblings) and are the operations "mutate" and
"read". The worker may answer anything its command allows; what it says about a closed
device is not believed before the attestation. A credential leaves the daemon as a
descriptor (`send_provider_descriptor`) or, for a Codex home, as a mount in the borrower's
namespace (`MountCodexHome`, in builds with `experimental-codex-home-lease`, which the
shipped ones are: `.github/workflows/rescue.yml:206`), outside the mutex and while the
lease is only potentially issued. The mounter process is not modelled: whether it fails,
times out or succeeds, the borrower counts as a holder from the request to it on, and
loses the mount with its processes. `MountCodexHome` may be skipped, which is the
borrow of any other credential. A borrower's processes may outlive the
peer that asked (`orphans`). The marker and the mapping survive the daemon and its worker;
a reboot, which clears `/run`, is outside the model. `MCVaultSupervisor` adds the
symmetry of the clients. `crates/rescue-secrets/README.md:464-480` describes the marker
this module checks.

`JournalSwap` is the file-level swap that `RepairStore` takes for one step: `slot` says
which generation's file lies under each of the nine names, `filled` which generations
were written completely, `sidecars` which names have write-ahead log files. All files are
in one directory which the code synchronizes after every rename and unlink, so a power
loss leaves what a crash one step earlier leaves, and the model has crashes only. Log
files of the active database are left out: they are created and replayed under the same
name, and the ones a recovery creates are empty. `JournalSwitch` is the abstract promise,
one atomic switch of the current generation while no handle serves;
`JournalSwap!SwapIsSwitch` states that the swap implements it.

`ResidentDevice` holds the durable state of an A/B device: `default` and `oneshot` are the
firmware's boot entries, `image` what each slot holds (a release, the factory image, or
torn while it is written), `proven` (history) the slots that have come up with it, and
one variable for each file of the state directory. A release is its sequence number: one
manifest and one artifact per sequence, as `admit_update` enforces on the device; an
audit receipt also has the time it was signed at, which distinguishes two stagings of one
release. `UpdateStager` is one cycle of `run_once` with `ArtifactStager::stage`,
`BootActivator` is `reconcile`, `rollback` and `finalize`, both with one action for each
durable write and each `bootctl` call; `ResidentUpdate` puts them under the common lock
and adds boots, power losses and failing processes. `unit` is what systemd keeps of the
activator's unit: the starts of this window and whether it owes another. Firmware and boot loader are
external: the one-shot entry is tried once, and a trial that does not come up ends in the
default entry. The preflight of the activator, entitlement, eligibility and signatures
have no state: a negative answer is an end of the pull, a failed download or a failing
process. A boot entry picked by hand in the menu is not modelled. `ResidentUpdateInvariant`
holds the inductive invariant.

Definitions commented as faulty variants or mutants are there for the properties: each is a
plausible bug in one definition, and TLC finds the property violated when the variant
takes the definition's place.

## Runs

| Run | Shows | Bounds |
| --- | --- | --- |
| `store_safety` | the safety and action properties of the store, when a snapshot replays to the state it stands for, and that the store implements `RepairVault` | 3 identifiers and 2 drafts for 2 slots, 1 retained tombstone, window of 3 events: slots, drafts and tombstones all run out and a compaction can fail; 2 parents; 2 boots and 1 fault: every step can be followed by a crash, an error or a power loss, and recovery by a power loss; operations start below clock 10, long enough for a repair, its retirement and the next reservation |
| `store_service` | room for reconciliation, settling and reopening | the smallest journal the assumptions allow (trigger 15, limit 17), 1 identifier and 1 slot, clock 26: a repair with its rollback, both first resolved manually, fills it more than once; 3 boots, 2 faults |
| `swap` | the swap and its recovery, the refinement, and that recovery succeeds | 2 compactions, 4 faults: interrupted recoveries of interrupted recoveries |
| `secure_journal` | acknowledged entries, the anchor, reopening | 3 entries, 6 fresh identifiers, keys and entries in all, 3 faults: an interrupted recovery of an interrupted initialization is interrupted again, and an append after it |
| `repair_execution` | write authority, third states, receipts, what is on the disk, settling | 2 repairs, 2 failing steps, 2 deaths or power losses, 1 edit: a rollback of the second repair, an error in the recovery of an error, a death in the restart that follows |
| `fleet` | one lease per execution and per claim, records, completion, progress, and what ends it for good | a diagnosis and a repair, expiry at 5, leases of 3 ticks, skew 2, 2 ticks a second, 1 retained response, clock to 7, 2 claims, 2 faults: a lease runs out and its order is leased again, a claim outlives its retained response, a late request meets a later stage |
| `update` | the safety and action properties of the update, and that an activation ends, stands in one of the named states that are refused for good, or systemd has given up on the activator | 2 releases of which the second never comes up, 2 updates, 1 rollback, 2 faults, a resident stager, 4 starts in a window as in the unit: a rollback after a success, a second update into the old known-good slot, a power loss in either, all starts used up against the lock |
| `vault_daemon` | what is open or outside is marked, locked is closed, faults are contained and stay | 2 clients, 2 leases, 1 fault of the disk, the kernel, the worker or the daemon at any step, any number of requests, stops, exits and restarts: a lock against a borrow, a fault against a fault, a restart over a marker in each state |
| `full_table` | violation: a due compaction fails with every slot taken | 2 slots, 4 identifiers, no faults |
| `update_finalize` | violation: a finalization conflicts with its own receipt | 1 release, 1 fault |
| `repair_killed` | violation: an interrupted restore leaves the transaction pending for good | 1 repair, 2 deaths or power losses, nothing else fails |
| `fleet_same_cycle` | violation: a result of the cycle that claimed is refused within its lease | 1 order, no faults |

`ClockBound`, `MaxBoots`, `MaxFaults`, `MaxStops`, `MaxEdits`, `MaxGenerations`,
`MaxSequence`, `MaxSigned`, `MaxRollbacks`, `MaxFresh`, `MaxClock`, `MaxClaims` and
`MaxLeases` are bounds of the model; `MaxReservations`, `MaxReleaseTombstones`, `MaxRetained`,
`TombstoneTTL`, `CompactionTrigger` and `MaxEvents` are limits of the code (64, 2048, 64,
512, 3072 and 4096), and so are `MaxEntries` of the secure journal and
`RetainedResponses` of the control plane, while `StartLimitBurst` is a setting of the
activator's unit (4). The limits are small in the runs and arbitrary within their
assumptions in the proofs. `TriggerAssumption` states that a snapshot of a full
store stays below the trigger: 11 events for each of 64 reservations and 8 for each of
64 tombstones make 1216.

The properties, by module:

* store: `NeverCorrupt` (nothing ever appended fails replay), `FilesMatchJournal`,
  `PowerLossAloneHarmless`, `DraftReservedOnce`, `ReconciliationHasRoom`,
  `CompactionDecided` (a compaction succeeds exactly when the retained tombstones fit
  beside the settled reservations), the action properties `IntentDecides` and
  `TombstonesKept`, the refinement `StoreIsVault`, and the liveness properties
  `InterruptedSettles` and `StoreReopens`;
* swap: `GenerationSurvives`, the refinement `SwapIsSwitch` and
  `SwapRecovers`;
* secure journal: `AcknowledgedKept`, the action property `AnchorOnlyGrows` and the
  liveness property `JournalOpens`;
* repair service: `WriteAuthority`, `OpenBlocks`, `ReceiptTrue`, the action properties
  `KeepsThirdState` and `SettledOnDisk`, the liveness property `PendingSettles`;
* work orders: `ExecutedUnderOneLease`, `RecordedWasDone`, `ClaimLeasesOnce`, the action
  property `CompletedRecorded` and the liveness property `ComesFree`;
* update: `StagedIntact`, `TrialRecorded`, `OutcomeTruthful`, `DefaultProven`, the action
  properties `FallbackKept` and `NoDowngrade`, and the liveness property
  `ActivationEnds`;
* daemon: `OpenIsMarked`, `LockedIsClosed`, `CredentialLeased`, `FaultContained` and the
  action property `MarkerOutlivesFault`.

The type invariants are theorems, or part of the proved inductive invariants (swap and
daemon), and not checked again by a run. Deadlock is not checked
where the system may stop: `update` (after a rollback to a slot that was
overwritten since, the machine may not come up at all), `secure_journal` (a journal that
was put back may be refused for good), `repair_execution` (a receipt stays on display
until a restart) and `fleet` (the clock ends).

Fairness. The code runs an operation to its end unless it fails or the process ends, so
the steps of an operation, of an open and of a swap are weakly fair. The worker opens the
store for a request and drops it afterwards, which makes `Open` and the drop of a failed
handle weakly fair. Requests, crashes, failures and reboots are not fair, and their bounds
make them finitely many, as liveness needs: a machine that crashes during every recovery
never recovers. For the update, a started process takes its next step (weakly fair). A
start of the activator's unit is weakly fair while systemd owes one: at the boot, after a
failure and while the candidate's file exists, and never more than `StartLimitBurst` times
in a window (`Due`). The start is made whether or not the lock is free, and against the
stager it fails (`StartBusy`); restarts are 15 s apart and the window is 300 s, so failing
starts use the limit up, and only a run that ends well, a rollback, or a boot gives new
ones (`WindowPasses`, which nothing forces to happen). An armed device is restarted some
day, which the operator does, strongly fair because the stager and the activator come in
between. Pulls, rollbacks, power losses and failures are not fair. In
the secure journal the steps of an opening are weakly fair while the journal is not open,
since every start of the product opens it, and so are the anchor after a commit and the
drop of a poisoned handle; appends are not. In the repair service the steps of the worker
are weakly fair together with its failures (its calls return by their deadlines, in one
way or the other), and the start is, by socket activation; requests, deaths and edits are
not. The daemon is checked for safety only: the graph of two clients is too large for
TLC's liveness check. In the fleet the engine's loop and the handler of the call in
progress are weakly fair; operators, late messages and the clock are not. That the clock
may stand still is what gives `ComesFree` its meaning: with time alone every claim would
become too old and every lease run out.

## What the violations show

* `full_table`: a compaction restores the settled reservations before the tombstones, and
  a tombstone is restored through a reservation. With every slot taken there is none left,
  the snapshot does not replay, and since `open` compacts a journal that is due, the store
  stays closed. A comment says tombstones are independent of the slots. The passing run
  `store_service` has a slot for every tombstone. `CompactionDecided`, checked by
  `store_safety` and proved, says that this is the only case in which a compaction fails.
* `update_finalize`: the receipt carries the boot that writes it, so a finalization that a
  restart interrupts finds its own archived receipt in conflict, for good. The same
  formula fails without any restart when a release that fell back is offered again: a
  fallback removes everything the stager looks at, the release is staged and tried again,
  and the archive has one name for its fallback, with the first boot's bytes in it.
* `repair_killed`: the restore file has a fixed name, and one that exists is accepted only
  as an exact copy of the original. Power is lost after the exchange, and again while the
  recovery writes that file; what is left of it nothing removes, so every later restore of
  this repair fails. The recovery then tries to record the repair as manual, but carries
  the Vault's state version from before its own write lease and is refused, and later
  starts in this boot are refused the lease: the transaction stays pending and the service
  down, in this and in every later boot. The target and the backup are whole.
* `fleet_same_cycle`: a result carries the time its cycle began, cut to whole seconds, and
  the lease the time the claim arrived, in milliseconds. When claim, execution and result
  fall into one cycle the result is older than its lease and refused, although it arrives
  within it; the device keeps the signed bytes, so the refusal repeats until the lease has
  run out.

Other disagreements met while modelling, visible in the models as exceptions of the
properties:

* after a process crash, reconciliation finds the bytes of a backup in the page cache and
  commits the completion without an fsync (`repair_store.rs:2755`). `FilesMatchJournal`
  excepts identifiers in `lost`, those whose completed operation a later power loss hit
  before its file was on stable storage, and `PowerLossAloneHarmless` shows that this
  needs a process crash or a failed operation as well;
* recovery of a committed swap opens the backup database to verify it; a crash there
  leaves log files which the same branch refuses the next time (`repair_store.rs:5265`).
  A second way there is an error in the verification of a prepared swap after a crash in
  the same verification. Nothing is lost, the store is only never opened again;
* the same stale state version refuses the resolution of a boot recovery whose restore has
  succeeded (`rescue_fstab_executor.rs:1314`, `ResolveStale`). A later start finds the
  original in place and records the rollback without a lease. `PendingSettles` excepts a
  transaction whose lease this boot has used, and so the time up to that start;
* the resident stager keeps the lock from its start on, asleep or awake (`linux.rs:163`),
  the activator only tries it (`linux_activation.rs:79`), and the two units are not
  ordered. When the stager comes first in the trial boot, the four starts of the activator
  fail and systemd makes no other in that boot, so the target is not promoted and the next
  restart leaves it, although `deploy/fleet-resident-update/README.md:78` says "After a
  target boot it promotes that target". `ActivationEnds` excepts this state as `Starved`;
* the known-good slot of the last success is where the next release is written, and
  `rollback` selects it all the same (`activation.rs:629`). `DefaultProven` therefore
  speaks of the time before the first rollback only;
* a resolution that the Vault records although both its answer and the status after it are
  lost is shown as failed; `ReceiptTrue` speaks of receipts that name a transaction, and
  the next start finds nothing open;
* a journalled request that the control plane refuses and keeps no response for is sent
  for ever and never left (`StuckRequest`): a claim that is not received within the clock
  skew (300 s), one whose lease ran out before the answer came through, a result older
  than its lease. `deploy/fleet-resident-work-orders/README.md:28-30` says that the bytes
  remain. Work whose lease ran out is never left either (`StuckLease`,
  `LeaseExpiredRecoveryRequired`). `ComesFree` shows that nothing leads out of the two
  and that there is no third way: a device that is in neither comes free, whatever was
  lost and without waiting for time to pass.

`Halted` in `ResidentUpdate` lists where an activation can stay for good, `Starved` says
that systemd has given up on the unit until the next boot, and
`ActivationEnds` shows that there is nothing besides: a power loss between
`PromotePrepared` and the promotion returns to the known-good slot, which that phase does
not expect; a release that failed and is offered again is admitted as a replay, staged and
armed again, and its second outcome, or its second audit receipt, finds the archive names
taken; a finalization interrupted after the staging receipt is released, or a rollback of
an older release, meets the staging of the next one and refuses until that staging is
complete and activated, which it cannot be. Only the first needs no second update; a local
rollback leads out of it.

## Proofs

`RepairStore_proofs` proves for every value of the constants (any finite set of
identifiers, any drafts, parents, limits and bounds within the named assumptions):

| Theorem | Property |
| --- | --- |
| `StoreInvariance` | `StoreInv`, the inductive invariant |
| `TypeCorrect` | `TypeOK` |
| `JournalNeverCorrupt` | `NeverCorrupt` |
| `FilesFollowJournal` | `FilesMatchJournal` |
| `PowerLossSafe` | `PowerLossAloneHarmless` |
| `SingleRepair` | `OneUnresolvedRepair` |
| `LeaseUniqueness` | `LeaseOncePerBoot` |
| `RoomForReconciliation` | `ReconciliationHasRoom` |
| `FinalResolutions` | `ResolutionFinal` |
| `IntentsDecide` | `IntentDecides` |

None of the properties is inductive alone. That a completion passes the guards of
`apply_repair_event`, for instance, needs that the pending identifier is in the phase its
intent put it in, that the singleton fields agree with the records, and that a tombstone
slot is free; that the file of a durable backup is complete needs to know which file the
step in progress has reached. `StoreInv` collects these:

* `JournalInv`: each record against the pending identifier and the unresolved transaction
  and rollback (`PendingInv`, `TransactionInv`), and the released against the reserved
  identifiers (`ReleaseInv`). It speaks about the replayed state only;
* `StepInv`: the step in progress against the phase of the pending reservation and the
  file it works on;
* `SyncInv`: without a fault, only the step in progress has unsynchronized changes;
* `LeaseInv`: a lease handed out in this boot is recorded as long as the record exists;
* `FilesMatchJournal` and `ReconciliationHasRoom` themselves.

The proof has one lemma per event (`...Facts`: the event is accepted, and which fields it
changes), a lemma that lifts such a change to `JournalInv`, one lemma per action
(`...Step`), and the case distinction over `Next`. A compaction is covered by
`CompactionFacts`: it is taken only when the replayed snapshot equals `CompactedState`, so
the invariant follows from that state without following the snapshot. When the two are
equal is `CompactionExact`, below.

`ResidentUpdate_proofs` proves, from `DeviceAssumption` alone, for any number of releases,
any set of them broken, either kind of stager, and any number of updates, rollbacks and
faults:

| Theorem | Property |
| --- | --- |
| `UpdateInvariance` | `UpdateInv`, the inductive invariant |
| `UpdateTypes` | `TypeOK` |
| `ReceiptsTellContents` | `StagedIntact` |
| `DefaultComesUp` | `DefaultProven` |
| `TrialsAreRecorded` | `TrialRecorded` |
| `OutcomesAreTrue` | `OutcomeTruthful` |
| `FallbackIsKept` | `FallbackKept` |
| `NeverDowngraded` | `NoDowngrade` |

The argument turns on the staging receipt. Until a trial is decided it is kept and is the
recorded candidate's (`TrialInv`), and a slot is written only while no receipt is kept
(`StagerInv`): so nothing writes a slot during a trial, although the stager may run in the
middle of one. The default entry is the running slot except in a trial or a rollback
(`SlotInv`), so a stream into the inactive slot spares the default one. The one-shot entry
does not outlive the boot that armed it (`TrialInv`), and a rollback that finds the target
armed finds it still staged (`RollbackInv`, which is why it has to speak of the last
receipt too: after a finalization that receipt is all a rollback goes by). `SequenceInv`
puts the anti-rollback checkpoint ahead of every candidate and receipt. `LockInv` and
`ActivatorInv` say what each process has established before its next step. There is one
lemma per action or per group of actions that write the same files, over frame lemmas for
the steps that leave the boot selection and the activation alone (`BootFrame`,
`StagerWrites`, `ActivatorWrites`) or write only one of them (`ActivationStep`,
`FirmwareStep`). The unit's start counter is no part of the invariant, only of `TypeOK`:
safety does not depend on how often systemd starts what.

`SecureJournal_proofs` proves for any number of entries, fresh values and faults:

| Theorem | Property |
| --- | --- |
| `JournalInvariant` | `JournalInv`, the inductive invariant |
| `JournalTyped` | `TypeOK` |
| `AcknowledgedNeverLost` | `AcknowledgedKept` |
| `AnchorNeverAhead` | `AnchorTracks` |
| `AnchorMovesForward` | `AnchorOnlyGrows` |

The properties are not inductive because they do not say which store is ahead when. The
invariant says it for every step of an opening and of an append, and keeps the
acknowledged chain below the anchor rather than below the database: a database that is
put back may be older than both, and is refused because of the anchor. Four lemmas about
prefixes of sequences carry the proof.

`RepairVault_proofs` proves, under the same assumptions as `RepairStore_proofs`:

| Theorem | Property |
| --- | --- |
| `HistoryInvariance` | `HistoryInv`, what the records remember beyond `StoreInv` |
| `DraftsReservedOnce` | `DraftReservedOnce` |
| `ReleasesRemembered` | `TombstonesKept` |
| `StoreImplementsVault` | `StoreIsVault`, the refinement of `RepairVault` |
| `CompactionExact` | `CompactionDecided` |

`StoreInv` shows that no appended event is rejected. Turned around, the checks of
`apply_repair_event` hold wherever the store appends an event, and this is what the
refinement lives on: that a begun transaction was absent before, say, is not checked by
the handler's caller but by the event. A lemma per event says what it changes (`...Sets`),
a second what that means for the Vault (`...Explained`). Missing from `StoreInv` is that
release dates are distinct and not ahead of the clock (without it the retention rule does
not say who is crowded out), and that an absent transaction holds neither lease nor
intent (without it the abstract record of a new one could start with a lease). Also part
of `HistoryInv`, for the snapshot: which reservations carry a resolution, that a tombstone
holds the reservation as its release found it, that no two rollbacks share an identifier,
and that the table is never above `MaxReservations`. That a compaction forgets only what it may is a counting argument: whoever is forgotten within
its window has `MaxRetained` newer releases among the retained ones.

`CompactionExact` follows the replay of `compaction_events` through its three loops. One
lemma per event (`...Replays`) says what the event makes of a store that is being
restored; these are chained into what the two events of a reservation, the snapshot of a
transaction with or without a rollback, and the snapshot of a tombstone replay to
(`ReservationRestored`, `ReleaseRestored`). `Restored(st, A, R)` is the store in which
the reservations `A` and the tombstones `R` are back: a loop in the order of the
identifiers takes it from one pair of sets to the next, if a slot is free whenever a
tombstone passes through one. `CompactionComplete` accepts the last one, which is
`CompactedState`. The other direction: with every slot settled the first event of the
first tombstone is rejected, and no event clears the verdict (`RejectedStays`). That a
snapshot stays below the trigger is counted along the way, with at most 11 and 8 events.
The library's induction theorems cannot be used here, so the inductions over events
(`ReplayFrom`), sequences of snapshots (`FlattenSeq`), sizes of sets (`InIdOrder`) and
identifiers restored are by the least counterexample: `LeastNumber`, a consequence of the
well-foundedness of the numbers that takes a set instead of an operator. For this the model
writes the replay as a function of the number of events, and `InIdOrder` as the choice of
an increasing enumeration.

`JournalSwap_proofs` proves for any number of generations and faults:

| Theorem | Property |
| --- | --- |
| `SwapInvariant` | `SwapInv`, the inductive invariant |
| `GenerationNeverLost` | `GenerationSurvives` |
| `SwapImplementsSwitch` | `SwapIsSwitch`, the refinement of `JournalSwitch` |

Each of the three files of the current generation is where it was, set aside, or set
aside with its successor in its place (`Original`, `Retired`, `Replaced`). The marker
decides which mixtures of these a directory may have (`DirectoryOk`), and every step of a
compaction, of a swap and of a recovery knows one of them (`CompactionOk`, `SwapOk`,
`RecoveryOk`). The switch is the rename of the COMMITTED marker: no other step changes
`Current`.

`RepairExecution_proofs` proves, for any set of repairs and any number of faults, deaths,
power losses and edits:

| Theorem | Property |
| --- | --- |
| `ExecutionInvariant` | `ExecutionInv`, who may write |
| `ExecutionTyped` | `TypeOK` |
| `WriteAuthorityHolds` | `WriteAuthority` |
| `DiskInvariant` | `DiskInv`, what the step in progress knows of the disk |
| `ThirdStateKept` | `KeepsThirdState` |
| `ResolutionOnDisk` | `SettledOnDisk` |
| `ChainInvariant` | `ChainInv`, how repairs of one file stack |
| `ReportInvariant` | `ReportInv`, what the service shows |
| `OpenTransactionBlocks` | `OpenBlocks` |
| `ReceiptsAreTrue` | `ReceiptTrue` |

Four invariants build on each other. `ExecutionInv`: a writable mount exists only for the
open transaction of the job, under a lease of this boot; errors, deaths and restarts all
drop the mount first. `DiskInv`: each step of the exchange and of the restore knows what
the target and the working file hold, without a writable mount nothing waits to be
written, and a decided outcome is what every directory a power loss may leave holds.
`ChainInv`: the repairs of one file form a stack. A replacement on the target is that of
a live repair, the backup of a live repair is that of a committed one which it covers,
and no two cover the same. This is why a rollback can be decided from the contents
of the target alone, and why a receipt "committed" stays true: the transaction it names is
on top of the stack. `ReportInv`: every phase and receipt against the job and the Vault.

Two definitions of the model changed because of these proofs. `OnDisk` excused any edit
by somebody else when the backup was such an edit itself, which is right for one edit
only; it now asks for a second one. `NothingToRecover` was a CASE whose arms overlapped,
and is now three disjoint alternatives.

`WorkOrders_proofs` proves for any number of orders, any times and any number of claims
and faults:

| Theorem | Property |
| --- | --- |
| `WorkOrdersTyped` | `TypeOK` |
| `WorkOrdersInvariant` | `ClaimInv` and `OrderInv`, the inductive invariant |
| `ClaimsLeaseOnce` | `ClaimLeasesOnce` |
| `ExecutesUnderOneLease` | `ExecutedUnderOneLease` |
| `RecordsWhatWasDone` | `RecordedWasDone` |
| `CompletesRecorded` | `CompletedRecorded` |

The type invariant already relates state: requests are journalled exactly at the stages
that send one, a lease is held exactly from claim to result. `ClaimInv` is about the
control plane: a nonce names one claim, and as long as a claim can still be taken, by its
stamp, what it was given is on record, so that retention never makes it look new.
`OrderInv` is about the device: only the claim its journal is at can get a new lease,
every other one, also one still on its way, is on record or has lapsed (`ClaimsSettled`);
nothing was executed under a lease that is offered or newly held, and its order was given
to nobody since (`HeldIsFresh`); and what the device has executed its journal or the
control plane tells of (`WorkKept`). The last two are what makes the second execution of
an order impossible: a new lease is given only for an order without a result, and an
execution without a result keeps the journal where it is.

`VaultSupervisor_proofs` proves for any finite set of clients and any number of faults and
leases:

| Theorem | Property |
| --- | --- |
| `SupervisorInvariant` | `DaemonInv` and `LoanInv`, the inductive invariant |
| `DecryptedIsMarked` | `OpenIsMarked` |
| `LockedMeansClosed` | `LockedIsClosed` |
| `CredentialsAreLeased` | `CredentialLeased` |
| `FaultsAreContained` | `FaultContained` |
| `MarkerStays` | `MarkerOutlivesFault` |

The invariant says what a handler may rely on between two blocks under the `lifecycle`
mutex (`RecordOk`): that the service state is as its operation left it, that the marker
is there from the dispatch on, that its lease, if it is still registered, is in the state
it brought it to or is being revoked, and which steps of the fault procedure were taken.
All of it holds only while there is no fault, since a fault takes everything from every
handler; the parts that must outlive one, the marker and the containment, are stated
without that condition. Around it: one handler at a time owns the service state
(`OneOwner`), and the channel to the worker holds, besides borrows, only the command or
the response that this owner waits for (`Channel`), so that a late response of the worker
is never taken for the answer to a later command. `LoanInv` is about the credential:
from the command to the worker on, the borrowing thread's lease is in the registry and
cannot be released, nobody has been lent anything before the mount or the send, and a
registered lease has its marker. It is needed because a mounted credential is outside before its
lease is established: `CredentialLeased` alone does not say that the thread which mounts
still has its lease.

TLC agreed with each of these invariants, on instances of about the size of the runs,
before it was proved.

`StoreInvariance`, `TypeCorrect`, `SingleRepair`, `LeaseUniqueness`, `FinalResolutions`,
`AnchorNeverAhead`, the theorems about the inductive invariants and the type theorems
stand without a run of their own; the other theorems state properties the runs check.

Only model-checked: the liveness properties `InterruptedSettles`, `StoreReopens`,
`SwapRecovers`, `JournalOpens`, `PendingSettles`, `ComesFree` and `ActivationEnds`,
because liveness under fairness is out of the prover's reach; and what the violations
show.

## Not modelled

Digests, signatures and authentication codes (an entry or a binding that does not match
is refused by the same guards), file ownership, modes and identity checks against
concurrent modification by others, wording of errors. In the repair service, the ext4
check and the resolver-link repair, which share the engine and the recovery but not the
file exchange. In the fleet, the Rescue, Windows and macOS handoffs, the limit of recent
claims per device (`store.ts:1415`, above `MaxClaims`), and everything of the control
plane that is not a work order. Of the
daemon, the wire formats, the authentication of peers, the readiness notifications to
systemd, and what a request does inside the store, of which `RepairStore` assumes that the
worker opens it for one request and drops it afterwards.

Most of the repository has no state to model: most of its lines parse,
validate and encode signed documents and wire messages, probe devices, draw user
interfaces, build images or test. A model of that code would be a second copy of it. The
share of lines the models stand for is therefore small, and is the part that keeps
durable or concurrent state.

## Plan

1. Store, compaction, proofs; swap of generations; resident update, proofs (done).
2. Abstract Vault and its refinement, repair service, secure journal, work orders, first
   proofs about them (done).
3. The rescue daemon as a state machine (done).
4. Every safety property, action property and refinement that a run checks as a theorem
   (done).

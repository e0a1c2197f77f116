-------------------------- MODULE RepairExecution --------------------------
(***************************************************************************)
(* The repair service on top of the Vault: prepare, approve, execute,      *)
(* cancel, roll back and recover one exact replacement of a file on the    *)
(* target (fstab or crypttab), with failing steps, lost answers, process   *)
(* deaths, power losses and edits made by somebody else.  The service runs *)
(* one job at a time; a job is the record `worker` and its step.           *)
(***************************************************************************)
EXTENDS RepairVault

CONSTANTS
    Original, Foreign,  \* file contents: at the start, and after somebody else's edit
    Partial, NoFile,    \* contents of an unfinished file; no file of that name
    NoId,
    MaxFaults, MaxStops, MaxEdits   \* bounds: failing steps, process deaths
                                    \* and power losses, edits

ASSUME ExecutionAssumption ==
    /\ {Original, Foreign, Partial, NoFile, NoId} \cap Ids = {}
    /\ {Original, Foreign} \cap {Partial, NoFile} = {}
    /\ Partial # NoFile
    /\ Original # Foreign
    /\ MaxFaults \in Nat /\ MaxStops \in Nat /\ MaxEdits \in Nat

VARIABLES
    before,    \* contents of the backup of each reservation
    dir,       \* target directory: the file and the two working names of each repair
    possible,  \* the directories a power loss may leave
    mount,     \* the mount of the target held by the service
    service,   \* public phase and the receipt it shows or falls back to
    worker,    \* the job and its step
    faults, stops, edits

bounds == <<faults, stops, edits>>
disk == <<dir, possible>>
vars == <<tx, boot, before, dir, possible, mount, service, worker, bounds>>

\* The contents a repair installs.
After(id) == id

Directory ==
    LET Content == Ids \cup {Original, Foreign, Partial, NoFile}
    IN [target : Content, stage : [Ids -> Content], restore : [Ids -> Content]]

Receipt == [outcome : {"none", "committed", "closed", "rolledBack", "manual",
                       "cancelled", "failed"},
            id : Ids \cup {NoId}]
NoReceipt == [outcome |-> "none", id |-> NoId]
Failed == [outcome |-> "failed", id |-> NoId]
ServicePhase ==
    {"down", "starting", "idle", "preparing", "prepared", "executing",
     "rollbackPreparing", "rollbackPrepared", "rollbackExecuting", "terminal"}

ApplySteps == {"apply", "stageFile", "exchange", "syncExchange", "remove", "syncRemoval"}
RestoreSteps ==
    {"restore", "restoreFile", "exchangeBack", "syncBack", "removeBack", "syncRestore"}
Step == {"none", "prepare", "cancel", "persist", "authorize", "acquire", "refresh", "close",
         "release", "resolve", "resolveStale", "recover"} \cup ApplySteps \cup RestoreSteps
Job == [at : Step, id : Ids \cup {NoId}, kind : {"repair", "rollback"},
        origin : {"execute", "recovery"},
        outcome : {"none", "committed", "closed", "rolledBack", "manual"}]
NewJob(at, id, kind, origin) ==
    [at |-> at, id |-> id, kind |-> kind, origin |-> origin, outcome |-> "none"]
NoJob == NewJob("none", NoId, "repair", "execute")

Init ==
    /\ VaultInit
    /\ before = [id \in Ids |-> NoFile]
    /\ dir = [target |-> Original, stage |-> [id \in Ids |-> NoFile],
              restore |-> [id \in Ids |-> NoFile]]
    /\ possible = {dir}
    /\ mount = "none"
    /\ service = [phase |-> "down", receipt |-> NoReceipt]
    /\ worker = NoJob
    /\ faults = 0 /\ stops = 0 /\ edits = 0

(***************************************************************************)
(* Building blocks.                                                        *)
(***************************************************************************)
Fault == faults < MaxFaults /\ faults' = faults + 1 /\ UNCHANGED <<stops, edits>>

At(step) == worker.at = step
Goto(step) == worker' = [worker EXCEPT !.at = step]

Shows(phase, receipt) == service' = [phase |-> phase, receipt |-> receipt]
\* The job ends with a receipt.
Ends(receipt) == Shows("terminal", receipt) /\ worker' = NoJob

\* A change of the directory may or may not have reached the disk before a power loss;
\* fsync and syncfs settle it, and so does the unmount.
Written(d) == dir' = d /\ possible' = possible \cup {d}
Synced(d) == dir' = d /\ possible' = {d}
Unmounted(d) == mount' = "none" /\ Synced(d)

\* Transaction of the job's kind.
Status(kind, id) == IF kind = "repair" THEN tx[id].phase ELSE tx[id].child
LeaseOf(kind, id) == IF kind = "repair" THEN tx[id].lease ELSE tx[id].childLease
Open(kind) == IF kind = "repair" THEN UnresolvedRepairs ELSE UnresolvedRollbacks
Restored(kind) == IF kind = "repair" THEN "closed" ELSE "rolledBack"
ConsumeLease(kind, id) == IF kind = "repair" THEN Lease(id) ELSE LeaseChild(id)
Record(kind, id, outcome) ==
    IF kind = "repair" THEN Resolve(id, outcome) ELSE ResolveChild(id, outcome)

\* exact_state
TargetState(d, id) ==
    CASE d.target = before[id] -> "Before"
      [] d.target = After(id)  -> "After"
      [] OTHER                 -> "Third"

Stage(d, id, content) == [d EXCEPT !.stage[id] = content]
Restore(d, id, content) == [d EXCEPT !.restore[id] = content]
\* cleanup_known_stage
CleanStage(d, id, content) == IF d.stage[id] = content THEN Stage(d, id, NoFile) ELSE d

\* Decides the outcome and lets go of the write mount.
Decides(outcome) == worker' = [worker EXCEPT !.at = "release", !.outcome = outcome]

\* Faulty variant: the daemon starts serving although recovery failed.
StartsAnyway ==
    IF service.phase = "starting"
    THEN Shows("idle", NoReceipt) /\ worker' = NoJob
    ELSE Ends(Failed)

\* A recovery that cannot finish: the daemon does not start, or the failed execution
\* is reported as it stands.
RecoveryFails ==
    CASE service.phase = "starting" -> Shows("down", NoReceipt) /\ worker' = NoJob
      [] service.phase = "executing" -> Ends([outcome |-> "manual", id |-> NoId])
      [] OTHER -> Ends(Failed)

\* The executor returns an error: mounts are dropped, and the engine tries to recover
\* at once.
Error(d) ==
    /\ Unmounted(d)
    /\ IF worker.origin = "execute"
       THEN /\ worker' = NewJob("recover", NoId, worker.kind, "recovery")
            /\ UNCHANGED service
       ELSE RecoveryFails

(***************************************************************************)
(* Requests, accepted in the phases that match.                            *)
(***************************************************************************)
\* begin_prepare; the replacement differs from what is installed.
RequestPrepare(id) ==
    /\ service.phase = "idle"
    /\ tx[id].phase = "free" /\ dir.target # After(id)
    /\ Shows("preparing", NoReceipt)
    /\ worker' = NewJob("prepare", id, "repair", "execute")
    /\ UNCHANGED <<vaultVars, before, disk, mount, bounds>>

\* begin_approval, begin_cancel
RequestDecision(step) ==
    /\ service.phase = "prepared"
    /\ Shows("executing", NoReceipt)
    /\ Goto(step)
    /\ UNCHANGED <<vaultVars, before, disk, mount, bounds>>

\* begin_rollback_prepare: of the receipt on display, or of any after a restart.
RequestRollback(id) ==
    /\ \/ service.phase = "idle"
       \/ service = [phase |-> "terminal", receipt |-> [outcome |-> "committed", id |-> id]]
    /\ tx[id].phase # "free"
    /\ Shows("rollbackPreparing", service.receipt)
    /\ worker' = NewJob("prepare", id, "rollback", "execute")
    /\ UNCHANGED <<vaultVars, before, disk, mount, bounds>>

\* begin_rollback_approval
RequestRollbackApproval ==
    /\ service.phase = "rollbackPrepared"
    /\ Shows("rollbackExecuting", service.receipt)
    /\ Goto("authorize")
    /\ UNCHANGED <<vaultVars, before, disk, mount, bounds>>

\* begin_rollback_cancel: nothing but the read-only mount is held.
CancelRollback ==
    /\ service.phase = "rollbackPrepared"
    /\ Ends(service.receipt)
    /\ mount' = "none"
    /\ UNCHANGED <<vaultVars, before, disk, bounds>>

(***************************************************************************)
(* Preparing, cancelling and approving a repair.                           *)
(***************************************************************************)
\* prepare: observes the target through a read-only mount that stays, and reserves.
PrepareRepair ==
    /\ At("prepare") /\ worker.kind = "repair"
    /\ Reserve(worker.id)
    /\ before' = [before EXCEPT ![worker.id] = dir.target]
    /\ mount' = "ro"
    /\ Shows("prepared", NoReceipt) /\ Goto("none")
    /\ UNCHANGED <<disk, bounds>>

\* Any refusal, with the reservation released, never made, or left behind.
PrepareFails ==
    /\ At("prepare") /\ worker.kind = "repair" /\ Fault
    /\ Reserve(worker.id) \/ UNCHANGED vaultVars
    /\ Ends(Failed)
    /\ UNCHANGED <<before, disk, mount>>

CancelPrepared ==
    /\ At("cancel")
    /\ CancelReservation(worker.id)
    /\ mount' = "none"
    /\ Ends([outcome |-> "cancelled", id |-> NoId])
    /\ UNCHANGED <<before, disk, bounds>>

\* A cancellation or an approval that fails; the reservation may stay behind.
DecisionFails ==
    /\ At("cancel") \/ At("persist")
    /\ Fault
    /\ CancelReservation(worker.id) \/ UNCHANGED vaultVars
    /\ mount' = "none"
    /\ Ends(Failed)
    /\ UNCHANGED <<before, disk>>

\* persist_pending, with the backup read back; then the read-only mount is dropped.
PersistPending ==
    /\ At("persist")
    /\ Persist(worker.id)
    /\ mount' = "none"
    /\ Goto("acquire")
    /\ UNCHANGED <<before, disk, service, bounds>>

\* The answer is lost, the read-back fails, or the reservation is released or kept.
PersistFails ==
    /\ At("persist") /\ Fault
    /\ \/ Persist(worker.id)
       \/ CancelReservation(worker.id)
       \/ UNCHANGED vaultVars
    /\ Error(dir)
    /\ UNCHANGED before

(***************************************************************************)
(* Write authority: one lease of this boot for one writable mount.         *)
(***************************************************************************)
\* Faulty variant: the mount is handed out without a lease.
AcquireWithoutLease ==
    /\ At("acquire")
    /\ mount' = "rw"
    /\ Goto("refresh")
    /\ UNCHANGED <<vaultVars, before, disk, service, bounds>>

\* The helper consumes the lease over a connection of its own, which advances the
\* Vault's state version behind the job's client.  The recovery of a repair is the one
\* job that does not ask for the transaction again after that.
NeverRefreshes == worker.kind = "repair" /\ worker.origin = "recovery"

Acquire ==
    /\ At("acquire")
    /\ ConsumeLease(worker.kind, worker.id)
    /\ mount' = "rw"
    /\ Goto(IF NeverRefreshes THEN "restore" ELSE "refresh")
    /\ UNCHANGED <<before, disk, service, bounds>>

\* The lease of this boot was used before.
AcquireRefused ==
    /\ At("acquire")
    /\ LeaseOf(worker.kind, worker.id) = boot
    /\ Error(dir)
    /\ UNCHANGED <<vaultVars, before, bounds>>

AcquireFails ==
    /\ At("acquire") /\ Fault
    /\ ConsumeLease(worker.kind, worker.id) \/ UNCHANGED vaultVars
    /\ Error(dir)
    /\ UNCHANGED before

\* refresh_pending_after_write_lease: the client sees the new state version.
Refresh ==
    /\ At("refresh")
    /\ Goto(IF worker.kind = "repair" THEN "apply" ELSE "restore")
    /\ UNCHANGED <<vaultVars, before, disk, mount, service, bounds>>

\* Errors that leave the transaction open: the refresh, the inspection after a failed
\* mutation, the check of the mount before it is dropped.
MountedFails ==
    /\ worker.at \in {"refresh", "close", "release"} /\ Fault
    /\ Error(dir)
    /\ UNCHANGED <<vaultVars, before>>

(***************************************************************************)
(* apply_exact_replacement: a prepared file is exchanged with the target.  *)
(***************************************************************************)
\* One step of the mutation in progress.
Mutates(from, change, to) ==
    /\ At(from)
    /\ change
    /\ Goto(to)
    /\ UNCHANGED <<vaultVars, before, mount, service, bounds>>

Exchanged(d, id) == [Stage(d, id, d.target) EXCEPT !.target = d.stage[id]]
ExchangedBack(d, id) == [Restore(d, id, d.target) EXCEPT !.target = d.restore[id]]

CreateStage ==
    /\ At("apply") /\ dir.target = before[worker.id] /\ dir.stage[worker.id] = NoFile
    /\ Mutates("apply", Written(Stage(dir, worker.id, Partial)), "stageFile")
StageFile == Mutates("stageFile", Synced(Stage(dir, worker.id, After(worker.id))), "exchange")
Exchange == Mutates("exchange", Written(Exchanged(dir, worker.id)), "syncExchange")
SyncExchange == Mutates("syncExchange", Synced(dir), "remove")
RemoveDisplaced == Mutates("remove", Written(Stage(dir, worker.id, NoFile)), "syncRemoval")
SyncRemoval ==
    /\ At("syncRemoval")
    /\ Synced(dir)
    /\ Decides("committed")
    /\ UNCHANGED <<vaultVars, before, mount, service, bounds>>

\* NamedFileGuard: on an error the new file is removed while it has the working name.
ApplyUnwound(d, id) ==
    IF worker.at \in {"stageFile", "exchange"} THEN Stage(d, id, NoFile) ELSE d

ApplyFails ==
    /\ worker.at \in ApplySteps
    /\ \/ Fault
       \/ At("apply") /\ dir.target # before[worker.id] /\ UNCHANGED bounds
    /\ Written(ApplyUnwound(dir, worker.id))
    /\ Goto("close")
    /\ UNCHANGED <<vaultVars, before, mount, service>>

\* close_after_failed_mutation: an installed replacement is taken back.
CloseFailed ==
    /\ At("close")
    /\ CASE TargetState(dir, worker.id) = "Before" ->
              /\ Written(CleanStage(dir, worker.id, After(worker.id)))
              /\ Decides("closed")
         [] TargetState(dir, worker.id) = "After" ->
              Goto("restore") /\ UNCHANGED disk
         [] OTHER -> Decides("manual") /\ UNCHANGED disk
    /\ UNCHANGED <<vaultVars, before, mount, service, bounds>>

(***************************************************************************)
(* restore_exact_backup, for a failed repair, a recovery and a rollback.   *)
(***************************************************************************)
\* Faulty variant: the target is not looked at again under the write mount.
RestoresBlindly == dir.restore[worker.id] \in {NoFile, before[worker.id]}

Restorable ==
    /\ TargetState(dir, worker.id) = "After"
    /\ dir.restore[worker.id] \in {NoFile, before[worker.id]}

CreateRestore ==
    /\ At("restore") /\ Restorable /\ dir.restore[worker.id] = NoFile
    /\ Mutates("restore", Written(Restore(dir, worker.id, Partial)), "restoreFile")
\* A complete restore file of an earlier attempt is used again.
ReuseRestore ==
    /\ At("restore") /\ Restorable /\ dir.restore[worker.id] = before[worker.id]
    /\ Mutates("restore", UNCHANGED disk, "exchangeBack")
RestoreFile ==
    Mutates("restoreFile", Synced(Restore(dir, worker.id, before[worker.id])), "exchangeBack")
ExchangeBack == Mutates("exchangeBack", Written(ExchangedBack(dir, worker.id)), "syncBack")
SyncBack == Mutates("syncBack", Synced(dir), "removeBack")
RemoveBack ==
    Mutates("removeBack",
            Written(CleanStage(Restore(dir, worker.id, NoFile), worker.id, before[worker.id])),
            "syncRestore")
SyncRestore ==
    /\ At("syncRestore")
    /\ Synced(dir)
    /\ Decides(Restored(worker.kind))
    /\ UNCHANGED <<vaultVars, before, mount, service, bounds>>

RestoreUnwound(d, id) ==
    IF worker.at \in {"restoreFile", "exchangeBack"} THEN Restore(d, id, NoFile) ELSE d

\* What a failed restore amounts to depends on who asked and on what is installed.
RestoreEnds(d) ==
    LET state == TargetState(d, worker.id)
    IN CASE worker.kind = "repair" /\ worker.origin = "execute" -> Error(d)
         [] worker.kind = "rollback" /\ state = "After" -> Error(d)
         [] OTHER -> /\ Written(d)
                     /\ Decides(IF state = "Before" THEN Restored(worker.kind) ELSE "manual")
                     /\ UNCHANGED <<mount, service>>

RestoreFails ==
    /\ worker.at \in RestoreSteps
    /\ LET d == RestoreUnwound(dir, worker.id)
       IN \/ At("restore") /\ ~Restorable /\ RestoreEnds(d) /\ UNCHANGED bounds
          \/ Fault /\ (RestoreEnds(d) \/ Error(d))
    /\ UNCHANGED <<vaultVars, before>>

(***************************************************************************)
(* The write mount is dropped, then the outcome recorded.                  *)
(***************************************************************************)
\* Faulty variant: the outcome is recorded before the unmount has written everything.
ReleaseUnsynced ==
    /\ At("release")
    /\ mount' = "none"
    /\ Goto(IF NeverRefreshes THEN "resolveStale" ELSE "resolve")
    /\ UNCHANGED <<vaultVars, before, disk, service, bounds>>

\* What is resolved next carries the state version the client has seen.
Release ==
    /\ At("release")
    /\ Unmounted(dir)
    /\ Goto(IF NeverRefreshes THEN "resolveStale" ELSE "resolve")
    /\ UNCHANGED <<vaultVars, before, service, bounds>>

\* resolve_pending; a lost answer is looked up again.
ResolvePending ==
    /\ At("resolve")
    /\ Record(worker.kind, worker.id, worker.outcome)
    /\ Ends([outcome |-> worker.outcome, id |-> worker.id])
    /\ UNCHANGED <<before, disk, mount, bounds>>

\* The Vault refuses a resolution that carries an old state version (StaleState), so
\* nothing is recorded, whatever the recovery did to the target.
ResolveStale ==
    /\ At("resolveStale")
    /\ Error(dir)
    /\ UNCHANGED <<vaultVars, before, bounds>>

\* Recorded or not, the caller sees an error.
ResolveFails ==
    /\ At("resolve") /\ Fault
    /\ Record(worker.kind, worker.id, worker.outcome) \/ UNCHANGED vaultVars
    /\ Error(dir)
    /\ UNCHANGED before

(***************************************************************************)
(* Recovery, and the execution of a rollback: the open transaction is      *)
(* looked up and the target classified through a read-only mount.          *)
(***************************************************************************)
NothingToRecover ==
    /\ At("recover") /\ Open(worker.kind) = {}
    /\ \/ service.phase # "starting" /\ Ends(Failed)
       \/ /\ service.phase = "starting" /\ worker.kind = "rollback"
          /\ worker' = NewJob("recover", NoId, "repair", "recovery")
          /\ UNCHANGED service
       \/ /\ service.phase = "starting" /\ worker.kind = "repair"
          /\ Shows("idle", NoReceipt) /\ worker' = NoJob
    /\ mount' = "none"
    /\ UNCHANGED <<vaultVars, before, disk, bounds>>

\* Closes what is exactly Before, never touches a third state, and takes a lease for
\* an exact After; a manual transaction is closed when the target is Before again.
Classify ==
    /\ At("recover")
    /\ \E id \in Open(worker.kind) :
        LET state == TargetState(dir, id)
            job == [worker EXCEPT !.id = id]
            Concludes(outcome) == worker' = [job EXCEPT !.at = "resolve", !.outcome = outcome]
        IN IF state # "Before" /\ Status(worker.kind, id) = "manual"
           THEN Ends([outcome |-> "manual", id |-> id])
           ELSE /\ UNCHANGED service
                /\ CASE state = "Before" -> Concludes(Restored(worker.kind))
                     [] state = "Third"  -> Concludes("manual")
                     [] OTHER            -> worker' = [job EXCEPT !.at = "acquire"]
    /\ mount' = "none"
    /\ UNCHANGED <<vaultVars, before, disk, bounds>>

\* The Vault or the target cannot be reached before the deadline.
RecoverFails ==
    /\ At("recover") /\ Fault
    /\ Error(dir)
    /\ UNCHANGED <<vaultVars, before>>

(***************************************************************************)
(* Rolling a committed repair back.                                        *)
(***************************************************************************)
RollbackPossible(id) ==
    UnresolvedRollbacks = {} /\ tx[id].phase = "committed" /\ dir.target = After(id)

PrepareRollback ==
    /\ At("prepare") /\ worker.kind = "rollback" /\ RollbackPossible(worker.id)
    /\ mount' = "ro"
    /\ Shows("rollbackPrepared", [outcome |-> "committed", id |-> worker.id])
    /\ Goto("none")
    /\ UNCHANGED <<vaultVars, before, disk, bounds>>

\* Back to where the request came from.
RollbackUnavailable ==
    /\ At("prepare") /\ worker.kind = "rollback"
    /\ Fault \/ (~RollbackPossible(worker.id) /\ UNCHANGED bounds)
    /\ Shows(IF service.receipt = NoReceipt THEN "idle" ELSE "terminal", service.receipt)
    /\ worker' = NoJob
    /\ UNCHANGED <<vaultVars, before, disk, mount>>

\* authorize_prepared_rescue_fstab_rollback
AuthorizeRollback ==
    /\ At("authorize")
    /\ BeginChild(worker.id)
    /\ worker' = NewJob("recover", NoId, "rollback", "execute")
    /\ UNCHANGED <<before, disk, mount, service, bounds>>

\* AuthorizationNotPersisted: refused before the child is begun.
AuthorizeRefused ==
    /\ At("authorize") /\ Fault
    /\ Ends(service.receipt)
    /\ mount' = "none"
    /\ UNCHANGED <<vaultVars, before, disk>>

\* Faulty variant: every failed authorization falls back to the source's receipt.
ReportsSource ==
    /\ At("authorize") /\ Fault
    /\ BeginChild(worker.id) \/ UNCHANGED vaultVars
    /\ Ends(service.receipt)
    /\ mount' = "none"
    /\ UNCHANGED <<before, disk>>

AuthorizeFails ==
    /\ At("authorize") /\ Fault
    /\ BeginChild(worker.id) \/ UNCHANGED vaultVars
    /\ Ends(Failed)
    /\ mount' = "none"
    /\ UNCHANGED <<before, disk>>

(***************************************************************************)
(* Starts, process deaths, power losses, edits.                            *)
(***************************************************************************)
\* Faulty variant: only an open repair is recovered.
StartSkipsRollback ==
    /\ service.phase = "down"
    /\ Shows("starting", NoReceipt)
    /\ worker' = NewJob("recover", NoId, "repair", "recovery")
    /\ UNCHANGED <<vaultVars, before, disk, mount, bounds>>

\* Socket activation: recovery comes before the first request.
Start ==
    /\ service.phase = "down"
    /\ Shows("starting", NoReceipt)
    /\ worker' = NewJob("recover", NoId, "rollback", "recovery")
    /\ UNCHANGED <<vaultVars, before, disk, mount, bounds>>

Stop == stops < MaxStops /\ stops' = stops + 1 /\ UNCHANGED <<faults, edits>>

\* The process dies and its mounts with it; no guard runs.
Killed ==
    /\ service.phase # "down" /\ Stop
    /\ Shows("down", NoReceipt) /\ worker' = NoJob
    /\ Unmounted(dir)
    /\ UNCHANGED <<vaultVars, before>>

PowerLoss ==
    /\ Stop
    /\ Shows("down", NoReceipt) /\ worker' = NoJob
    /\ \E d \in possible : Unmounted(d)
    /\ NextBoot
    /\ UNCHANGED before

\* Somebody else edits the file while the service has no mount of the target.
Edit ==
    /\ mount = "none" /\ edits < MaxEdits
    /\ edits' = edits + 1
    /\ Synced([dir EXCEPT !.target = Foreign])
    /\ UNCHANGED <<vaultVars, before, mount, service, worker, faults, stops>>

Requests ==
    \/ \E id \in Ids : RequestPrepare(id) \/ RequestRollback(id)
    \/ \E step \in {"persist", "cancel"} : RequestDecision(step)
    \/ RequestRollbackApproval \/ CancelRollback

Mutation ==
    \/ CreateStage \/ StageFile \/ Exchange \/ SyncExchange \/ RemoveDisplaced \/ SyncRemoval
    \/ CreateRestore \/ ReuseRestore \/ RestoreFile \/ ExchangeBack \/ SyncBack
    \/ RemoveBack \/ SyncRestore

\* What the worker does when nothing fails.
Progress ==
    \/ PrepareRepair \/ CancelPrepared \/ PersistPending
    \/ Acquire \/ AcquireRefused \/ Refresh
    \/ Mutation \/ CloseFailed \/ Release \/ ResolvePending \/ ResolveStale
    \/ NothingToRecover \/ Classify
    \/ PrepareRollback \/ AuthorizeRollback

Failures ==
    \/ PrepareFails \/ DecisionFails \/ PersistFails \/ AcquireFails \/ MountedFails
    \/ ApplyFails \/ RestoreFails \/ ResolveFails \/ RecoverFails
    \/ RollbackUnavailable \/ AuthorizeRefused \/ AuthorizeFails

Next ==
    \/ Requests \/ Progress \/ Failures
    \/ Start \/ Killed \/ PowerLoss \/ Edit

\* The worker thread runs, its calls return by their deadlines, and a client keeps
\* connecting to the activation socket.
Fairness == WF_vars(Progress \/ Failures) /\ WF_vars(Start)

Spec == Init /\ [][Next]_vars /\ Fairness

(***************************************************************************)
(* Properties.                                                             *)
(***************************************************************************)
\* Files, receipts and jobs keep their shape, and what is installed is among what a
\* power loss may leave.
TypeOK ==
    /\ VaultTypeOK
    /\ before \in [Ids -> Ids \cup {Original, Foreign, Partial, NoFile}]
    /\ dir \in Directory /\ possible \subseteq Directory /\ dir \in possible
    /\ mount \in {"none", "ro", "rw"}
    /\ service \in [phase : ServicePhase, receipt : Receipt]
    /\ worker \in Job
    /\ faults \in 0..MaxFaults /\ stops \in 0..MaxStops /\ edits \in 0..MaxEdits

\* The target is writable only for the job's own open transaction, whose backup is
\* durable, and under a lease of this boot.
WriteAuthority ==
    mount = "rw" =>
        /\ worker.id \in Ids
        /\ Status(worker.kind, worker.id) = "pending"
        /\ LeaseOf(worker.kind, worker.id) = boot

\* An interrupted or ambiguous repair blocks later mutations: no request is accepted
\* while a transaction is open.
OpenBlocks ==
    service.phase \in {"idle", "preparing", "prepared", "rollbackPreparing", "rollbackPrepared"}
        => NothingOpen

\* A receipt that names a transaction says of it what the Vault says.
ReceiptTrue ==
    LET receipt == service.receipt
        transaction == tx[receipt.id]
    IN (service.phase = "terminal" /\ receipt.id # NoId) =>
        CASE receipt.outcome = "committed" ->
                transaction.phase = "committed" /\ transaction.child = "none"
          [] receipt.outcome = "closed" -> transaction.phase = "closed"
          [] receipt.outcome = "rolledBack" -> transaction.child = "rolledBack"
          [] OTHER -> "manual" \in {transaction.phase, transaction.child}

\* "Recovery never overwrites a post-repair third state": the service only ever swaps
\* the exact backed up contents and the exact replacement, under its writable mount;
\* what somebody else wrote in between stays.
KeepsThirdState ==
    [][dir'.target # dir.target =>
        \/ edits' # edits \/ boot' # boot
        \/ /\ mount = "rw"
           /\ {dir.target, dir'.target} = {before[worker.id], After(worker.id)}]_vars

\* What a resolution says is on the disk for good when it is recorded, unless somebody
\* edited the file after the write mount was dropped: a second edit, if the first is what
\* was backed up.
OnDisk(id, content) ==
    \A d \in possible :
        d.target = content \/ (d.target = Foreign /\ (before[id] = Foreign => edits > 1))
SettledOnDisk ==
    [][\A id \in Ids :
        /\ tx[id].phase # "committed" /\ tx'[id].phase = "committed" => OnDisk(id, After(id))
        /\ tx[id].phase # "closed" /\ tx'[id].phase = "closed" => OnDisk(id, before[id])
        /\ tx[id].child # "rolledBack" /\ tx'[id].child = "rolledBack"
             => OnDisk(id, before[id])]_vars

\* An open transaction is settled or handed to a human, or it waits for the next boot
\* because the write lease of this one is used, or for a restart of the service, which
\* has said that the repair failed or needs a human.
Settles(kind, id) ==
    Status(kind, id) = "pending" ~>
        \/ Status(kind, id) # "pending"
        \/ LeaseOf(kind, id) = boot
        \/ service.receipt.outcome \in {"failed", "manual"}
PendingSettles == \A id \in Ids : Settles("repair", id) /\ Settles("rollback", id)

\* "Killing power/process at every transaction boundary either leaves the target
\* unchanged or produces a recoverable journal state": when nothing fails and nobody
\* edits, a transaction that is open in a boot whose lease is not used is settled in
\* that boot, unless the service is killed once more or the power goes again.
Recovers(kind, id, n) ==
    (Status(kind, id) = "pending" /\ LeaseOf(kind, id) # boot /\ stops = n) ~>
        (Status(kind, id) # "pending" \/ stops # n)
KillsRecoverable ==
    \A id \in Ids, kind \in {"repair", "rollback"}, n \in 0..MaxStops : Recovers(kind, id, n)

=============================================================================

---------------------------- MODULE RepairStore ----------------------------
(***************************************************************************)
(* The Repair Vault store (crates/rescue-secrets/src/repair_store.rs): the *)
(* journal of reservations, backups, repair transactions and rollbacks and *)
(* the backup files it describes, under process crashes, power loss and    *)
(* failing file operations at every durable step.                          *)
(*                                                                         *)
(* disk is the state that replaying the durable journal yields and events  *)
(* its length.  A healthy handle holds the same state in memory, because   *)
(* append_event applies an event to it exactly when the append succeeded;  *)
(* a handle that failed refuses every mutation until it is dropped.  An    *)
(* append that reports an error although its entry is durable is the       *)
(* append followed by OperationFails.                                      *)
(*                                                                         *)
(* The handle is guarded by a mutex and a lock file: one exists at a time. *)
(***************************************************************************)
EXTENDS RepairCompaction

CONSTANTS
    MaxEvents,   \* MAX_JOURNAL_EVENTS
    ClockBound,  \* bound: operations start only below this logical clock
    MaxBoots,    \* bound: number of boots
    MaxFaults    \* bound: number of crashes and failed operations

ASSUME EventAssumption ==
    MaxEvents \in Nat /\ CompactionTrigger + 2 <= MaxEvents
ASSUME BoundAssumption ==
    ClockBound \in Nat /\ MaxBoots \in Nat \ {0} /\ MaxFaults \in Nat

VARIABLES
    disk,        \* the replayed journal
    events,      \* number of entries in the active journal generation
    file,        \* the backup file of every identifier, as a process sees it
    stable,      \* the same on stable storage
    handle,      \* the store handle
    step,        \* the next durable step of the operation in progress
    checkedOut,  \* identifiers whose reservation capability is lent out
    boot,        \* the boot epoch
    parent,      \* the physical parent the Vault is attached to
    issued,      \* identifiers ever generated: random, hence never repeated
    txLeases,    \* write leases handed out in this boot, per transaction
    rbLeases,    \* rollback write leases handed out in this boot, per source
    faults,      \* crashes and failed operations so far
    lost         \* identifiers hit by a power loss after their operation was
                 \* complete and before its effect on the file was on stable storage

vars == <<disk, events, file, stable, handle, step, checkedOut, boot, parent, issued,
          txLeases, rbLeases, faults, lost>>

\* A backup file: not there, created but not fully allocated, allocated and
\* zero-filled, partly overwritten, holding the complete backup, or truncated by
\* a reset.
FileState == {"absent", "created", "zero", "torn", "full", "truncated"}

\* What power loss can leave of a file: what a process saw, what was on stable
\* storage, or a mixture of the two.
AfterPowerLoss(seen, synced) ==
    {seen, synced} \cup
    (CASE seen = synced     -> {}
       [] synced = "absent" -> {"created"}
       [] seen = "absent"   -> {}
       [] OTHER             -> {"torn"})

HandlerStep ==
    {"ReserveCreate", "ReserveAllocate", "ReserveSync", "ReserveFinish",
     "PersistWrite", "PersistFlush", "PersistSync", "PersistFinish",
     "ReleaseRemove", "ReleaseSync", "ReleaseFinish",
     "ResolveFinish", "RollbackResolveFinish"}
OpeningStep ==
    {"Reconcile", "AbortSync", "AbortReserve", "ResetAllocate", "ResetSync",
     "AbortPersist", "RemoveSync", "FinishRelease", "Layout"}

\* The phases of a reservation without an operation in progress on its file.
SettledPhase == {"Absent", "Reserved", "Durable"}

Init ==
    /\ disk = EmptyState /\ events = 0
    /\ file = [id \in Ids |-> "absent"] /\ stable = file
    /\ handle = "closed" /\ step = "idle"
    /\ checkedOut = {}
    /\ boot = 1 /\ parent \in Parents
    /\ issued = {}
    /\ txLeases = [id \in Ids |-> 0] /\ rbLeases = [id \in Ids |-> 0]
    /\ faults = 0 /\ lost = {}

(***************************************************************************)
(* Building blocks.                                                        *)
(***************************************************************************)
files == <<file, stable>>
environment == <<boot, parent, issued, txLeases, rbLeases, faults, lost>>

\* One file operation of the operation in progress: it changes what a process
\* sees of the pending file, or brings that to stable storage.
ChangeFile(from, content, to) ==
    /\ step = from /\ step' = to
    /\ file' = [file EXCEPT ![disk.pending] = content]
    /\ UNCHANGED <<disk, events, stable, handle, checkedOut, environment>>

\* Faulty variant: the step moves on without the fsync.
SyncSkipped(from, to) ==
    /\ step = from /\ step' = to
    /\ UNCHANGED <<disk, events, files, handle, checkedOut, environment>>

SyncFile(from, to) ==
    /\ step = from /\ step' = to
    /\ stable' = [stable EXCEPT ![disk.pending] = file[disk.pending]]
    /\ UNCHANGED <<disk, events, file, handle, checkedOut, environment>>

\* append_event: the entry is durable and the memory state follows.
AppendEvent(next) ==
    /\ events < MaxEvents
    /\ disk' = next
    /\ events' = events + 1

\* require_mutable: a healthy handle with nothing in progress.
Mutable == handle = "open" /\ step = "idle" /\ disk.pending = NoId

\* Faulty variant: require_event_capacity is not called.
RoomUnchecked(required) == disk.clock < ClockBound

\* require_event_capacity once compaction has been taken care of.
Room(required) ==
    /\ ~CompactionDue(disk, events, required)
    /\ events + required <= MaxEvents
    /\ disk.clock < ClockBound

NothingUnresolved == disk.openTransaction = NoId /\ disk.openRollback = NoId

\* scan_backups: every settled reservation has its allocated file and no file is
\* without a reservation.
LayoutOk ==
    /\ TransactionsConsistent(disk)
    /\ \A id \in Ids :
          IF disk.reservations[id].phase = "Absent"
          THEN file[id] = "absent"
          ELSE file[id] \in {"zero", "torn", "full"}

\* Faulty variant: a released draft is taken for a new one.
DraftNotLive(draft) == \A id \in Active(disk) : disk.reservations[id].draft # draft

\* reconcile_reserved_retry: no reservation, live or remembered as released, was
\* made for the draft.
DraftUnused(draft) ==
    /\ \A id \in Active(disk) : disk.reservations[id].draft # draft
    /\ \A id \in Released(disk) : disk.released[id].record.draft # draft

(***************************************************************************)
(* reserve_backup                                                          *)
(***************************************************************************)
ReserveBackup(id, draft) ==
    /\ Mutable /\ Room(2)
    /\ DraftUnused(draft)
    /\ NothingUnresolved
    /\ Cardinality(Active(disk)) < MaxReservations
    /\ id \notin disk.seen /\ file[id] = "absent" /\ id \notin issued
    /\ AppendEvent(ReserveIntent(Tick(disk), id, draft, parent))
    /\ step' = "ReserveCreate"
    /\ issued' = issued \cup {id}
    /\ UNCHANGED <<files, handle, checkedOut, boot, parent, txLeases, rbLeases, faults, lost>>

\* allocate_and_verify: create the file, allocate it and synchronize it.
ReserveCreate == ChangeFile("ReserveCreate", "created", "ReserveAllocate")
ReserveAllocate == ChangeFile("ReserveAllocate", "zero", "ReserveSync")
ReserveSync == SyncFile("ReserveSync", "ReserveFinish")

ReserveFinish ==
    /\ step = "ReserveFinish"
    /\ AppendEvent(ReserveComplete(Tick(disk), disk.pending))
    /\ checkedOut' = checkedOut \cup {disk.pending}
    /\ step' = "idle"
    /\ UNCHANGED <<files, handle, environment>>

\* resume_reserved, and reserve_backup retried with the draft of a live
\* reservation: the capability is lent out again.
ResumeReserved(id) ==
    /\ Mutable
    /\ disk.reservations[id].phase = "Reserved"
    /\ disk.reservations[id].parent = parent
    /\ file[id] = "zero"
    /\ id \notin checkedOut
    /\ checkedOut' = checkedOut \cup {id}
    /\ UNCHANGED <<disk, events, files, handle, step, environment>>

(***************************************************************************)
(* persist_backup                                                          *)
(***************************************************************************)
PersistBackup(id) ==
    /\ Mutable /\ Room(2)
    /\ id \in checkedOut
    /\ NothingUnresolved
    /\ disk.reservations[id].phase = "Reserved"
    /\ disk.reservations[id].parent = parent
    /\ AppendEvent(PersistIntent(Tick(disk), id))
    /\ checkedOut' = checkedOut \ {id}
    /\ step' = "PersistWrite"
    /\ UNCHANGED <<files, handle, environment>>

\* Any refusal after consume_checkout (an unresolved transaction, a binding or a
\* source that does not match) uses the capability up and changes nothing else.
PersistRefused(id) ==
    /\ Mutable
    /\ id \in checkedOut
    /\ checkedOut' = checkedOut \ {id}
    /\ UNCHANGED <<disk, events, files, handle, step, environment>>

\* install_and_verify: overwrite the file, partly and then completely, synchronize
\* and verify it.
PersistWrite == ChangeFile("PersistWrite", "torn", "PersistFlush")
PersistFlush == ChangeFile("PersistFlush", "full", "PersistSync")
PersistSync == SyncFile("PersistSync", "PersistFinish")

PersistFinish ==
    /\ step = "PersistFinish"
    /\ AppendEvent(PersistComplete(Tick(disk), disk.pending))
    /\ step' = "idle"
    /\ UNCHANGED <<files, handle, checkedOut, environment>>

(***************************************************************************)
(* cancel_reserved and retire_backup.  A retry answered from a tombstone   *)
(* changes nothing.                                                        *)
(***************************************************************************)
CancelReserved(id) ==
    /\ Mutable /\ Room(2)
    /\ disk.reservations[id].phase = "Reserved"
    /\ file[id] = "zero"
    /\ AppendEvent(CancelIntent(Tick(disk), id))
    /\ checkedOut' = checkedOut \ {id}
    /\ step' = "ReleaseRemove"
    /\ UNCHANGED <<files, handle, environment>>

\* Faulty variant: an unresolved rollback does not keep its source from retiring.
RetireRegardless(id) ==
    /\ Mutable /\ Room(2)
    /\ disk.reservations[id].phase = "Durable"
    /\ Resolved(disk.transactions[id].resolution)
    /\ AppendEvent(RetireIntent(Tick(disk), id))
    /\ step' = "ReleaseRemove"
    /\ UNCHANGED <<files, handle, checkedOut, environment>>

RetireBackup(id) ==
    /\ Mutable /\ Room(2)
    /\ disk.reservations[id].phase = "Durable"
    /\ Resolved(disk.transactions[id].resolution)
    /\ RollbackClosed(disk.transactions[id])
    /\ file[id] = "full"
    /\ AppendEvent(RetireIntent(Tick(disk), id))
    /\ step' = "ReleaseRemove"
    /\ UNCHANGED <<files, handle, checkedOut, environment>>

\* remove_pending_backup_file: unlink the file and synchronize the directory.
ReleaseRemove == ChangeFile("ReleaseRemove", "absent", "ReleaseSync")
ReleaseSync == SyncFile("ReleaseSync", "ReleaseFinish")

ReleaseComplete(st, id) ==
    IF st.reservations[id].phase = "CancelPending"
    THEN CancelComplete(st, id, 0)
    ELSE RetireComplete(st, id, 0)

ReleaseFinish ==
    /\ step = "ReleaseFinish"
    /\ AppendEvent(ReleaseComplete(Tick(disk), disk.pending))
    /\ step' = "idle"
    /\ UNCHANGED <<files, handle, checkedOut, environment>>

(***************************************************************************)
(* The repair transaction: consume_write_lease and resolve_transaction.    *)
(***************************************************************************)
ConsumeWriteLease(id) ==
    LET tx == disk.transactions[id] IN
    /\ Mutable /\ Room(1)
    /\ disk.reservations[id].phase = "Durable" /\ file[id] = "full"
    /\ tx.resolution = "None" /\ tx.pending = "None"
    /\ tx.lease # boot
    /\ AppendEvent(TransactionWriteLeaseConsume(Tick(disk), id, boot))
    /\ txLeases' = [txLeases EXCEPT ![id] = @ + 1]
    /\ UNCHANGED <<files, handle, step, checkedOut, boot, parent, issued, rbLeases, faults,
                   lost>>

ResolveTransaction(id, resolution) ==
    LET tx == disk.transactions[id] IN
    /\ Mutable /\ Room(2)
    /\ disk.reservations[id].phase = "Durable" /\ file[id] = "full"
    /\ tx.resolution # resolution /\ ~Resolved(tx.resolution)
    /\ AppendEvent(TransactionResolveIntent(Tick(disk), id, TransactionPhase(tx.resolution),
                                       resolution))
    /\ step' = "ResolveFinish"
    /\ UNCHANGED <<files, handle, checkedOut, environment>>

ResolveFinish ==
    /\ step = "ResolveFinish"
    /\ AppendEvent(TransactionResolveComplete(Tick(disk), disk.pending))
    /\ step' = "idle"
    /\ UNCHANGED <<files, handle, checkedOut, environment>>

(***************************************************************************)
(* The child rollback of a committed repair: begin_rollback_transaction,   *)
(* consume_rollback_write_lease and resolve_rollback_transaction.          *)
(***************************************************************************)
BeginRollback(id, rollback) ==
    /\ Mutable /\ Room(1)
    /\ disk.reservations[id].phase = "Durable" /\ file[id] = "full"
    /\ disk.transactions[id].resolution = "CommittedAfter"
    /\ disk.transactions[id].rollback.id = NoId
    /\ NothingUnresolved
    /\ \A other \in Ids : disk.transactions[other].rollback.id # rollback
    /\ AppendEvent(RollbackBegin(Tick(disk), id, rollback))
    /\ UNCHANGED <<files, handle, step, checkedOut, environment>>

ConsumeRollbackWriteLease(id) ==
    LET rb == disk.transactions[id].rollback IN
    /\ Mutable /\ Room(1)
    /\ disk.reservations[id].phase = "Durable" /\ file[id] = "full"
    /\ rb.id # NoId /\ rb.resolution = "None" /\ rb.pending = "None"
    /\ rb.lease # boot
    /\ AppendEvent(RollbackWriteLeaseConsume(Tick(disk), id, rb.id, boot))
    /\ rbLeases' = [rbLeases EXCEPT ![id] = @ + 1]
    /\ UNCHANGED <<files, handle, step, checkedOut, boot, parent, issued, txLeases, faults,
                   lost>>

ResolveRollback(id, resolution) ==
    LET rb == disk.transactions[id].rollback IN
    /\ Mutable /\ Room(2)
    /\ disk.reservations[id].phase = "Durable" /\ file[id] = "full"
    /\ rb.id # NoId /\ rb.resolution # resolution /\ ~Resolved(rb.resolution)
    /\ AppendEvent(RollbackResolveIntent(Tick(disk), id, rb.id,
                                    TransactionPhase(rb.resolution), resolution))
    /\ step' = "RollbackResolveFinish"
    /\ UNCHANGED <<files, handle, checkedOut, environment>>

RollbackResolveFinish ==
    /\ step = "RollbackResolveFinish"
    /\ AppendEvent(RollbackResolveComplete(Tick(disk), disk.pending,
                                      disk.transactions[disk.pending].rollback.id))
    /\ step' = "idle"
    /\ UNCHANGED <<files, handle, checkedOut, environment>>

(***************************************************************************)
(* compact_journal, called by an operation that needs room or by open.  A  *)
(* compaction that fails leaves the old generation and fails the handle.   *)
(***************************************************************************)
\* Faulty variant: the new generation never replaces the old one.
CompactionNotInstalled(onSuccess, onFailure) ==
    /\ handle' = onFailure /\ step' = "idle"
    /\ UNCHANGED <<disk, events, files, checkedOut, environment>>

Compaction(onSuccess, onFailure) ==
    /\ IF LayoutOk /\ CompactionValid(disk)
       THEN /\ disk' = CompactedState(disk)
            /\ events' = Len(CompactionEvents(disk))
            /\ handle' = onSuccess
       ELSE /\ handle' = onFailure
            /\ UNCHANGED <<disk, events>>
    /\ step' = "idle"
    /\ UNCHANGED <<files, checkedOut, environment>>

CompactForRoom ==
    /\ Mutable
    /\ CompactionDue(disk, events, 2)
    /\ Compaction("open", "failed")

(***************************************************************************)
(* open: reconcile_pending finishes or undoes the operation the last       *)
(* handle left, validate_layout checks the result, and the journal is      *)
(* compacted when that is due.                                             *)
(***************************************************************************)
Open ==
    /\ handle = "closed" /\ disk.verdict = "ok"
    /\ handle' = "opening"
    /\ step' = IF disk.pending = NoId THEN "Layout" ELSE "Reconcile"
    /\ UNCHANGED <<disk, events, files, checkedOut, environment>>

PendingPhase == disk.reservations[disk.pending].phase
PendingResolution == disk.transactions[disk.pending].pending
PendingRollbackResolution == disk.transactions[disk.pending].rollback.pending

ReconcileResolve ==
    /\ step = "Reconcile"
    /\ PendingResolution # "None"
    /\ AppendEvent(TransactionResolveComplete(Tick(disk), disk.pending))
    /\ step' = "Layout"
    /\ UNCHANGED <<files, handle, checkedOut, environment>>

ReconcileRollback ==
    /\ step = "Reconcile"
    /\ PendingResolution = "None" /\ PendingRollbackResolution # "None"
    /\ AppendEvent(RollbackResolveComplete(Tick(disk), disk.pending,
                                      disk.transactions[disk.pending].rollback.id))
    /\ step' = "Layout"
    /\ UNCHANGED <<files, handle, checkedOut, environment>>

\* A file that looks complete is taken as it is, synchronized or not, and one that
\* is already gone is not removed again.
ReconcileReserve ==
    /\ step = "Reconcile" /\ PendingPhase = "ReservePending"
    /\ IF file[disk.pending] = "zero"
       THEN /\ AppendEvent(ReserveComplete(Tick(disk), disk.pending))
            /\ step' = "Layout"
            /\ UNCHANGED file
       ELSE /\ file' = [file EXCEPT ![disk.pending] = "absent"]
            /\ step' = IF file[disk.pending] = "absent" THEN "AbortReserve" ELSE "AbortSync"
            /\ UNCHANGED <<disk, events>>
    /\ UNCHANGED <<stable, handle, checkedOut, environment>>

AbortSync == SyncFile("AbortSync", "AbortReserve")

AbortReserve ==
    /\ step = "AbortReserve"
    /\ AppendEvent(ReserveAbort(Tick(disk), disk.pending))
    /\ step' = "Layout"
    /\ UNCHANGED <<files, handle, checkedOut, environment>>

\* Faulty variants: a file of the right size is taken for a complete backup, and
\* a partly written backup makes open fail.
TrustsFileSize ==
    /\ step = "Reconcile" /\ PendingPhase = "PersistPending"
    /\ AppendEvent(PersistComplete(Tick(disk), disk.pending))
    /\ step' = "Layout"
    /\ UNCHANGED <<files, handle, checkedOut, environment>>

RefusesTornBackup ==
    /\ step = "Reconcile" /\ PendingPhase = "PersistPending"
    /\ IF file[disk.pending] = "full"
       THEN /\ AppendEvent(PersistComplete(Tick(disk), disk.pending))
            /\ step' = "Layout" /\ UNCHANGED handle
       ELSE /\ handle' = "closed" /\ step' = "idle"
            /\ UNCHANGED <<disk, events>>
    /\ UNCHANGED <<files, checkedOut, environment>>

ReconcilePersist ==
    /\ step = "Reconcile" /\ PendingPhase = "PersistPending"
    /\ IF file[disk.pending] = "full"
       THEN /\ AppendEvent(PersistComplete(Tick(disk), disk.pending))
            /\ step' = "Layout"
            /\ UNCHANGED file
       ELSE /\ file' = [file EXCEPT ![disk.pending] = "truncated"]
            /\ step' = "ResetAllocate"
            /\ UNCHANGED <<disk, events>>
    /\ UNCHANGED <<stable, handle, checkedOut, environment>>

\* reset_pending_backup_file after the truncation: allocate and synchronize.
ResetAllocate == ChangeFile("ResetAllocate", "zero", "ResetSync")
ResetSync == SyncFile("ResetSync", "AbortPersist")

AbortPersist ==
    /\ step = "AbortPersist"
    /\ AppendEvent(PersistAbort(Tick(disk), disk.pending))
    /\ step' = "Layout"
    /\ UNCHANGED <<files, handle, checkedOut, environment>>

ReconcileRelease ==
    /\ step = "Reconcile" /\ PendingPhase \in {"CancelPending", "RetirePending"}
    /\ file' = [file EXCEPT ![disk.pending] = "absent"]
    /\ step' = IF file[disk.pending] = "absent" THEN "FinishRelease" ELSE "RemoveSync"
    /\ UNCHANGED <<disk, events, stable, handle, checkedOut, environment>>

RemoveSync == SyncFile("RemoveSync", "FinishRelease")

FinishRelease ==
    /\ step = "FinishRelease"
    /\ AppendEvent(ReleaseComplete(Tick(disk), disk.pending))
    /\ step' = "Layout"
    /\ UNCHANGED <<files, handle, checkedOut, environment>>

\* validate_layout fails: no handle is returned.
OpenRefused ==
    /\ step = "Layout"
    /\ ~LayoutOk
    /\ handle' = "closed" /\ step' = "idle"
    /\ UNCHANGED <<disk, events, files, checkedOut, environment>>

OpenReady ==
    /\ step = "Layout"
    /\ LayoutOk /\ ~CompactionDue(disk, events, 0)
    /\ handle' = "open" /\ step' = "idle"
    /\ UNCHANGED <<disk, events, files, checkedOut, environment>>

OpenCompact ==
    /\ step = "Layout"
    /\ LayoutOk /\ CompactionDue(disk, events, 0)
    /\ Compaction("open", "closed")

(***************************************************************************)
(* Faults.  A failed file operation or append fails the handle, or the     *)
(* open in progress; a crash ends the process; power loss also settles the *)
(* files and starts a new boot, perhaps with the Vault attached elsewhere. *)
(***************************************************************************)
Dropped == handle' = "closed" /\ step' = "idle" /\ checkedOut' = {}

OperationFails ==
    /\ handle \in {"open", "opening"}
    /\ faults < MaxFaults /\ faults' = faults + 1
    /\ handle' = IF handle = "opening" THEN "closed" ELSE "failed"
    /\ step' = "idle"
    /\ UNCHANGED <<disk, events, files, checkedOut, boot, parent, issued, txLeases, rbLeases,
                   lost>>

\* The caller drops the handle after its request.
Close ==
    /\ handle \in {"open", "failed"} /\ step = "idle"
    /\ Dropped
    /\ UNCHANGED <<disk, events, files, environment>>

Crash ==
    /\ handle # "closed"
    /\ faults < MaxFaults /\ faults' = faults + 1
    /\ Dropped
    /\ UNCHANGED <<disk, events, files, boot, parent, issued, txLeases, rbLeases, lost>>

Reboot ==
    /\ boot < MaxBoots /\ boot' = boot + 1
    /\ parent' \in Parents
    /\ Dropped
    /\ file' \in [Ids -> FileState]
    /\ \A id \in Ids : file'[id] \in AfterPowerLoss(file[id], stable[id])
    /\ stable' = file'
    /\ lost' = lost \cup {id \in Ids : /\ disk.reservations[id].phase \in SettledPhase
                                      /\ file[id] # stable[id]}
    /\ txLeases' = [id \in Ids |-> 0] /\ rbLeases' = [id \in Ids |-> 0]
    /\ UNCHANGED <<disk, events, issued, faults>>

(***************************************************************************)
(* The specification.                                                      *)
(***************************************************************************)
Request ==
    \/ \E id \in Ids :
        \/ \E draft \in Drafts : ReserveBackup(id, draft)
        \/ ResumeReserved(id)
        \/ PersistBackup(id)
        \/ PersistRefused(id)
        \/ CancelReserved(id)
        \/ RetireBackup(id)
        \/ ConsumeWriteLease(id)
        \/ \E resolution \in Outcome : ResolveTransaction(id, resolution)
        \/ \E rollback \in RollbackIds : BeginRollback(id, rollback)
        \/ ConsumeRollbackWriteLease(id)
        \/ \E resolution \in RollbackOutcome : ResolveRollback(id, resolution)
    \/ CompactForRoom

OperationStep ==
    \/ ReserveCreate \/ ReserveAllocate \/ ReserveSync \/ ReserveFinish
    \/ PersistWrite \/ PersistFlush \/ PersistSync \/ PersistFinish
    \/ ReleaseRemove \/ ReleaseSync \/ ReleaseFinish
    \/ ResolveFinish \/ RollbackResolveFinish

OpenStep ==
    \/ ReconcileResolve \/ ReconcileRollback
    \/ ReconcileReserve \/ AbortSync \/ AbortReserve
    \/ ReconcilePersist \/ ResetAllocate \/ ResetSync \/ AbortPersist
    \/ ReconcileRelease \/ RemoveSync \/ FinishRelease
    \/ OpenRefused \/ OpenReady \/ OpenCompact

Next ==
    \/ Request \/ OperationStep
    \/ Open \/ OpenStep
    \/ OperationFails \/ Close \/ Crash \/ Reboot

Spec == Init /\ [][Next]_vars

\* A started operation or open runs on until it ends or a fault stops it, a
\* dropped store is opened again by the next request, and the caller of a request
\* drops a failed handle.  An open is in progress exactly in the opening steps, so
\* the second conjunct is weak fairness of OpenStep with its enabling condition
\* written out.
FairSpec ==
    /\ Spec
    /\ WF_vars(OperationStep) /\ WF_vars(Open)
    /\ []<>(step \notin OpeningStep) \/ []<><<OpenStep>>_vars
    /\ WF_vars(handle = "failed" /\ Close)

(***************************************************************************)
(* Type invariant.                                                         *)
(***************************************************************************)
ReservationRecord ==
    [phase : ReservationPhase, draft : Drafts \cup {0}, parent : Parents \cup {0},
     resolution : Outcome \cup {"Absent"}]
ReleaseTombstone ==
    [operation : {"None", "Cancel", "Retire"}, record : ReservationRecord, at : Nat]
RollbackRecord ==
    [id : RollbackIds \cup {NoId}, resolution : RollbackOutcome \cup {"Absent", "None"},
     pending : RollbackOutcome \cup {"None"}, lease : Nat]
TransactionRecord ==
    [resolution : Outcome \cup {"Absent", "None"}, pending : Outcome \cup {"None"},
     lease : Nat, rollback : RollbackRecord]
RecoveredState ==
    [reservations : [Ids -> ReservationRecord],
     released     : [Ids -> ReleaseTombstone],
     seen         : SUBSET Ids,
     pending      : Ids \cup {NoId},
     transactions : [Ids -> TransactionRecord],
     openTransaction : Ids \cup {NoId},
     openRollback    : Ids \cup {NoId},
     clock        : Nat,
     generation   : Nat,
     restoring    : {<<>>},
     verdict      : {"ok", "corrupt"}]

\* The store's state is well formed; in particular the durable journal never ends
\* inside a restored snapshot and events counts at most MAX_JOURNAL_EVENTS entries.
TypeOK ==
    /\ disk \in RecoveredState
    /\ events \in 0..MaxEvents
    /\ file \in [Ids -> FileState] /\ stable \in [Ids -> FileState]
    /\ handle \in {"closed", "opening", "open", "failed"}
    /\ step \in HandlerStep \cup OpeningStep \cup {"idle"}
    /\ checkedOut \in SUBSET Ids
    /\ boot \in 1..MaxBoots /\ parent \in Parents
    /\ issued \in SUBSET Ids
    /\ txLeases \in [Ids -> Nat] /\ rbLeases \in [Ids -> Nat]
    /\ faults \in 0..MaxFaults
    /\ lost \in SUBSET Ids

(***************************************************************************)
(* Safety.                                                                 *)
(***************************************************************************)
\* Whatever an operation or a reconciliation appends passes the guards of
\* apply_repair_event: no sequence of requests, crashes and compactions makes the
\* journal unreadable.
NeverCorrupt == disk.verdict = "ok"

FileMatches(phase, f) ==
    /\ phase = "Absent"   => f = "absent"
    /\ phase = "Reserved" => f = "zero"
    /\ phase = "Durable"  => f = "full"
FileKept(id, phase) == id \in lost \/ FileMatches(phase, file[id])

\* The file of a reservation is what its settled phase promises, except where a
\* power loss hit a completed operation before its file was synchronized.  In
\* particular a durable backup is there in full until its retirement has been
\* decided, a reservation holds zeroes, and a file without a reservation does not
\* exist: open would refuse the store for good.
FilesMatchJournal == \A id \in Ids : FileKept(id, disk.reservations[id].phase)

\* Power loss at any step, during recovery too, never costs a completed operation
\* its file as long as no process crashed and no file operation failed.
PowerLossAloneHarmless == faults = 0 => lost = {}

\* One repair at a time: the records hold at most one unresolved transaction or
\* rollback, the singleton fields name exactly that one, and an unresolved one has
\* its complete backup to restore from, unless a power loss took it.
OneUnresolvedRepair ==
    /\ OpenTransactions(disk) = SingletonOf(disk.openTransaction)
    /\ OpenRollbacks(disk) = SingletonOf(disk.openRollback)
    /\ disk.openTransaction = NoId \/ disk.openRollback = NoId
    /\ \A id \in OpenTransactions(disk) \cup OpenRollbacks(disk) :
          disk.reservations[id].phase = "Durable" /\ (id \in lost \/ file[id] = "full")

\* In one boot the Vault hands out at most one write lease for a transaction and
\* at most one for its rollback, whatever crashes and compactions come between.
LeaseOncePerBoot == \A id \in Ids : txLeases[id] <= 1 /\ rbLeases[id] <= 1

\* An intent is only appended while the journal has room for the event that
\* completes or aborts it, so that reconciliation at open can always append it.
ReconciliationHasRoom == disk.pending # NoId => events < MaxEvents

\* A draft has at most one reservation, live or remembered: a retried request
\* never allocates a second backup for the same repair.
DraftReservedOnce ==
    LET holders == Active(disk) \cup Released(disk)
        DraftOf(id) == IF id \in Active(disk) THEN disk.reservations[id].draft
                                              ELSE disk.released[id].record.draft
    IN /\ Active(disk) \cap Released(disk) = {}
       /\ \A a, b \in holders : DraftOf(a) = DraftOf(b) => a = b

\* The snapshot of a tombstone reserves a slot again before it releases it: there
\* is one for it next to the reservations that are restored before.
TombstonesFit(st) ==
    \/ RetainedReleases(st) = {}
    \/ Cardinality(Active(st) \ UnresolvedIds(st)) < MaxReservations

\* Whenever nothing is in progress the journal can be compacted, its snapshot
\* replaying to exactly the state it stands for, unless every slot is taken by a
\* settled reservation while a tombstone is retained; and then it cannot.
CompactionDecided == disk.pending = NoId => (CompactionValid(disk) <=> TombstonesFit(disk))

\* The same where it decides over the store: open compacts a journal that is due,
\* and returns no handle when that fails.
DueCompactionSucceeds ==
    disk.pending = NoId /\ CompactionDue(disk, events, 0) => CompactionValid(disk)

(***************************************************************************)
(* Action properties.                                                      *)
(***************************************************************************)
KeepsResolution(old, new) ==
    /\ Resolved(old.resolution) /\ new.resolution # "Absent"
          => new.resolution = old.resolution
    /\ Resolved(old.rollback.resolution) /\ new.resolution # "Absent"
          => new.rollback = old.rollback
    /\ old.resolution # "Absent" /\ new.resolution = "Absent"
          => Resolved(old.resolution) /\ RollbackClosed(old)

FollowsIntent(old, new) ==
    /\ old.pending # "None" =>
          \/ new.pending = old.pending /\ new.resolution = old.resolution
          \/ new.pending = "None" /\ new.resolution = old.pending
    /\ old.rollback.pending # "None" =>
          \/ new.rollback = old.rollback
          \/ /\ new.rollback.pending = "None"
             /\ new.rollback.resolution = old.rollback.pending

\* A final resolution never changes, and the record of a transaction goes away
\* only by retirement, with the transaction and its rollback resolved.
ResolutionFinal ==
    [][\A id \in Ids : KeepsResolution(disk.transactions[id], disk'.transactions[id])]_vars

\* A resolution whose intent is durable is the one that gets recorded, also when
\* it is completed by the reconciliation after a crash.
IntentDecides ==
    [][\A id \in Ids : FollowsIntent(disk.transactions[id], disk'.transactions[id])]_vars

\* A release is forgotten only when its window of TombstoneTTL events has passed
\* or when MaxRetained newer releases crowd it out.
TombstonesKept ==
    [][\A id \in Released(disk) \ Released(disk') :
        \/ disk.clock > disk.released[id].at + TombstoneTTL
        \/ Cardinality({other \in Released(disk) :
                          disk.released[other].at > disk.released[id].at}) >= MaxRetained]_vars

(***************************************************************************)
(* Liveness.                                                               *)
(***************************************************************************)
\* An operation that a crash, a power loss or an error interrupted is completed
\* or undone.
InterruptedSettles == disk.pending # NoId ~> disk.pending = NoId

\* A dropped store comes back into service: open refuses no state that crashes,
\* power losses and failures leave, unless a power loss cost a completed file.
StoreReopens == handle = "closed" ~> (handle = "open" \/ lost # {})

(***************************************************************************)
(* Refinement: the Vault as the repair service sees it.                    *)
(***************************************************************************)
VaultPhase(phase, resolution) ==
    CASE phase \in {"Absent", "ReservePending"} -> "free"
      [] phase \in {"Reserved", "PersistPending", "CancelPending"} -> "reserved"
      [] resolution = "CommittedAfter" -> "committed"
      [] resolution = "ClosedBefore"   -> "closed"
      [] resolution = "Manual"         -> "manual"
      [] OTHER                         -> "pending"

VaultChild(resolution) ==
    CASE resolution = "Absent" -> "none"
      [] resolution = "None"   -> "pending"
      [] resolution = "Manual" -> "manual"
      [] OTHER                 -> "rolledBack"

VaultView ==
    [id \in Ids |->
        LET transaction == disk.transactions[id]
        IN [phase |-> VaultPhase(disk.reservations[id].phase, transaction.resolution),
            lease |-> transaction.lease,
            child |-> VaultChild(transaction.rollback.resolution),
            childLease |-> transaction.rollback.lease]]

Vault == INSTANCE RepairVault WITH tx <- VaultView

\* Journal, files, reconciliation and compaction together behave as one atomic
\* record per reservation: no crash, power loss or failed append shows the repair
\* service a state the promised operations do not lead to.
StoreIsVault == Vault!VaultSpec
=============================================================================

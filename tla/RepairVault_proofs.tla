------------------------- MODULE RepairVault_proofs -------------------------
(***************************************************************************)
(* The Repair Vault store keeps what RepairVault promises: every step of   *)
(* the store, with its journal, files, crashes and compactions, is a step  *)
(* of the abstract Vault or none.  On the way: a draft is reserved once,   *)
(* and a release is forgotten only when the retention rule says so.  And   *)
(* compact_journal succeeds exactly when the tombstones fit.               *)
(*                                                                         *)
(* The first part reads off what one appended event changes.  StoreInv has *)
(* already shown that no event is ever rejected, so the guard of the event *)
(* holds wherever the store appends it: apply_repair_event's own checks    *)
(* are facts about the state before.  The second part shows HistoryInv     *)
(* inductive, the third the refinement, the fourth what a compaction's     *)
(* events replay to.                                                       *)
(***************************************************************************)
EXTENDS RepairStore_proofs, WellFoundedInduction

\* The event replaces the reservation, the transaction and the tombstone of id, and
\* nothing of another identifier.
Sets(new, st, id, r, tx, release) ==
    /\ new.reservations = [st.reservations EXCEPT ![id] = r]
    /\ new.transactions = [st.transactions EXCEPT ![id] = tx]
    /\ new.released = [st.released EXCEPT ![id] = release]
    /\ new.clock = st.clock

\* The types of the fields an event reads.
FieldsOk(st, id) ==
    /\ st.reservations \in [Ids -> ReservationRecord]
    /\ st.transactions \in [Ids -> TransactionRecord]
    /\ st.released \in [Ids -> ReleaseTombstone]
    /\ st.reservations[id] \in ReservationRecord
    /\ st.transactions[id] \in TransactionRecord
    /\ st.transactions[id].rollback \in RollbackRecord
    /\ st.clock \in Nat

\* They follow from the type of the recovered state.
LEMMA FieldTypes ==
    ASSUME NEW st \in RecoveredState, NEW id \in Ids
    PROVE  FieldsOk(st, id)
  <1>1. /\ st.reservations \in [Ids -> ReservationRecord]
        /\ st.transactions \in [Ids -> TransactionRecord]
        /\ st.released \in [Ids -> ReleaseTombstone] /\ st.clock \in Nat
    BY DEF RecoveredState
  <1>2. st.transactions[id].rollback \in RollbackRecord
    BY <1>1 DEF TransactionRecord
  <1> QED BY <1>1, <1>2 DEF FieldsOk

\* A rejected event leaves a corrupt state: one that is "ok" was accepted.
LEMMA Rejected ==
    ASSUME NEW st \in RecoveredState
    PROVE  [st EXCEPT !.verdict = "corrupt"].verdict = "corrupt"
  BY DEF RecoveredState

\* reserve_backup appends its intent: a reservation of a fresh identifier.
LEMMA ReserveIntentSets ==
    ASSUME NEW st \in RecoveredState, NEW id \in Ids, NEW draft, NEW par, NEW new,
           new = ReserveIntent(st, id, draft, par), new.verdict = "ok"
    PROVE  /\ id \notin Active(st) /\ id \notin Released(st)
           /\ Cardinality(Active(st)) < MaxReservations
           /\ Sets(new, st, id,
                   [phase |-> "ReservePending", draft |-> draft, parent |-> par,
                    resolution |-> "Absent"],
                   st.transactions[id], st.released[id])
  <1> DEFINE r == [phase |-> "ReservePending", draft |-> draft, parent |-> par,
                   resolution |-> "Absent"]
  <1>1. /\ id \notin Active(st) /\ id \notin Released(st)
        /\ Cardinality(Active(st)) < MaxReservations
        /\ new = [st EXCEPT !.seen = @ \cup {id}, !.pending = id, !.reservations[id] = r]
    BY Rejected DEF ReserveIntent, Guarded
  <1> HIDE DEF r
  <1>2. Sets(new, st, id, r, st.transactions[id], st.released[id])
    BY <1>1 DEF Sets, RecoveredState
  <1> QED BY <1>1, <1>2 DEF r

\* A pending reservation becomes a reservation.
LEMMA ReserveCompleteSets ==
    ASSUME NEW st \in RecoveredState, NEW id \in Ids, NEW new,
           new = ReserveComplete(st, id), new.verdict = "ok"
    PROVE  /\ st.pending = id /\ st.reservations[id].phase = "ReservePending"
           /\ Sets(new, st, id, [st.reservations[id] EXCEPT !.phase = "Reserved"],
                   st.transactions[id],
                   st.released[id])
  <1>1. /\ st.pending = id /\ st.reservations[id].phase = "ReservePending"
        /\ new = [st EXCEPT !.pending = NoId, !.reservations[id].phase = "Reserved"]
    BY Rejected DEF ReserveComplete, Guarded
  <1>2. FieldsOk(st, id)
    BY FieldTypes
  <1> QED BY <1>1, <1>2
          DEF Sets, RecoveredState, FieldsOk, ReservationRecord, TransactionRecord, RollbackRecord

\* A pending reservation is withdrawn.
LEMMA ReserveAbortSets ==
    ASSUME NEW st \in RecoveredState, NEW id \in Ids, NEW new,
           new = ReserveAbort(st, id), new.verdict = "ok"
    PROVE  /\ st.pending = id /\ st.reservations[id].phase = "ReservePending"
           /\ Sets(new, st, id, NoReservation,
                   st.transactions[id],
                   st.released[id])
  <1>1. /\ st.pending = id /\ st.reservations[id].phase = "ReservePending"
        /\ new = [st EXCEPT !.pending = NoId, !.reservations[id] = NoReservation]
    BY Rejected DEF ReserveAbort, Guarded
  <1>2. FieldsOk(st, id)
    BY FieldTypes
  <1> QED BY <1>1, <1>2
          DEF Sets, RecoveredState, FieldsOk, ReservationRecord, TransactionRecord, RollbackRecord

\* A reservation is about to be persisted.
LEMMA PersistIntentSets ==
    ASSUME NEW st \in RecoveredState, NEW id \in Ids, NEW new,
           new = PersistIntent(st, id), new.verdict = "ok"
    PROVE  /\ st.reservations[id].phase = "Reserved"
           /\ Sets(new, st, id, [st.reservations[id] EXCEPT !.phase = "PersistPending"],
                   st.transactions[id],
                   st.released[id])
  <1>1. /\ st.reservations[id].phase = "Reserved"
        /\ new = [st EXCEPT !.pending = id, !.reservations[id].phase = "PersistPending"]
    BY Rejected DEF PersistIntent, Guarded
  <1>2. FieldsOk(st, id)
    BY FieldTypes
  <1> QED BY <1>1, <1>2
          DEF Sets, RecoveredState, FieldsOk, ReservationRecord, TransactionRecord, RollbackRecord

\* The backup is durable and its transaction begins.
LEMMA PersistCompleteSets ==
    ASSUME NEW st \in RecoveredState, NEW id \in Ids, NEW new,
           new = PersistComplete(st, id), new.verdict = "ok"
    PROVE  /\ st.pending = id /\ st.reservations[id].phase = "PersistPending"
           /\ Sets(new, st, id, [st.reservations[id] EXCEPT !.phase = "Durable"],
                   [NoTransaction EXCEPT !.resolution = "None"],
                   st.released[id])
  <1>1. /\ st.pending = id /\ st.reservations[id].phase = "PersistPending"
        /\ new = [st EXCEPT !.pending = NoId, !.reservations[id].phase = "Durable",
                           !.transactions[id] = [NoTransaction EXCEPT !.resolution = "None"],
                           !.openTransaction = id]
    BY Rejected DEF PersistComplete, Guarded
  <1>2. FieldsOk(st, id)
    BY FieldTypes
  <1> QED BY <1>1, <1>2
          DEF Sets, RecoveredState, FieldsOk, ReservationRecord, TransactionRecord, RollbackRecord

\* A backup that was not completed is a reservation again.
LEMMA PersistAbortSets ==
    ASSUME NEW st \in RecoveredState, NEW id \in Ids, NEW new,
           new = PersistAbort(st, id), new.verdict = "ok"
    PROVE  /\ st.pending = id /\ st.reservations[id].phase = "PersistPending"
           /\ Sets(new, st, id, [st.reservations[id] EXCEPT !.phase = "Reserved"],
                   st.transactions[id],
                   st.released[id])
  <1>1. /\ st.pending = id /\ st.reservations[id].phase = "PersistPending"
        /\ new = [st EXCEPT !.pending = NoId, !.reservations[id].phase = "Reserved"]
    BY Rejected DEF PersistAbort, Guarded
  <1>2. FieldsOk(st, id)
    BY FieldTypes
  <1> QED BY <1>1, <1>2
          DEF Sets, RecoveredState, FieldsOk, ReservationRecord, TransactionRecord, RollbackRecord

\* A reservation is about to be cancelled.
LEMMA CancelIntentSets ==
    ASSUME NEW st \in RecoveredState, NEW id \in Ids, NEW new,
           new = CancelIntent(st, id), new.verdict = "ok"
    PROVE  /\ st.reservations[id].phase = "Reserved"
           /\ Sets(new, st, id, [st.reservations[id] EXCEPT !.phase = "CancelPending"],
                   st.transactions[id],
                   st.released[id])
  <1>1. /\ st.reservations[id].phase = "Reserved"
        /\ new = [st EXCEPT !.pending = id, !.reservations[id].phase = "CancelPending"]
    BY Rejected DEF CancelIntent, Guarded
  <1>2. FieldsOk(st, id)
    BY FieldTypes
  <1> QED BY <1>1, <1>2
          DEF Sets, RecoveredState, FieldsOk, ReservationRecord, TransactionRecord, RollbackRecord

\* A settled repair is about to be retired.
LEMMA RetireIntentSets ==
    ASSUME NEW st \in RecoveredState, NEW id \in Ids, NEW new,
           new = RetireIntent(st, id), new.verdict = "ok"
    PROVE  /\ st.reservations[id].phase = "Durable"
           /\ Resolved(st.transactions[id].resolution)
           /\ Sets(new, st, id, [st.reservations[id] EXCEPT !.phase = "RetirePending",
                                     !.resolution = st.transactions[id].resolution],
                   st.transactions[id],
                   st.released[id])
  <1>1. /\ st.reservations[id].phase = "Durable"
        /\ Resolved(st.transactions[id].resolution)
        /\ new = [st EXCEPT !.pending = id, !.reservations[id].phase = "RetirePending",
                           !.reservations[id].resolution = st.transactions[id].resolution]
    BY Rejected DEF RetireIntent, Guarded
  <1>2. FieldsOk(st, id)
    BY FieldTypes
  <1> DEFINE r == [st.reservations[id] EXCEPT !.phase = "RetirePending",
                                             !.resolution = st.transactions[id].resolution]
  <1>3. [[st.reservations EXCEPT ![id].phase = "RetirePending"] EXCEPT
            ![id].resolution = st.transactions[id].resolution]
        = [st.reservations EXCEPT ![id] = r]
    BY <1>2 DEF FieldsOk, ReservationRecord
  <1>4. new = [st EXCEPT !.pending = id, !.reservations = [st.reservations EXCEPT ![id] = r]]
    <2> HIDE DEF r
    <2> QED BY <1>1, <1>3 DEF RecoveredState
  <1> HIDE DEF r
  <1>5. Sets(new, st, id, r, st.transactions[id], st.released[id])
    BY <1>2, <1>4 DEF Sets, RecoveredState, FieldsOk
  <1> QED BY <1>1, <1>5 DEF r

\* A write lease of a boot is recorded.
LEMMA TransactionWriteLeaseConsumeSets ==
    ASSUME NEW st \in RecoveredState, NEW id \in Ids, NEW epoch, NEW new,
           new = TransactionWriteLeaseConsume(st, id, epoch), new.verdict = "ok"
    PROVE  /\ st.reservations[id].phase = "Durable"
           /\ st.transactions[id].resolution = "None"
           /\ st.transactions[id].pending = "None"
           /\ st.transactions[id].lease # epoch
           /\ Sets(new, st, id, st.reservations[id],
                   [st.transactions[id] EXCEPT !.lease = epoch],
                   st.released[id])
  <1>1. /\ st.reservations[id].phase = "Durable"
        /\ st.transactions[id].resolution = "None"
        /\ st.transactions[id].pending = "None"
        /\ st.transactions[id].lease # epoch
        /\ new = [st EXCEPT !.transactions[id].lease = epoch]
    BY Rejected DEF TransactionWriteLeaseConsume, Guarded
  <1>2. FieldsOk(st, id)
    BY FieldTypes
  <1> QED BY <1>1, <1>2
          DEF Sets, RecoveredState, FieldsOk, ReservationRecord, TransactionRecord, RollbackRecord

\* The outcome of a repair is decided.
LEMMA TransactionResolveIntentSets ==
    ASSUME NEW st \in RecoveredState, NEW id \in Ids, NEW phase, NEW resolution, NEW new,
           new = TransactionResolveIntent(st, id, phase, resolution), new.verdict = "ok"
    PROVE  /\ st.reservations[id].phase = "Durable" /\ id \in WithTransaction(st)
           /\ st.transactions[id].resolution # resolution
           /\ st.transactions[id].pending = "None"
           /\ Sets(new, st, id, st.reservations[id],
                   [st.transactions[id] EXCEPT !.pending = resolution],
                   st.released[id])
  <1>1. /\ st.reservations[id].phase = "Durable" /\ id \in WithTransaction(st)
        /\ st.transactions[id].resolution # resolution
        /\ st.transactions[id].pending = "None"
        /\ new = [st EXCEPT !.transactions[id].pending = resolution, !.pending = id]
    BY Rejected DEF TransactionResolveIntent, Guarded
  <1>2. FieldsOk(st, id)
    BY FieldTypes
  <1> QED BY <1>1, <1>2
          DEF Sets, RecoveredState, FieldsOk, ReservationRecord, TransactionRecord, RollbackRecord

\* The decided outcome of a repair is recorded.
LEMMA TransactionResolveCompleteSets ==
    ASSUME NEW st \in RecoveredState, NEW id \in Ids, NEW new,
           new = TransactionResolveComplete(st, id), new.verdict = "ok"
    PROVE  /\ st.pending = id /\ st.openTransaction = id
           /\ st.reservations[id].phase = "Durable"
           /\ st.transactions[id].pending # "None"
           /\ Sets(new, st, id, st.reservations[id],
                   [st.transactions[id] EXCEPT !.pending = "None",
                                               !.resolution = st.transactions[id].pending],
                   st.released[id])
  <1>1. /\ st.pending = id /\ st.openTransaction = id
        /\ st.reservations[id].phase = "Durable"
        /\ st.transactions[id].pending # "None"
        /\ new = [st EXCEPT !.pending = NoId,
               !.transactions[id] = [@ EXCEPT !.pending = "None",
                                              !.resolution = st.transactions[id].pending],
               !.openTransaction = IF Resolved(st.transactions[id].pending) THEN NoId ELSE @]
    BY Rejected DEF TransactionResolveComplete, Guarded
  <1>2. FieldsOk(st, id)
    BY FieldTypes
  <1> QED BY <1>1, <1>2
          DEF Sets, RecoveredState, FieldsOk, ReservationRecord, TransactionRecord, RollbackRecord

\* A write lease of a boot is recorded for the rollback.
LEMMA RollbackWriteLeaseConsumeSets ==
    ASSUME NEW st \in RecoveredState, NEW id \in Ids, NEW rollback, NEW epoch, NEW new,
           new = RollbackWriteLeaseConsume(st, id, rollback, epoch), new.verdict = "ok"
    PROVE  /\ st.transactions[id].rollback.resolution = "None"
           /\ st.transactions[id].rollback.pending = "None"
           /\ st.transactions[id].rollback.lease # epoch
           /\ Sets(new, st, id, st.reservations[id],
                   [st.transactions[id] EXCEPT !.rollback.lease = epoch],
                   st.released[id])
  <1>1. /\ st.transactions[id].rollback.resolution = "None"
        /\ st.transactions[id].rollback.pending = "None"
        /\ st.transactions[id].rollback.lease # epoch
        /\ new = [st EXCEPT !.transactions[id].rollback.lease = epoch]
    BY Rejected DEF RollbackWriteLeaseConsume, Guarded
  <1>2. FieldsOk(st, id)
    BY FieldTypes
  <1> QED BY <1>1, <1>2
          DEF Sets, RecoveredState, FieldsOk, ReservationRecord, TransactionRecord, RollbackRecord

\* The outcome of a rollback is decided.
LEMMA RollbackResolveIntentSets ==
    ASSUME NEW st \in RecoveredState, NEW id \in Ids, NEW rollback, NEW phase,
           NEW resolution, NEW new,
           new = RollbackResolveIntent(st, id, rollback, phase, resolution), new.verdict = "ok"
    PROVE  /\ st.transactions[id].rollback.resolution # resolution
           /\ st.transactions[id].rollback.pending = "None"
           /\ st.openRollback = id
           /\ Sets(new, st, id, st.reservations[id],
                   [st.transactions[id] EXCEPT !.rollback.pending = resolution],
                   st.released[id])
  <1>1. /\ st.transactions[id].rollback.resolution # resolution
        /\ st.transactions[id].rollback.pending = "None"
        /\ st.openRollback = id
        /\ new = [st EXCEPT !.transactions[id].rollback.pending = resolution, !.pending = id]
    BY Rejected DEF RollbackResolveIntent, Guarded
  <1>2. FieldsOk(st, id)
    BY FieldTypes
  <1> QED BY <1>1, <1>2
          DEF Sets, RecoveredState, FieldsOk, ReservationRecord, TransactionRecord, RollbackRecord

\* cancel_reserved and retire_backup complete: the tombstone remembers the
\* reservation and is dated by the clock.
LEMMA ReleaseCompleteSets ==
    ASSUME NEW st \in RecoveredState, NEW id \in Ids, NEW new,
           new = ReleaseComplete(st, id), new.verdict = "ok"
    PROVE  \E operation \in {"Cancel", "Retire"} :
              /\ st.pending = id /\ id \notin Released(st)
              /\ operation = "Cancel" => st.reservations[id].phase = "CancelPending"
              /\ operation = "Retire" =>
                    /\ st.reservations[id].phase = "RetirePending"
                    /\ Resolved(st.transactions[id].resolution)
                    /\ RollbackClosed(st.transactions[id])
              /\ Sets(new, st, id, NoReservation,
                      IF operation = "Cancel" THEN st.transactions[id] ELSE NoTransaction,
                      [operation |-> operation, record |-> st.reservations[id],
                       at |-> st.clock])
  <1> DEFINE release(operation) == [operation |-> operation, record |-> st.reservations[id],
                                    at |-> st.clock]
  <1>1. FieldsOk(st, id) /\ st.restoring = <<>>
    BY FieldTypes DEF RecoveredState
  <1>2. CASE st.reservations[id].phase = "CancelPending"
    <2>1. /\ st.pending = id /\ id \notin Released(st)
          /\ new = [st EXCEPT !.pending = NoId, !.reservations[id] = NoReservation,
                              !.released[id] = release("Cancel")]
      BY <1>1, <1>2, Rejected DEF ReleaseComplete, CancelComplete, Guarded, ReleaseTime
    <2> HIDE DEF release
    <2>2. Sets(new, st, id, NoReservation, st.transactions[id], release("Cancel"))
      BY <1>1, <2>1 DEF Sets, RecoveredState, FieldsOk
    <2> QED BY <1>2, <2>1, <2>2 DEF release
  <1>3. CASE st.reservations[id].phase # "CancelPending"
    <2>1. /\ st.pending = id /\ id \notin Released(st)
          /\ st.reservations[id].phase = "RetirePending"
          /\ Resolved(st.transactions[id].resolution)
          /\ RollbackClosed(st.transactions[id])
          /\ new = [st EXCEPT !.pending = NoId, !.reservations[id] = NoReservation,
                              !.transactions[id] = NoTransaction,
                              !.released[id] = release("Retire")]
      BY <1>1, <1>3, Rejected DEF ReleaseComplete, RetireComplete, Guarded, ReleaseTime
    <2> HIDE DEF release
    <2>2. Sets(new, st, id, NoReservation, NoTransaction, release("Retire"))
      BY <1>1, <2>1 DEF Sets, RecoveredState, FieldsOk
    <2> QED BY <2>1, <2>2 DEF release
  <1> QED BY <1>2, <1>3

(***************************************************************************)
(* What the store remembers of drafts and releases.                        *)
(***************************************************************************)
\* The body of TombstonesKept: what a step may forget.
Expired(id) ==
    \/ disk.clock > disk.released[id].at + TombstoneTTL
    \/ Cardinality({other \in Released(disk) :
                      disk.released[other].at > disk.released[id].at}) >= MaxRetained
ForgetsExpired == \A id \in Released(disk) \ Released(disk') : Expired(id)

\* An event appended by an action: the clock ticks, the rest is as the event says.
Appends(id, r, tx, release) ==
    /\ disk'.reservations = [disk.reservations EXCEPT ![id] = r]
    /\ disk'.transactions = [disk.transactions EXCEPT ![id] = tx]
    /\ disk'.released = [disk.released EXCEPT ![id] = release]
    /\ disk'.clock = disk.clock + 1

\* The state an event is applied to: the replayed journal with the clock ticked.
LEMMA TickedState ==
    ASSUME StoreInv
    PROVE  /\ Tick(disk) \in RecoveredState /\ disk \in RecoveredState
           /\ Tick(disk).reservations = disk.reservations
           /\ Tick(disk).transactions = disk.transactions
           /\ Tick(disk).released = disk.released
           /\ Tick(disk).pending = disk.pending
           /\ Tick(disk).openTransaction = disk.openTransaction
           /\ Tick(disk).openRollback = disk.openRollback
           /\ Tick(disk).clock = disk.clock + 1
           /\ Active(Tick(disk)) = Active(disk) /\ Released(Tick(disk)) = Released(disk)
           /\ WithTransaction(Tick(disk)) = WithTransaction(disk)
  <1> DEFINE st == Tick(disk)
  <1>1. disk \in RecoveredState /\ disk.restoring = <<>>
    BY DEF StoreInv, TypeOK, RecoveredState
  <1>2. st = [disk EXCEPT !.clock = disk.clock + 1]
    BY <1>1 DEF Tick
  <1>3. /\ st \in RecoveredState
        /\ st.reservations = disk.reservations /\ st.transactions = disk.transactions
        /\ st.released = disk.released /\ st.pending = disk.pending
        /\ st.openTransaction = disk.openTransaction /\ st.openRollback = disk.openRollback
        /\ st.clock = disk.clock + 1
    BY <1>1, <1>2 DEF RecoveredState
  <1> HIDE DEF st
  <1>4. Active(st) = Active(disk) /\ Released(st) = Released(disk)
        /\ WithTransaction(st) = WithTransaction(disk)
    BY <1>3 DEF Active, Released, WithTransaction
  <1> QED BY <1>1, <1>3, <1>4 DEF st

\* An event about the ticked state is an append to the journal.
LEMMA SetsAppends ==
    ASSUME StoreInv, NEW id \in Ids, NEW r, NEW tx, NEW release,
           Sets(disk', Tick(disk), id, r, tx, release)
    PROVE  Appends(id, r, tx, release)
  BY TickedState DEF Sets, Appends

\* An identifier that a draft was reserved for, live or released, and its draft.
Holds(st, id) ==
    st.reservations[id].phase # "Absent" \/ st.released[id].operation # "None"
DraftOf(st, id) ==
    IF st.reservations[id].phase # "Absent" THEN st.reservations[id].draft
                                            ELSE st.released[id].record.draft

\* DraftReservedOnce, identifier by identifier.
DraftsDiffer(st) ==
    \A a, b \in Ids : Holds(st, a) /\ Holds(st, b) /\ DraftOf(st, a) = DraftOf(st, b) => a = b

\* The invariant says so of the state before a step ...
LEMMA DraftsBefore ==
    ASSUME DraftReservedOnce
    PROVE  DraftsDiffer(disk)
  BY DEF DraftReservedOnce, DraftsDiffer, Holds, DraftOf, Active, Released

\* ... and has to be shown of the state after it.
LEMMA DraftsAfter ==
    ASSUME StoreInv', DraftsDiffer(disk')
    PROVE  DraftReservedOnce'
  <1>1. \A id \in Ids : disk'.released[id].operation # "None"
                          => disk'.reservations[id].phase = "Absent"
    BY DEF StoreInv, JournalInv, ReleaseInv, Released
  <1>2. (Active(disk) \cap Released(disk) = {})'
    BY <1>1 DEF Active, Released
  <1> QED BY <1>2 DEF DraftReservedOnce, DraftsDiffer, Holds, DraftOf, Active, Released

\* A step after which every holder held the same draft before.
LEMMA DraftsKept ==
    ASSUME StoreInv', HistoryInv,
           \A k \in Ids : Holds(disk', k) =>
                             Holds(disk, k) /\ DraftOf(disk', k) = DraftOf(disk, k)
    PROVE  DraftReservedOnce'
  <1>1. DraftsDiffer(disk)
    BY DraftsBefore DEF HistoryInv
  <1>2. DraftsDiffer(disk')
    BY <1>1 DEF DraftsDiffer
  <1> QED BY <1>2, DraftsAfter

\* The records of the other identifiers are those of before.
LEMMA AppendedRecords ==
    ASSUME StoreInv, NEW id \in Ids, NEW r, NEW tx, NEW release, Appends(id, r, tx, release)
    PROVE  /\ disk'.reservations[id] = r /\ disk'.transactions[id] = tx
           /\ disk'.released[id] = release
           /\ \A k \in Ids \ {id} : /\ disk'.reservations[k] = disk.reservations[k]
                                    /\ disk'.transactions[k] = disk.transactions[k]
                                    /\ disk'.released[k] = disk.released[k]
           /\ disk'.clock = disk.clock + 1 /\ disk.clock \in Nat
           /\ \A k \in Ids : disk.released[k].at \in Nat
  <1>1. disk \in RecoveredState
    BY DEF StoreInv, TypeOK
  <1>2. FieldsOk(disk, id)
    BY <1>1, FieldTypes
  <1>3. \A k \in Ids : disk.released[k].at \in Nat
    BY <1>2 DEF FieldsOk, ReleaseTombstone
  <1> QED BY <1>2, <1>3 DEF Appends, FieldsOk

\* What an event may leave of the reservation and the transaction of id: both in
\* shape, and a rollback that keeps its identifier or takes an unused one.
InShape(id, r, tx) ==
    /\ ReservationShape(r) /\ TransactionShape(tx)
    /\ \/ tx.rollback.id = NoId
       \/ tx.rollback.id = disk.transactions[id].rollback.id
       \/ \A k \in Ids : disk.transactions[k].rollback.id # tx.rollback.id

\* The shapes of all records.
Shapes(st) ==
    /\ \A id \in Ids : /\ TransactionShape(st.transactions[id])
                       /\ ReservationShape(st.reservations[id])
                       /\ ReleaseShape(st.released[id])
    /\ RollbacksDiffer(st)

\* The records keep their shape when the event leaves those of id in shape.
LEMMA ShapesKept ==
    ASSUME StoreInv, HistoryInv, NEW id \in Ids, NEW r, NEW tx, NEW release,
           Appends(id, r, tx, release), InShape(id, r, tx), ReleaseShape(release)
    PROVE  Shapes(disk')
  <1>1. /\ disk'.reservations[id] = r /\ disk'.transactions[id] = tx
        /\ disk'.released[id] = release
        /\ \A k \in Ids \ {id} : /\ disk'.reservations[k] = disk.reservations[k]
                                 /\ disk'.transactions[k] = disk.transactions[k]
                                 /\ disk'.released[k] = disk.released[k]
    BY AppendedRecords
  <1>2. ASSUME NEW k \in Ids
        PROVE  /\ TransactionShape(disk'.transactions[k])
               /\ ReservationShape(disk'.reservations[k])
               /\ ReleaseShape(disk'.released[k])
    <2>1. /\ TransactionShape(disk.transactions[k]) /\ ReservationShape(disk.reservations[k])
          /\ ReleaseShape(disk.released[k])
      BY DEF HistoryInv
    <2>2. CASE k = id
      BY <1>1, <2>2 DEF InShape
    <2>3. CASE k # id
      BY <1>1, <2>1, <2>3
    <2> QED BY <2>2, <2>3
  <1>3. RollbacksDiffer(disk')
    <2>1. RollbacksDiffer(disk)
      BY DEF HistoryInv
    <2> SUFFICES ASSUME NEW a \in Ids, NEW b \in Ids, a # b,
                        disk'.transactions[a].rollback.id # NoId,
                        disk'.transactions[a].rollback.id = disk'.transactions[b].rollback.id
                 PROVE  FALSE
      BY DEF RollbacksDiffer
    <2>2. CASE a # id /\ b # id
      BY <1>1, <2>1, <2>2 DEF RollbacksDiffer
    <2>3. CASE a = id
      BY <1>1, <2>1, <2>3 DEF RollbacksDiffer, InShape
    <2>4. CASE b = id
      BY <1>1, <2>1, <2>4 DEF RollbacksDiffer, InShape
    <2> QED BY <2>2, <2>3, <2>4
  <1> QED BY <1>2, <1>3 DEF Shapes

\* The table of reservations has room for those that were there before.
LEMMA TableKept ==
    ASSUME HistoryInv, Active(disk') \subseteq Active(disk)
    PROVE  Cardinality(Active(disk')) <= MaxReservations
  <1>1. IsFiniteSet(Active(disk))
    BY IdAssumption, FS_Subset DEF Active
  <1>2. /\ Cardinality(Active(disk')) <= Cardinality(Active(disk))
        /\ Cardinality(Active(disk')) \in Nat /\ Cardinality(Active(disk)) \in Nat
    BY <1>1, FS_Subset, FS_CardinalityType
  <1>3. Cardinality(Active(disk)) <= MaxReservations
    BY DEF HistoryInv
  <1> QED BY <1>2, <1>3, LimitAssumption

\* An event about a live reservation that keeps its draft or withdraws it.
LEMMA PlainHistory ==
    ASSUME StoreInv, HistoryInv, StoreInv', NEW id \in Ids, NEW r, NEW tx,
           Appends(id, r, tx, disk.released[id]),
           disk.reservations[id].phase # "Absent",
           r.phase # "Absent" => r.draft = disk.reservations[id].draft,
           InShape(id, r, tx)
    PROVE  HistoryInv' /\ ForgetsExpired
  <1>1. /\ disk'.reservations[id] = r /\ disk'.released[id] = disk.released[id]
        /\ \A k \in Ids \ {id} : /\ disk'.reservations[k] = disk.reservations[k]
                                 /\ disk'.released[k] = disk.released[k]
        /\ disk'.clock = disk.clock + 1 /\ disk.clock \in Nat
        /\ \A k \in Ids : disk.released[k].at \in Nat
    BY AppendedRecords
  <1>2. disk.released[id].operation = "None"
    BY DEF StoreInv, JournalInv, ReleaseInv, Released
  <1>3. DraftReservedOnce'
    <2> SUFFICES ASSUME NEW k \in Ids, Holds(disk', k)
                 PROVE  Holds(disk, k) /\ DraftOf(disk', k) = DraftOf(disk, k)
      BY DraftsKept
    <2>1. CASE k = id
      BY <2>1, <1>1, <1>2 DEF Holds, DraftOf
    <2>2. CASE k # id
      BY <2>2, <1>1 DEF Holds, DraftOf
    <2> QED BY <2>1, <2>2
  <1>4. Released(disk') = Released(disk)
        /\ \A k \in Released(disk) : disk'.released[k] = disk.released[k]
    BY <1>1 DEF Released
  <1>5. ReleaseOrder(disk')
    <2>1. \A k \in Released(disk) : disk.released[k].at \in Nat
      BY <1>1 DEF Released
    <2>2. ReleaseOrder(disk)
      BY DEF HistoryInv
    <2> QED BY <1>1, <1>4, <2>1, <2>2 DEF ReleaseOrder
  <1>6. Shapes(disk')
    <2>1. ReleaseShape(disk.released[id])
      BY DEF HistoryInv
    <2> QED BY <2>1, ShapesKept
  <1>7. Cardinality(Active(disk')) <= MaxReservations
    <2>1. Active(disk') \subseteq Active(disk)
      BY <1>1 DEF Active
    <2> QED BY <2>1, TableKept
  <1> QED BY <1>3, <1>4, <1>5, <1>6, <1>7
          DEF HistoryInv, ForgetsExpired, Shapes

\* A new reservation, for a draft no reservation was made for.
LEMMA ReserveHistory ==
    ASSUME StoreInv, HistoryInv, StoreInv', NEW id \in Ids, NEW draft, NEW r,
           Appends(id, r, disk.transactions[id], disk.released[id]),
           id \notin Active(disk), id \notin Released(disk),
           Cardinality(Active(disk)) < MaxReservations,
           r.draft = draft, DraftUnused(draft), ReservationShape(r)
    PROVE  HistoryInv' /\ ForgetsExpired
  <1>1. /\ disk'.reservations[id] = r /\ disk'.released[id] = disk.released[id]
        /\ \A k \in Ids \ {id} : /\ disk'.reservations[k] = disk.reservations[k]
                                 /\ disk'.released[k] = disk.released[k]
        /\ disk'.clock = disk.clock + 1 /\ disk.clock \in Nat
        /\ \A k \in Ids : disk.released[k].at \in Nat
    BY AppendedRecords
  <1>2. DraftsDiffer(disk)
    BY DraftsBefore DEF HistoryInv
  <1>3. \A k \in Ids \ {id} : /\ Holds(disk', k) <=> Holds(disk, k)
                              /\ DraftOf(disk', k) = DraftOf(disk, k)
    BY <1>1 DEF Holds, DraftOf
  <1>4. \A k \in Ids : Holds(disk, k) => DraftOf(disk, k) # draft
    BY DEF Holds, DraftOf, DraftUnused, Active, Released
  <1>5. Holds(disk', id) => DraftOf(disk', id) = draft
    BY <1>1 DEF Holds, DraftOf, Released
  <1>6. DraftsDiffer(disk')
    <2> SUFFICES ASSUME NEW a \in Ids, NEW b \in Ids, Holds(disk', a), Holds(disk', b),
                        DraftOf(disk', a) = DraftOf(disk', b), a # b
                 PROVE  FALSE
      BY DEF DraftsDiffer
    <2> QED BY <1>2, <1>3, <1>4, <1>5 DEF DraftsDiffer
  <1>7. DraftReservedOnce'
    BY <1>6, DraftsAfter
  <1>8. Released(disk') = Released(disk)
        /\ \A k \in Released(disk) : disk'.released[k] = disk.released[k]
    BY <1>1 DEF Released
  <1>9. ReleaseOrder(disk')
    <2>1. \A k \in Released(disk) : disk.released[k].at \in Nat
      BY <1>1 DEF Released
    <2>2. ReleaseOrder(disk)
      BY DEF HistoryInv
    <2> QED BY <1>1, <1>8, <2>1, <2>2 DEF ReleaseOrder
  <1>10. Shapes(disk')
    <2>1. TransactionShape(disk.transactions[id]) /\ ReleaseShape(disk.released[id])
      BY DEF HistoryInv
    <2>2. InShape(id, r, disk.transactions[id])
      BY <2>1 DEF InShape
    <2> QED BY <2>1, <2>2, ShapesKept
  <1>11. Cardinality(Active(disk')) <= MaxReservations
    <2>1. Active(disk') \subseteq Active(disk) \cup {id}
      BY <1>1 DEF Active
    <2>2. IsFiniteSet(Active(disk))
      BY IdAssumption, FS_Subset DEF Active
    <2>3. /\ IsFiniteSet(Active(disk) \cup {id})
          /\ Cardinality(Active(disk) \cup {id}) = Cardinality(Active(disk)) + 1
      BY <2>2, FS_AddElement
    <2>4. /\ Cardinality(Active(disk')) <= Cardinality(Active(disk) \cup {id})
          /\ Cardinality(Active(disk')) \in Nat /\ Cardinality(Active(disk)) \in Nat
      BY <2>1, <2>2, <2>3, FS_Subset, FS_CardinalityType
    <2> QED BY <2>3, <2>4, LimitAssumption
  <1> QED BY <1>7, <1>8, <1>9, <1>10, <1>11
          DEF HistoryInv, ForgetsExpired, Shapes

\* A release: the tombstone takes the draft over and is the newest of all.
LEMMA ReleaseHistory ==
    ASSUME StoreInv, HistoryInv, StoreInv', NEW id \in Ids, NEW tx,
           NEW operation \in {"Cancel", "Retire"},
           Appends(id, NoReservation, tx,
                   [operation |-> operation, record |-> disk.reservations[id],
                    at |-> disk.clock + 1]),
           id \notin Released(disk), disk.reservations[id].phase # "Absent",
           operation = "Cancel" => disk.reservations[id].phase = "CancelPending",
           operation = "Retire" => disk.reservations[id].phase = "RetirePending",
           InShape(id, NoReservation, tx)
    PROVE  HistoryInv' /\ ForgetsExpired
  <1>1. /\ disk'.reservations[id] = NoReservation
        /\ disk'.released[id] = [operation |-> operation, record |-> disk.reservations[id],
                                 at |-> disk.clock + 1]
        /\ \A k \in Ids \ {id} : /\ disk'.reservations[k] = disk.reservations[k]
                                 /\ disk'.released[k] = disk.released[k]
        /\ disk'.clock = disk.clock + 1 /\ disk.clock \in Nat
        /\ \A k \in Ids : disk.released[k].at \in Nat
    BY AppendedRecords
  <1>2. DraftReservedOnce'
    <2> SUFFICES ASSUME NEW k \in Ids, Holds(disk', k)
                 PROVE  Holds(disk, k) /\ DraftOf(disk', k) = DraftOf(disk, k)
      BY DraftsKept
    <2>1. CASE k = id
      BY <2>1, <1>1 DEF Holds, DraftOf, NoReservation
    <2>2. CASE k # id
      BY <2>2, <1>1 DEF Holds, DraftOf
    <2> QED BY <2>1, <2>2
  <1>3. /\ Released(disk') = Released(disk) \cup {id}
        /\ \A k \in Released(disk) : disk'.released[k] = disk.released[k]
        /\ disk'.released[id].at = disk.clock + 1
    BY <1>1 DEF Released
  <1>4. ReleaseOrder(disk')
    <2>1. ReleaseOrder(disk)
      BY DEF HistoryInv
    <2>2. \A k \in Released(disk) : disk.released[k].at \in Nat
      BY <1>1 DEF Released
    <2> QED BY <1>1, <1>3, <2>1, <2>2 DEF ReleaseOrder
  <1>5. Shapes(disk')
    <2> DEFINE release == [operation |-> operation, record |-> disk.reservations[id],
                           at |-> disk.clock + 1]
    <2>1. ReservationShape(disk.reservations[id])
      BY DEF HistoryInv
    <2>2. ReleaseShape(release)
      BY <2>1 DEF ReleaseShape
    <2>3. Appends(id, NoReservation, tx, release)
      OBVIOUS
    <2> HIDE DEF release
    <2> QED BY <2>2, <2>3, ShapesKept
  <1>6. Cardinality(Active(disk')) <= MaxReservations
    <2>1. Active(disk') \subseteq Active(disk)
      BY <1>1 DEF Active
    <2> QED BY <2>1, TableKept
  <1> QED BY <1>2, <1>3, <1>4, <1>5, <1>6
          DEF HistoryInv, ForgetsExpired, Shapes

\* A compaction forgets the tombstones outside the window and those that MaxRetained
\* newer ones crowd out.
LEMMA CompactionForgets ==
    ASSUME StoreInv, HistoryInv, NEW id \in Released(disk), id \notin RetainedReleases(disk)
    PROVE  Expired(id)
  <1> DEFINE inWindow == {k \in Released(disk) : InWindow(disk, k)}
             newer    == {k \in inWindow : OlderRelease(disk, id, k)}
             later    == {k \in Released(disk) : disk.released[k].at > disk.released[id].at}
  <1>1. /\ disk.clock \in Nat /\ \A k \in Ids : disk.released[k].at \in Nat
    <2>1. disk \in RecoveredState /\ id \in Ids
      BY DEF StoreInv, TypeOK, Released
    <2> QED BY <2>1 DEF RecoveredState, ReleaseTombstone
  <1>2. ReleaseOrder(disk)
    BY DEF HistoryInv
  <1>3. CASE id \notin inWindow
    BY <1>1, <1>2, <1>3, LimitAssumption DEF InWindow, Expired, ReleaseOrder, Released
  <1>4. CASE id \in inWindow
    <2>1. ~(Cardinality(newer) < MaxRetained)
      BY <1>4 DEF RetainedReleases
    <2>2. newer \subseteq later
      <3> SUFFICES ASSUME NEW k \in newer PROVE k \in later
        OBVIOUS
      <3>1. k \in Ids /\ id \in Ids /\ k \in Released(disk)
        BY DEF Released
      <3>2. OlderRelease(disk, id, k)
        OBVIOUS
      <3>3. id < k => id # k
        BY <3>1, IdAssumption
      <3>4. disk.released[id].at < disk.released[k].at
        BY <3>1, <3>2, <3>3, <1>2 DEF OlderRelease, ReleaseOrder
      <3> QED BY <3>1, <3>4, <1>1
    <2>3. IsFiniteSet(later)
      BY IdAssumption, FS_Subset DEF Released
    <2>4. /\ Cardinality(newer) <= Cardinality(later)
          /\ Cardinality(newer) \in Nat /\ Cardinality(later) \in Nat
      BY <2>2, <2>3, FS_Subset, FS_CardinalityType
    <2>5. Cardinality(later) >= MaxRetained
      <3> HIDE DEF newer, later
      <3> QED BY <2>1, <2>4, LimitAssumption
    <2> QED BY <2>5 DEF Expired
  <1> QED BY <1>3, <1>4

\* compact_journal: drafts, dates and transactions of what remains are unchanged.
LEMMA CompactHistory ==
    ASSUME StoreInv, HistoryInv, StoreInv', disk' = CompactedState(disk)
    PROVE  /\ HistoryInv' /\ ForgetsExpired
           /\ disk'.reservations = disk.reservations /\ disk'.transactions = disk.transactions
  <1> DEFINE kept == RetainedReleases(disk)
             released == [k \in Ids |-> IF k \in kept THEN disk.released[k] ELSE NoRelease]
  <1>1. disk \in RecoveredState
    BY DEF StoreInv, TypeOK
  <1>2. disk' = [disk EXCEPT !.released = released, !.seen = Active(disk) \cup kept,
                             !.generation = disk.generation + 1]
    BY <1>1 DEF CompactedState, RecoveredState
  <1>3. kept \subseteq Released(disk) /\ Released(disk) \subseteq Ids
    BY DEF RetainedReleases, Released
  <1> HIDE DEF kept, released
  <1>4. /\ disk'.reservations = disk.reservations /\ disk'.transactions = disk.transactions
        /\ disk'.released = released /\ disk'.clock = disk.clock
    BY <1>1, <1>2 DEF RecoveredState
  <1>5. /\ Released(disk') = kept
        /\ \A k \in kept : disk'.released[k] = disk.released[k]
    BY <1>3, <1>4 DEF Released, NoRelease, released
  <1>6. DraftReservedOnce'
    <2> SUFFICES ASSUME NEW k \in Ids, Holds(disk', k)
                 PROVE  Holds(disk, k) /\ DraftOf(disk', k) = DraftOf(disk, k)
      BY DraftsKept
    <2>1. CASE disk.reservations[k].phase # "Absent"
      BY <2>1, <1>4 DEF Holds, DraftOf
    <2>2. CASE disk.reservations[k].phase = "Absent"
      <3>1. k \in kept
        BY <2>2, <1>4, <1>5 DEF Holds, Released
      <3> QED BY <3>1, <2>2, <1>3, <1>4, <1>5 DEF Holds, DraftOf, Released
    <2> QED BY <2>1, <2>2
  <1>7. ReleaseOrder(disk')
    BY <1>3, <1>4, <1>5 DEF ReleaseOrder, HistoryInv
  <1>8. Shapes(disk') /\ Cardinality(Active(disk')) <= MaxReservations
    <2>1. \A k \in Ids : /\ TransactionShape(disk.transactions[k])
                         /\ ReservationShape(disk.reservations[k])
                         /\ ReleaseShape(disk.released[k])
      BY DEF HistoryInv
    <2>2. ReleaseShape(NoRelease)
      BY DEF ReleaseShape, NoRelease, ReservationShape, NoReservation
    <2>3. \A k \in Ids : disk'.released[k] \in {disk.released[k], NoRelease}
      BY <1>4 DEF released
    <2>4. \A k \in Ids : ReleaseShape(disk'.released[k])
      BY <2>1, <2>2, <2>3
    <2>5. RollbacksDiffer(disk') /\ Active(disk') \subseteq Active(disk)
      BY <1>4 DEF HistoryInv, RollbacksDiffer, Active
    <2> QED BY <1>4, <2>1, <2>4, <2>5, TableKept DEF Shapes
  <1>9. ForgetsExpired
    <2> SUFFICES ASSUME NEW k \in Released(disk), k \notin Released(disk') PROVE Expired(k)
      BY DEF ForgetsExpired
    <2>1. k \notin RetainedReleases(disk)
      BY <1>5 DEF kept
    <2> QED BY <2>1, CompactionForgets
  <1> QED BY <1>4, <1>6, <1>7, <1>8, <1>9 DEF HistoryInv, Shapes

\* A step that appends nothing forgets nothing.
LEMMA QuietHistory ==
    ASSUME StoreInv, HistoryInv, disk' = disk
    PROVE  HistoryInv' /\ ForgetsExpired
  <1>1. DraftReservedOnce' /\ ReleaseOrder(disk')
    BY DEF HistoryInv, DraftReservedOnce, Active, Released
  <1>2. Shapes(disk') /\ Cardinality(Active(disk')) <= MaxReservations
    BY DEF HistoryInv, Shapes
  <1> QED BY <1>1, <1>2 DEF HistoryInv, ForgetsExpired, Shapes

(***************************************************************************)
(* The Vault as the repair service sees it.                                *)
(***************************************************************************)
\* One entry of VaultView.
RecordView(r, tx) ==
    [phase |-> VaultPhase(r.phase, tx.resolution), lease |-> tx.lease,
     child |-> VaultChild(tx.rollback.resolution), childLease |-> tx.rollback.lease]

VaultStep == [Vault!VaultNext]_<<VaultView, boot>>

\* What an append shows the repair service.
LEMMA ViewOfAppend ==
    ASSUME StoreInv, NEW id \in Ids, NEW r, NEW tx, NEW release, Appends(id, r, tx, release)
    PROVE  /\ VaultView' = [VaultView EXCEPT ![id] = RecordView(r, tx)]
           /\ VaultView[id] = RecordView(disk.reservations[id], disk.transactions[id])
  <1>1. \A k \in Ids : /\ disk'.reservations[k] = IF k = id THEN r ELSE disk.reservations[k]
                       /\ disk'.transactions[k] = IF k = id THEN tx ELSE disk.transactions[k]
    BY AppendedRecords
  <1>2. VaultView = [k \in Ids |-> RecordView(disk.reservations[k], disk.transactions[k])]
    BY DEF VaultView, RecordView
  <1>3. VaultView' = [k \in Ids |-> RecordView(disk'.reservations[k], disk'.transactions[k])]
    BY DEF VaultView, RecordView
  <1>4. VaultView' = [k \in Ids |-> IF k = id THEN RecordView(r, tx)
                                    ELSE RecordView(disk.reservations[k],
                                                    disk.transactions[k])]
    BY <1>1, <1>3
  <1> QED BY <1>2, <1>4

\* An append the repair service does not see.
LEMMA HiddenAppend ==
    ASSUME StoreInv, NEW id \in Ids, NEW r, NEW tx, NEW release, Appends(id, r, tx, release),
           RecordView(r, tx) = RecordView(disk.reservations[id], disk.transactions[id]),
           boot' = boot
    PROVE  VaultStep
  <1>1. VaultView' = [VaultView EXCEPT ![id] = VaultView[id]]
    BY ViewOfAppend
  <1>2. VaultView' = VaultView
    BY <1>1 DEF VaultView
  <1> QED BY <1>2 DEF VaultStep

\* Nothing is unresolved in the store: nothing is open in the Vault.
LEMMA NothingOpenInVault ==
    ASSUME StoreInv, disk.openTransaction = NoId, disk.openRollback = NoId
    PROVE  Vault!NothingOpen
  <1> SUFFICES ASSUME NEW id \in Ids
               PROVE  /\ VaultView[id].phase \notin {"pending", "manual"}
                      /\ VaultView[id].child \notin {"pending", "manual"}
    BY DEF Vault!NothingOpen, Vault!UnresolvedRepairs, Vault!UnresolvedRollbacks,
           Vault!Unresolved
  <1>1. RecordOk(disk, id)
    BY RecordFacts DEF StoreInv
  <1>2. disk.transactions[id].resolution \notin {"None", "Manual"}
        /\ disk.transactions[id].rollback.resolution \notin {"None", "Manual"}
        /\ (disk.reservations[id].phase \in {"Durable", "RetirePending"}
              => disk.transactions[id].resolution # "Absent")
    BY <1>1 DEF RecordOk, RecordInv, TransactionInv
  <1>3. /\ disk.transactions[id].resolution \in Outcome \cup {"Absent", "None"}
        /\ disk.transactions[id].rollback.resolution \in RollbackOutcome \cup {"Absent", "None"}
        /\ disk.reservations[id].phase \in ReservationPhase
    BY <1>1 DEF RecordOk, TransactionRecord, RollbackRecord, ReservationRecord
  <1>4. VaultPhase(disk.reservations[id].phase, disk.transactions[id].resolution)
          \in {"free", "reserved", "committed", "closed"}
    BY <1>2, <1>3 DEF VaultPhase, Outcome, ReservationPhase
  <1>5. VaultChild(disk.transactions[id].rollback.resolution) \in {"none", "rolledBack"}
    BY <1>2, <1>3 DEF VaultChild, RollbackOutcome
  <1> QED BY <1>4, <1>5 DEF VaultView

\* What is to be shown of every step: the history invariant goes on, only what is
\* expired is forgotten, and the Vault takes a step or none.
Explained == HistoryInv' /\ ForgetsExpired /\ VaultStep

\* What is known of an identifier before a step.
Known(id) ==
    /\ RecordOk(disk, id) /\ FieldsOk(disk, id)
    /\ TransactionShape(disk.transactions[id]) /\ ReservationShape(disk.reservations[id])
    /\ disk.reservations[id].phase \in ReservationPhase
    /\ disk.transactions[id].resolution \in Outcome \cup {"Absent", "None"}
    /\ disk.transactions[id].pending \in Outcome \cup {"None"}
    /\ disk.transactions[id].rollback.resolution \in RollbackOutcome \cup {"Absent", "None"}
    /\ disk.transactions[id].rollback.pending \in RollbackOutcome \cup {"None"}
    /\ disk.reservations[id].phase \in {"Durable", "RetirePending"}
         <=> disk.transactions[id].resolution # "Absent"

\* It follows from the two invariants.
LEMMA KnownBefore ==
    ASSUME StoreInv, HistoryInv, NEW id \in Ids
    PROVE  Known(id)
  <1>1. RecordOk(disk, id) /\ FieldsOk(disk, id)
    BY RecordFacts, FieldTypes DEF StoreInv, TypeOK
  <1>2. TransactionShape(disk.transactions[id]) /\ ReservationShape(disk.reservations[id])
    BY DEF HistoryInv
  <1> QED BY <1>1, <1>2
          DEF Known, RecordOk, RecordInv, TransactionInv, TransactionRecord, RollbackRecord,
              ReservationRecord

\* reserve_backup: an intent shows nothing yet.
LEMMA ReserveIntentExplained ==
    ASSUME StoreInv, HistoryInv, StoreInv', NEW id \in Ids, NEW draft, NEW par,
           disk' = ReserveIntent(Tick(disk), id, draft, par), DraftUnused(draft), boot' = boot
    PROVE  Explained
  <1> DEFINE r == [phase |-> "ReservePending", draft |-> draft, parent |-> par,
                   resolution |-> "Absent"]
             tx == disk.transactions[id]
  <1>1. /\ id \notin Active(disk) /\ id \notin Released(disk)
        /\ Cardinality(Active(disk)) < MaxReservations
        /\ Appends(id, r, tx, disk.released[id])
    <2>1. disk'.verdict = "ok"
      BY DEF StoreInv, JournalInv
    <2> QED BY <2>1, TickedState, ReserveIntentSets, SetsAppends
  <1>2. Known(id)
    BY KnownBefore
  <1>3. HistoryInv' /\ ForgetsExpired
    <2>1. ReservationShape(r)
      BY DEF ReservationShape
    <2> QED BY <1>1, <2>1, ReserveHistory
  <1>4. RecordView(r, tx) = RecordView(disk.reservations[id], tx)
    BY <1>1, <1>2 DEF Known, RecordView, VaultPhase, Active
  <1>5. VaultStep
    BY <1>1, <1>4, HiddenAppend
  <1> QED BY <1>3, <1>5 DEF Explained

\* ReserveComplete is the Vault's Reserve.
LEMMA ReserveCompleteExplained ==
    ASSUME StoreInv, HistoryInv, StoreInv', NEW id \in Ids,
           disk' = ReserveComplete(Tick(disk), id), boot' = boot
    PROVE  Explained
  <1> DEFINE r == [disk.reservations[id] EXCEPT !.phase = "Reserved"]
             tx == disk.transactions[id]
  <1>1. /\ disk.pending = id /\ disk.reservations[id].phase = "ReservePending"
        /\ Appends(id, r, tx, disk.released[id])
    <2>1. disk'.verdict = "ok"
      BY DEF StoreInv, JournalInv
    <2> QED BY <2>1, TickedState, ReserveCompleteSets, SetsAppends
  <1>2. Known(id)
    BY KnownBefore
  <1>3. /\ r.phase = "Reserved" /\ r.draft = disk.reservations[id].draft
    BY <1>2 DEF Known, FieldsOk, ReservationRecord
  <1>4. InShape(id, r, tx)
    <2>1. ReservationShape(r)
      BY <1>1, <1>2 DEF Known, FieldsOk, ReservationShape, ReservationRecord
    <2> QED BY <1>2, <2>1 DEF InShape, Known
  <1>5. HistoryInv' /\ ForgetsExpired
    BY <1>1, <1>3, <1>4, PlainHistory
  <1>6. /\ VaultView' = [VaultView EXCEPT ![id] = RecordView(r, tx)]
        /\ VaultView[id] = RecordView(disk.reservations[id], tx)
    BY <1>1, ViewOfAppend
  <1>7. /\ VaultView[id].phase = "free" /\ tx.resolution = "Absent"
        /\ RecordView(r, tx) = [VaultView[id] EXCEPT !.phase = "reserved"]
    BY <1>1, <1>2, <1>3, <1>6 DEF Known, RecordView, VaultPhase
  <1>8. Vault!NothingOpen
    <2>1. disk.openTransaction = NoId /\ disk.openRollback = NoId
      BY <1>1, <1>2 DEF Known, RecordOk, RecordInv, PendingInv
    <2> QED BY <2>1, NothingOpenInVault
  <1>9. Vault!Reserve(id)
    BY <1>6, <1>7, <1>8 DEF Vault!Reserve
  <1> QED BY <1>5, <1>9 DEF Explained, VaultStep, Vault!VaultNext

\* A withdrawn reservation was never shown.
LEMMA ReserveAbortExplained ==
    ASSUME StoreInv, HistoryInv, StoreInv', NEW id \in Ids,
           disk' = ReserveAbort(Tick(disk), id), boot' = boot
    PROVE  Explained
  <1> DEFINE r  == NoReservation
             tx == disk.transactions[id]
  <1>1. /\ disk.reservations[id].phase = "ReservePending"
        /\ Appends(id, r, tx, disk.released[id])
    <2>1. disk'.verdict = "ok"
      BY DEF StoreInv, JournalInv
    <2> QED BY <2>1, TickedState, ReserveAbortSets, SetsAppends
  <1>2. Known(id)
    BY KnownBefore
  <1>3. /\ r.phase # "Absent" => r.draft = disk.reservations[id].draft
        /\ disk.reservations[id].phase # "Absent"
    BY <1>1, <1>2 DEF Known, FieldsOk, ReservationRecord, NoReservation, WithTransaction
  <1>4. TransactionShape(tx)
    BY <1>1, <1>2 DEF Known, FieldsOk, TransactionShape, TransactionRecord, RollbackRecord,
       WithTransaction, Outcome, RollbackOutcome
  <1>5. InShape(id, r, tx)
    <2>1. ReservationShape(r)
      BY <1>1, <1>2 DEF Known, FieldsOk, ReservationShape, ReservationRecord, NoReservation
    <2>2. tx.rollback.id = disk.transactions[id].rollback.id
      BY <1>2 DEF Known, FieldsOk, TransactionRecord, RollbackRecord
    <2> QED BY <1>4, <2>1, <2>2 DEF InShape
  <1>6. HistoryInv' /\ ForgetsExpired
    BY <1>1, <1>3, <1>5, PlainHistory
  <1>7. RecordView(r, tx) = RecordView(disk.reservations[id], disk.transactions[id])
    BY <1>1, <1>2
       DEF Known, FieldsOk, ReservationRecord, TransactionRecord, RollbackRecord,
           RecordView, VaultPhase, NoReservation, WithTransaction
  <1>8. VaultStep
    BY <1>1, <1>7, HiddenAppend
  <1> QED BY <1>6, <1>8 DEF Explained

\* The intent to persist shows nothing yet.
LEMMA PersistIntentExplained ==
    ASSUME StoreInv, HistoryInv, StoreInv', NEW id \in Ids,
           disk' = PersistIntent(Tick(disk), id), boot' = boot
    PROVE  Explained
  <1> DEFINE r  == [disk.reservations[id] EXCEPT !.phase = "PersistPending"]
             tx == disk.transactions[id]
  <1>1. /\ disk.reservations[id].phase = "Reserved"
        /\ Appends(id, r, tx, disk.released[id])
    <2>1. disk'.verdict = "ok"
      BY DEF StoreInv, JournalInv
    <2> QED BY <2>1, TickedState, PersistIntentSets, SetsAppends
  <1>2. Known(id)
    BY KnownBefore
  <1>3. /\ r.phase # "Absent" => r.draft = disk.reservations[id].draft
        /\ disk.reservations[id].phase # "Absent"
    BY <1>1, <1>2 DEF Known, FieldsOk, ReservationRecord, NoReservation, WithTransaction
  <1>4. TransactionShape(tx)
    BY <1>1, <1>2 DEF Known, FieldsOk, TransactionShape, TransactionRecord, RollbackRecord,
       WithTransaction, Outcome, RollbackOutcome
  <1>5. InShape(id, r, tx)
    <2>1. ReservationShape(r)
      BY <1>1, <1>2 DEF Known, FieldsOk, ReservationShape, ReservationRecord, NoReservation
    <2>2. tx.rollback.id = disk.transactions[id].rollback.id
      BY <1>2 DEF Known, FieldsOk, TransactionRecord, RollbackRecord
    <2> QED BY <1>4, <2>1, <2>2 DEF InShape
  <1>6. HistoryInv' /\ ForgetsExpired
    BY <1>1, <1>3, <1>5, PlainHistory
  <1>7. RecordView(r, tx) = RecordView(disk.reservations[id], disk.transactions[id])
    BY <1>1, <1>2
       DEF Known, FieldsOk, ReservationRecord, TransactionRecord, RollbackRecord,
           RecordView, VaultPhase, NoReservation, WithTransaction
  <1>8. VaultStep
    BY <1>1, <1>7, HiddenAppend
  <1> QED BY <1>6, <1>8 DEF Explained

\* Neither does giving it up.
LEMMA PersistAbortExplained ==
    ASSUME StoreInv, HistoryInv, StoreInv', NEW id \in Ids,
           disk' = PersistAbort(Tick(disk), id), boot' = boot
    PROVE  Explained
  <1> DEFINE r  == [disk.reservations[id] EXCEPT !.phase = "Reserved"]
             tx == disk.transactions[id]
  <1>1. /\ disk.reservations[id].phase = "PersistPending"
        /\ Appends(id, r, tx, disk.released[id])
    <2>1. disk'.verdict = "ok"
      BY DEF StoreInv, JournalInv
    <2> QED BY <2>1, TickedState, PersistAbortSets, SetsAppends
  <1>2. Known(id)
    BY KnownBefore
  <1>3. /\ r.phase # "Absent" => r.draft = disk.reservations[id].draft
        /\ disk.reservations[id].phase # "Absent"
    BY <1>1, <1>2 DEF Known, FieldsOk, ReservationRecord, NoReservation, WithTransaction
  <1>4. TransactionShape(tx)
    BY <1>1, <1>2 DEF Known, FieldsOk, TransactionShape, TransactionRecord, RollbackRecord,
       WithTransaction, Outcome, RollbackOutcome
  <1>5. InShape(id, r, tx)
    <2>1. ReservationShape(r)
      BY <1>1, <1>2 DEF Known, FieldsOk, ReservationShape, ReservationRecord, NoReservation
    <2>2. tx.rollback.id = disk.transactions[id].rollback.id
      BY <1>2 DEF Known, FieldsOk, TransactionRecord, RollbackRecord
    <2> QED BY <1>4, <2>1, <2>2 DEF InShape
  <1>6. HistoryInv' /\ ForgetsExpired
    BY <1>1, <1>3, <1>5, PlainHistory
  <1>7. RecordView(r, tx) = RecordView(disk.reservations[id], disk.transactions[id])
    BY <1>1, <1>2
       DEF Known, FieldsOk, ReservationRecord, TransactionRecord, RollbackRecord,
           RecordView, VaultPhase, NoReservation, WithTransaction
  <1>8. VaultStep
    BY <1>1, <1>7, HiddenAppend
  <1> QED BY <1>6, <1>8 DEF Explained

\* The intent to cancel shows nothing yet.
LEMMA CancelIntentExplained ==
    ASSUME StoreInv, HistoryInv, StoreInv', NEW id \in Ids,
           disk' = CancelIntent(Tick(disk), id), boot' = boot
    PROVE  Explained
  <1> DEFINE r  == [disk.reservations[id] EXCEPT !.phase = "CancelPending"]
             tx == disk.transactions[id]
  <1>1. /\ disk.reservations[id].phase = "Reserved"
        /\ Appends(id, r, tx, disk.released[id])
    <2>1. disk'.verdict = "ok"
      BY DEF StoreInv, JournalInv
    <2> QED BY <2>1, TickedState, CancelIntentSets, SetsAppends
  <1>2. Known(id)
    BY KnownBefore
  <1>3. /\ r.phase # "Absent" => r.draft = disk.reservations[id].draft
        /\ disk.reservations[id].phase # "Absent"
    BY <1>1, <1>2 DEF Known, FieldsOk, ReservationRecord, NoReservation, WithTransaction
  <1>4. TransactionShape(tx)
    BY <1>1, <1>2 DEF Known, FieldsOk, TransactionShape, TransactionRecord, RollbackRecord,
       WithTransaction, Outcome, RollbackOutcome
  <1>5. InShape(id, r, tx)
    <2>1. ReservationShape(r)
      BY <1>1, <1>2 DEF Known, FieldsOk, ReservationShape, ReservationRecord, NoReservation
    <2>2. tx.rollback.id = disk.transactions[id].rollback.id
      BY <1>2 DEF Known, FieldsOk, TransactionRecord, RollbackRecord
    <2> QED BY <1>4, <2>1, <2>2 DEF InShape
  <1>6. HistoryInv' /\ ForgetsExpired
    BY <1>1, <1>3, <1>5, PlainHistory
  <1>7. RecordView(r, tx) = RecordView(disk.reservations[id], disk.transactions[id])
    BY <1>1, <1>2
       DEF Known, FieldsOk, ReservationRecord, TransactionRecord, RollbackRecord,
           RecordView, VaultPhase, NoReservation, WithTransaction
  <1>8. VaultStep
    BY <1>1, <1>7, HiddenAppend
  <1> QED BY <1>6, <1>8 DEF Explained

\* The intent to retire shows nothing yet.
LEMMA RetireIntentExplained ==
    ASSUME StoreInv, HistoryInv, StoreInv', NEW id \in Ids,
           disk' = RetireIntent(Tick(disk), id), boot' = boot
    PROVE  Explained
  <1> DEFINE r  == [disk.reservations[id] EXCEPT !.phase = "RetirePending",
                                              !.resolution = disk.transactions[id].resolution]
             tx == disk.transactions[id]
  <1>1. /\ disk.reservations[id].phase = "Durable"
        /\ Resolved(disk.transactions[id].resolution)
        /\ Appends(id, r, tx, disk.released[id])
    <2>1. disk'.verdict = "ok"
      BY DEF StoreInv, JournalInv
    <2> QED BY <2>1, TickedState, RetireIntentSets, SetsAppends
  <1>2. Known(id)
    BY KnownBefore
  <1>3. /\ r.phase # "Absent" => r.draft = disk.reservations[id].draft
        /\ disk.reservations[id].phase # "Absent"
    BY <1>1, <1>2 DEF Known, FieldsOk, ReservationRecord, NoReservation, WithTransaction
  <1>4. TransactionShape(tx)
    BY <1>1, <1>2 DEF Known, FieldsOk, TransactionShape, TransactionRecord, RollbackRecord,
       WithTransaction, Outcome, RollbackOutcome
  <1>5. InShape(id, r, tx)
    <2>1. ReservationShape(r)
      BY <1>1, <1>2 DEF Known, FieldsOk, ReservationShape, ReservationRecord, NoReservation
    <2>2. tx.rollback.id = disk.transactions[id].rollback.id
      BY <1>2 DEF Known, FieldsOk, TransactionRecord, RollbackRecord
    <2> QED BY <1>4, <2>1, <2>2 DEF InShape
  <1>6. HistoryInv' /\ ForgetsExpired
    BY <1>1, <1>3, <1>5, PlainHistory
  <1>7. RecordView(r, tx) = RecordView(disk.reservations[id], disk.transactions[id])
    BY <1>1, <1>2
       DEF Known, FieldsOk, ReservationRecord, TransactionRecord, RollbackRecord,
           RecordView, VaultPhase, NoReservation, WithTransaction
  <1>8. VaultStep
    BY <1>1, <1>7, HiddenAppend
  <1> QED BY <1>6, <1>8 DEF Explained

\* The decision on a repair shows with its completion.
LEMMA TransactionResolveIntentExplained ==
    ASSUME StoreInv, HistoryInv, StoreInv', NEW id \in Ids, NEW phase, NEW resolution,
           disk' = TransactionResolveIntent(Tick(disk), id, phase, resolution), boot' = boot
    PROVE  Explained
  <1> DEFINE r  == disk.reservations[id]
             tx == [disk.transactions[id] EXCEPT !.pending = resolution]
  <1>1. /\ disk.reservations[id].phase = "Durable" /\ id \in WithTransaction(disk)
        /\ disk.transactions[id].resolution # resolution
        /\ Appends(id, r, tx, disk.released[id])
    <2>1. disk'.verdict = "ok"
      BY DEF StoreInv, JournalInv
    <2> QED BY <2>1, TickedState, TransactionResolveIntentSets, SetsAppends
  <1>2. Known(id)
    BY KnownBefore
  <1>3. /\ r.phase # "Absent" => r.draft = disk.reservations[id].draft
        /\ disk.reservations[id].phase # "Absent"
    BY <1>1, <1>2 DEF Known, FieldsOk, ReservationRecord, NoReservation, WithTransaction
  <1>4. TransactionShape(tx)
    BY <1>1, <1>2 DEF Known, FieldsOk, TransactionShape, TransactionRecord, RollbackRecord,
       WithTransaction, Outcome, RollbackOutcome
  <1>5. InShape(id, r, tx)
    <2>1. ReservationShape(r)
      BY <1>1, <1>2 DEF Known, FieldsOk, ReservationShape, ReservationRecord, NoReservation
    <2>2. tx.rollback.id = disk.transactions[id].rollback.id
      BY <1>2 DEF Known, FieldsOk, TransactionRecord, RollbackRecord
    <2> QED BY <1>4, <2>1, <2>2 DEF InShape
  <1>6. HistoryInv' /\ ForgetsExpired
    BY <1>1, <1>3, <1>5, PlainHistory
  <1>7. RecordView(r, tx) = RecordView(disk.reservations[id], disk.transactions[id])
    BY <1>1, <1>2
       DEF Known, FieldsOk, ReservationRecord, TransactionRecord, RollbackRecord,
           RecordView, VaultPhase, NoReservation, WithTransaction
  <1>8. VaultStep
    BY <1>1, <1>7, HiddenAppend
  <1> QED BY <1>6, <1>8 DEF Explained

\* So does the decision on a rollback.
LEMMA RollbackResolveIntentExplained ==
    ASSUME StoreInv, HistoryInv, StoreInv', NEW id \in Ids, NEW rollback, NEW phase, NEW resolution,
           disk' = RollbackResolveIntent(Tick(disk), id, rollback, phase, resolution), boot' = boot
    PROVE  Explained
  <1> DEFINE r  == disk.reservations[id]
             tx == [disk.transactions[id] EXCEPT !.rollback.pending = resolution]
  <1>1. /\ disk.openRollback = id
        /\ disk.transactions[id].rollback.resolution # resolution
        /\ Appends(id, r, tx, disk.released[id])
    <2>1. disk'.verdict = "ok"
      BY DEF StoreInv, JournalInv
    <2> QED BY <2>1, TickedState, RollbackResolveIntentSets, SetsAppends
  <1>2. Known(id)
    BY KnownBefore
  <1>3. /\ r.phase # "Absent" => r.draft = disk.reservations[id].draft
        /\ disk.reservations[id].phase # "Absent"
    BY <1>1, <1>2 DEF Known, RecordOk, RecordInv, TransactionInv
  <1>4. TransactionShape(tx)
    <2>1. /\ disk.transactions[id].rollback.resolution \in {"None", "Manual"}
          /\ disk.transactions[id].resolution = "CommittedAfter"
      BY <1>1, <1>2 DEF Known, RecordOk, RecordInv, TransactionInv
    <2>2. /\ tx.resolution = disk.transactions[id].resolution
          /\ tx.pending = disk.transactions[id].pending
          /\ tx.rollback.resolution = disk.transactions[id].rollback.resolution
          /\ tx.rollback.pending = resolution
      BY <1>2 DEF Known, FieldsOk, TransactionRecord, RollbackRecord
    <2> QED BY <1>1, <1>2, <2>1, <2>2 DEF Known, TransactionShape
  <1>5. InShape(id, r, tx)
    <2>1. ReservationShape(r)
      BY <1>1, <1>2 DEF Known, FieldsOk, ReservationShape, ReservationRecord, NoReservation
    <2>2. tx.rollback.id = disk.transactions[id].rollback.id
      BY <1>2 DEF Known, FieldsOk, TransactionRecord, RollbackRecord
    <2> QED BY <1>4, <2>1, <2>2 DEF InShape
  <1>6. HistoryInv' /\ ForgetsExpired
    BY <1>1, <1>3, <1>5, PlainHistory
  <1>7. RecordView(r, tx) = RecordView(disk.reservations[id], disk.transactions[id])
    BY <1>1, <1>2
       DEF Known, FieldsOk, ReservationRecord, TransactionRecord, RollbackRecord,
           RecordView, VaultPhase, NoReservation, WithTransaction
  <1>8. VaultStep
    BY <1>1, <1>7, HiddenAppend
  <1> QED BY <1>6, <1>8 DEF Explained

\* PersistComplete is the Vault's Persist.
LEMMA PersistCompleteExplained ==
    ASSUME StoreInv, HistoryInv, StoreInv', NEW id \in Ids,
           disk' = PersistComplete(Tick(disk), id), boot' = boot
    PROVE  Explained
  <1> DEFINE r  == [disk.reservations[id] EXCEPT !.phase = "Durable"]
             tx == [NoTransaction EXCEPT !.resolution = "None"]
  <1>1. /\ disk.pending = id /\ disk.reservations[id].phase = "PersistPending"
        /\ Appends(id, r, tx, disk.released[id])
    <2>1. disk'.verdict = "ok"
      BY DEF StoreInv, JournalInv
    <2> QED BY <2>1, TickedState, PersistCompleteSets, SetsAppends
  <1>2. Known(id)
    BY KnownBefore
  <1>3. /\ r.draft = disk.reservations[id].draft
        /\ disk.reservations[id].phase # "Absent"
    BY <1>1, <1>2 DEF Known, FieldsOk, ReservationRecord, RecordOk, RecordInv, TransactionInv
  <1>4. TransactionShape(tx)
    BY <1>1, <1>2 DEF Known, FieldsOk, TransactionShape, TransactionRecord, RollbackRecord,
       NoTransaction, NoRollback, Outcome, RollbackOutcome
  <1>5. InShape(id, r, tx)
    <2>1. ReservationShape(r)
      BY <1>1, <1>2 DEF Known, FieldsOk, ReservationShape, ReservationRecord, NoReservation
    <2>2. tx.rollback.id = NoId
      BY DEF NoTransaction, NoRollback
    <2> QED BY <1>4, <2>1, <2>2 DEF InShape
  <1>6. HistoryInv' /\ ForgetsExpired
    BY <1>1, <1>3, <1>5, PlainHistory
  <1>7. /\ VaultView' = [VaultView EXCEPT ![id] = RecordView(r, tx)]
        /\ VaultView[id] = RecordView(disk.reservations[id], disk.transactions[id])
    BY <1>1, ViewOfAppend
  <1>8. /\ VaultView[id].phase = "reserved"
        /\ RecordView(r, tx) = [VaultView[id] EXCEPT !.phase = "pending"]
    <2>1. disk.transactions[id] = NoTransaction
      BY <1>1, <1>2 DEF Known, TransactionShape
    <2> QED BY <1>1, <1>2, <1>7, <2>1
            DEF Known, FieldsOk, ReservationRecord, TransactionRecord, RollbackRecord,
                RecordView, VaultPhase, VaultChild, NoTransaction, NoRollback
  <1>9. Vault!NothingOpen
    <2>1. disk.openTransaction = NoId /\ disk.openRollback = NoId
      BY <1>1, <1>2 DEF Known, RecordOk, RecordInv, PendingInv
    <2> QED BY <2>1, NothingOpenInVault
  <1>10. Vault!Persist(id)
    BY <1>7, <1>8, <1>9 DEF Vault!Persist
  <1> QED BY <1>6, <1>10 DEF Explained, VaultStep, Vault!VaultNext

\* consume_write_lease is the Vault's Lease.
LEMMA TransactionWriteLeaseConsumeExplained ==
    ASSUME StoreInv, HistoryInv, StoreInv', NEW id \in Ids, NEW epoch, epoch = boot,
           disk' = TransactionWriteLeaseConsume(Tick(disk), id, epoch), boot' = boot
    PROVE  Explained
  <1> DEFINE r  == disk.reservations[id]
             tx == [disk.transactions[id] EXCEPT !.lease = epoch]
  <1>1. /\ disk.reservations[id].phase = "Durable"
        /\ disk.transactions[id].resolution = "None"
        /\ disk.transactions[id].lease # epoch
        /\ Appends(id, r, tx, disk.released[id])
    <2>1. disk'.verdict = "ok"
      BY DEF StoreInv, JournalInv
    <2> QED BY <2>1, TickedState, TransactionWriteLeaseConsumeSets, SetsAppends
  <1>2. Known(id)
    BY KnownBefore
  <1>3. /\ r.draft = disk.reservations[id].draft
        /\ disk.reservations[id].phase # "Absent"
    BY <1>1, <1>2 DEF Known, FieldsOk, ReservationRecord, RecordOk, RecordInv, TransactionInv
  <1>4. TransactionShape(tx)
    BY <1>1, <1>2 DEF Known, FieldsOk, TransactionShape, TransactionRecord, RollbackRecord,
       NoTransaction, NoRollback, Outcome, RollbackOutcome
  <1>5. InShape(id, r, tx)
    <2>1. ReservationShape(r)
      BY <1>1, <1>2 DEF Known, FieldsOk, ReservationShape, ReservationRecord, NoReservation
    <2>2. tx.rollback.id = disk.transactions[id].rollback.id
      BY <1>2 DEF Known, FieldsOk, TransactionRecord, RollbackRecord
    <2> QED BY <1>4, <2>1, <2>2 DEF InShape
  <1>6. HistoryInv' /\ ForgetsExpired
    BY <1>1, <1>3, <1>5, PlainHistory
  <1>7. /\ VaultView' = [VaultView EXCEPT ![id] = RecordView(r, tx)]
        /\ VaultView[id] = RecordView(disk.reservations[id], disk.transactions[id])
    BY <1>1, ViewOfAppend
  <1>8. /\ VaultView[id].phase = "pending" /\ VaultView[id].lease # boot
        /\ RecordView(r, tx) = [VaultView[id] EXCEPT !.lease = boot]
    BY <1>1, <1>2, <1>7
       DEF Known, FieldsOk, ReservationRecord, TransactionRecord, RollbackRecord,
           RecordView, VaultPhase, VaultChild
  <1>10. Vault!Lease(id)
    BY <1>7, <1>8 DEF Vault!Lease
  <1> QED BY <1>6, <1>10 DEF Explained, VaultStep, Vault!VaultNext

\* The completion of a decision is the Vault's Resolve.
LEMMA TransactionResolveCompleteExplained ==
    ASSUME StoreInv, HistoryInv, StoreInv', NEW id \in Ids,
           disk' = TransactionResolveComplete(Tick(disk), id), boot' = boot
    PROVE  Explained
  <1> DEFINE r  == disk.reservations[id]
             tx == [disk.transactions[id] EXCEPT !.pending = "None",
                                             !.resolution = disk.transactions[id].pending]
  <1>1. /\ disk.openTransaction = id /\ disk.reservations[id].phase = "Durable"
        /\ disk.transactions[id].pending # "None"
        /\ Appends(id, r, tx, disk.released[id])
    <2>1. disk'.verdict = "ok"
      BY DEF StoreInv, JournalInv
    <2> DEFINE st == Tick(disk)
               new == disk'
    <2>2. /\ st \in RecoveredState /\ new = TransactionResolveComplete(st, id)
          /\ st.reservations = disk.reservations /\ st.transactions = disk.transactions
          /\ st.released = disk.released /\ st.openTransaction = disk.openTransaction
      BY TickedState
    <2>3. new.verdict = "ok"
      BY <2>1
    <2> HIDE DEF st, new
    <2>4. /\ st.openTransaction = id /\ st.reservations[id].phase = "Durable"
          /\ st.transactions[id].pending # "None"
          /\ Sets(new, st, id, st.reservations[id],
                  [st.transactions[id] EXCEPT !.pending = "None",
                                              !.resolution = st.transactions[id].pending],
                  st.released[id])
      <3>1. st \in RecoveredState /\ new = TransactionResolveComplete(st, id)
        BY <2>2
      <3> QED BY <2>3, <3>1, TransactionResolveCompleteSets, ZenonT(60)
    <2>5. Sets(new, st, id, r, tx, disk.released[id])
      BY <2>2, <2>4
    <2> HIDE DEF r, tx
    <2>6. Appends(id, r, tx, disk.released[id])
      BY <2>5, SetsAppends DEF st, new
    <2> QED BY <2>2, <2>4, <2>6
  <1>2. Known(id)
    BY KnownBefore
  <1>3. /\ r.draft = disk.reservations[id].draft
        /\ disk.reservations[id].phase # "Absent"
    BY <1>1, <1>2 DEF Known, FieldsOk, ReservationRecord, RecordOk, RecordInv, TransactionInv
  <1>4. TransactionShape(tx)
    BY <1>1, <1>2 DEF Known, FieldsOk, TransactionShape, TransactionRecord, RollbackRecord,
       NoTransaction, NoRollback, Outcome, RollbackOutcome
  <1>5. InShape(id, r, tx)
    <2>1. ReservationShape(r)
      BY <1>1, <1>2 DEF Known, FieldsOk, ReservationShape, ReservationRecord, NoReservation
    <2>2. tx.rollback.id = disk.transactions[id].rollback.id
      BY <1>2 DEF Known, FieldsOk, TransactionRecord, RollbackRecord
    <2> QED BY <1>4, <2>1, <2>2 DEF InShape
  <1>6. HistoryInv' /\ ForgetsExpired
    BY <1>1, <1>3, <1>5, PlainHistory
  <1>7. /\ VaultView' = [VaultView EXCEPT ![id] = RecordView(r, tx)]
        /\ VaultView[id] = RecordView(disk.reservations[id], disk.transactions[id])
    BY <1>1, ViewOfAppend
  <1> DEFINE outcome == VaultPhase("Durable", disk.transactions[id].pending)
  <1>8. /\ VaultView[id].phase \in {"pending", "manual"} /\ VaultView[id].phase # outcome
        /\ outcome \in {"committed", "closed", "manual"}
    <2>1. disk.transactions[id].resolution \in {"None", "Manual"}
      BY <1>1, <1>2 DEF Known, RecordOk, RecordInv, TransactionInv
    <2>2. disk.transactions[id].pending # disk.transactions[id].resolution
      BY <1>1, <1>2 DEF Known, TransactionShape
    <2> QED BY <1>1, <1>2, <1>7, <2>1, <2>2 DEF Known, RecordView, VaultPhase, Outcome
  <1>9. RecordView(r, tx) = [VaultView[id] EXCEPT !.phase = outcome]
    BY <1>1, <1>2, <1>7 DEF Known, FieldsOk, TransactionRecord, RollbackRecord, RecordView
  <1>10. \E o \in Vault!Phase : Vault!Resolve(id, o)
    <2>1. Vault!Resolve(id, outcome)
      BY <1>7, <1>8, <1>9 DEF Vault!Resolve, Vault!Unresolved
    <2> QED BY <2>1, <1>8 DEF Vault!Phase
  <1> QED BY <1>6, <1>10 DEF Explained, VaultStep, Vault!VaultNext

\* begin_rollback_transaction is the Vault's BeginChild.
LEMMA RollbackBeginExplained ==
    ASSUME StoreInv, HistoryInv, StoreInv', NEW id \in Ids, NEW rollback,
           disk' = RollbackBegin(Tick(disk), id, rollback), boot' = boot
    PROVE  Explained
  <1> DEFINE r  == disk.reservations[id]
             tx == [disk.transactions[id] EXCEPT
                        !.rollback = [NoRollback EXCEPT !.id = rollback, !.resolution = "None"]]
  <1>1. /\ disk.openTransaction = NoId /\ disk.openRollback = NoId
        /\ disk.reservations[id].phase = "Durable"
        /\ disk.transactions[id].pending = "None"
        /\ \A other \in Ids : disk.transactions[other].rollback.id # rollback
        /\ disk.transactions[id].rollback.id = NoId
        /\ disk.transactions[id].resolution = "CommittedAfter"
        /\ Appends(id, r, tx, disk.released[id])
    <2>1. disk'.verdict = "ok"
      BY DEF StoreInv, JournalInv
    <2> DEFINE st == Tick(disk)
    <2>2. /\ st \in RecoveredState /\ disk' = RollbackBegin(st, id, rollback)
          /\ st.reservations = disk.reservations /\ st.transactions = disk.transactions
          /\ st.released = disk.released
          /\ st.openTransaction = disk.openTransaction /\ st.openRollback = disk.openRollback
      BY TickedState
    <2> HIDE DEF st
    <2>3. /\ st.pending = NoId /\ st.openTransaction = NoId /\ st.openRollback = NoId
          /\ st.reservations[id].phase = "Durable"
          /\ st.transactions[id].pending = "None"
          /\ \A other \in Ids : st.transactions[other].rollback.id # rollback
          /\ st.transactions[id].rollback.id = NoId
          /\ st.transactions[id].resolution = "CommittedAfter"
          /\ disk' = [st EXCEPT !.transactions[id].rollback =
                                    [NoRollback EXCEPT !.id = rollback, !.resolution = "None"],
                               !.openRollback = id]
      BY <2>1, <2>2, Rejected DEF RollbackBegin, Guarded
    <2>4. Sets(disk', st, id, r, tx, disk.released[id])
      <3>1. FieldsOk(st, id)
        BY <2>2, FieldTypes
      <3> QED BY <2>2, <2>3, <3>1
              DEF Sets, RecoveredState, FieldsOk, TransactionRecord, RollbackRecord
    <2> HIDE DEF r, tx
    <2>5. Appends(id, r, tx, disk.released[id])
      BY <2>4, SetsAppends DEF st
    <2> QED BY <2>2, <2>3, <2>5
  <1>2. Known(id)
    BY KnownBefore
  <1>3. /\ r.draft = disk.reservations[id].draft
        /\ disk.reservations[id].phase # "Absent"
    BY <1>1, <1>2 DEF Known, FieldsOk, ReservationRecord, RecordOk, RecordInv, TransactionInv
  <1>4. TransactionShape(tx)
    BY <1>1, <1>2 DEF Known, FieldsOk, TransactionShape, TransactionRecord, RollbackRecord,
       NoTransaction, NoRollback, Outcome, RollbackOutcome
  <1>5. InShape(id, r, tx)
    <2>1. ReservationShape(r)
      BY <1>1, <1>2 DEF Known, FieldsOk, ReservationShape, ReservationRecord, NoReservation
    <2>2. \A k \in Ids : disk.transactions[k].rollback.id # tx.rollback.id
      BY <1>1, <1>2 DEF Known, FieldsOk, TransactionRecord, NoRollback
    <2> QED BY <1>4, <2>1, <2>2 DEF InShape
  <1>6. HistoryInv' /\ ForgetsExpired
    BY <1>1, <1>3, <1>5, PlainHistory
  <1>7. /\ VaultView' = [VaultView EXCEPT ![id] = RecordView(r, tx)]
        /\ VaultView[id] = RecordView(disk.reservations[id], disk.transactions[id])
    BY <1>1, ViewOfAppend
  <1>8. /\ VaultView[id].phase = "committed" /\ VaultView[id].child = "none"
        /\ RecordView(r, tx) = [VaultView[id] EXCEPT !.child = "pending"]
    <2>1. disk.transactions[id].rollback = NoRollback
      BY <1>1, <1>2 DEF Known, RecordOk, RecordInv, TransactionInv, TransactionShape
    <2>2. /\ tx.resolution = "CommittedAfter" /\ tx.lease = disk.transactions[id].lease
          /\ tx.rollback.resolution = "None" /\ tx.rollback.lease = 0
      BY <1>1, <1>2 DEF Known, FieldsOk, TransactionRecord, NoRollback
    <2> HIDE DEF tx
    <2> QED BY <1>1, <1>2, <1>7, <2>1, <2>2
            DEF Known, FieldsOk, ReservationRecord, TransactionRecord, RollbackRecord,
                RecordView, VaultPhase, VaultChild, NoRollback
  <1>9. Vault!NothingOpen
    BY <1>1, NothingOpenInVault
  <1>10. Vault!BeginChild(id)
    BY <1>7, <1>8, <1>9 DEF Vault!BeginChild
  <1> QED BY <1>6, <1>10 DEF Explained, VaultStep, Vault!VaultNext

\* consume_rollback_write_lease is the Vault's LeaseChild.
LEMMA RollbackWriteLeaseConsumeExplained ==
    ASSUME StoreInv, HistoryInv, StoreInv', NEW id \in Ids, NEW rollback, NEW epoch,
           epoch = boot,
           disk' = RollbackWriteLeaseConsume(Tick(disk), id, rollback, epoch), boot' = boot
    PROVE  Explained
  <1> DEFINE r  == disk.reservations[id]
             tx == [disk.transactions[id] EXCEPT !.rollback.lease = epoch]
  <1>1. /\ disk.transactions[id].rollback.resolution = "None"
        /\ disk.transactions[id].rollback.lease # epoch
        /\ Appends(id, r, tx, disk.released[id])
    <2>1. disk'.verdict = "ok"
      BY DEF StoreInv, JournalInv
    <2> QED BY <2>1, TickedState, RollbackWriteLeaseConsumeSets, SetsAppends
  <1>2. Known(id)
    BY KnownBefore
  <1>3. /\ r.draft = disk.reservations[id].draft
        /\ disk.reservations[id].phase # "Absent"
    BY <1>1, <1>2 DEF Known, FieldsOk, ReservationRecord, RecordOk, RecordInv, TransactionInv
  <1>4. TransactionShape(tx)
    BY <1>1, <1>2 DEF Known, FieldsOk, TransactionShape, TransactionRecord, RollbackRecord,
       NoTransaction, NoRollback, Outcome, RollbackOutcome
  <1>5. InShape(id, r, tx)
    <2>1. ReservationShape(r)
      BY <1>1, <1>2 DEF Known, FieldsOk, ReservationShape, ReservationRecord, NoReservation
    <2>2. tx.rollback.id = disk.transactions[id].rollback.id
      BY <1>2 DEF Known, FieldsOk, TransactionRecord, RollbackRecord
    <2> QED BY <1>4, <2>1, <2>2 DEF InShape
  <1>6. HistoryInv' /\ ForgetsExpired
    BY <1>1, <1>3, <1>5, PlainHistory
  <1>7. /\ VaultView' = [VaultView EXCEPT ![id] = RecordView(r, tx)]
        /\ VaultView[id] = RecordView(disk.reservations[id], disk.transactions[id])
    BY <1>1, ViewOfAppend
  <1>8. /\ VaultView[id].child = "pending" /\ VaultView[id].childLease # boot
        /\ RecordView(r, tx) = [VaultView[id] EXCEPT !.childLease = boot]
    BY <1>1, <1>2, <1>7
       DEF Known, FieldsOk, ReservationRecord, TransactionRecord, RollbackRecord,
           RecordView, VaultPhase, VaultChild
  <1>10. Vault!LeaseChild(id)
    BY <1>7, <1>8 DEF Vault!LeaseChild
  <1> QED BY <1>6, <1>10 DEF Explained, VaultStep, Vault!VaultNext

\* The completion of a rollback's decision is the Vault's ResolveChild.
LEMMA RollbackResolveCompleteExplained ==
    ASSUME StoreInv, HistoryInv, StoreInv', NEW id \in Ids, NEW rollback,
           disk' = RollbackResolveComplete(Tick(disk), id, rollback), boot' = boot
    PROVE  Explained
  <1> DEFINE r  == disk.reservations[id]
             tx == [disk.transactions[id] EXCEPT !.rollback =
                        [@ EXCEPT !.pending = "None",
                                  !.resolution = disk.transactions[id].rollback.pending]]
  <1>1. /\ disk.openRollback = id
        /\ disk.transactions[id].rollback.pending # "None"
        /\ Appends(id, r, tx, disk.released[id])
    <2>1. disk'.verdict = "ok"
      BY DEF StoreInv, JournalInv
    <2> DEFINE st == Tick(disk)
    <2>2. /\ st \in RecoveredState /\ disk' = RollbackResolveComplete(st, id, rollback)
          /\ st.reservations = disk.reservations /\ st.transactions = disk.transactions
          /\ st.released = disk.released
          /\ st.openTransaction = disk.openTransaction /\ st.openRollback = disk.openRollback
      BY TickedState
    <2> HIDE DEF st
    <2>3. /\ st.pending = id /\ st.openRollback = id
          /\ st.transactions[id].rollback.pending # "None"
          /\ disk' = [st EXCEPT !.pending = NoId,
                   !.transactions[id].rollback =
                        [@ EXCEPT !.pending = "None",
                                  !.resolution = st.transactions[id].rollback.pending],
                   !.openRollback =
                        IF Resolved(st.transactions[id].rollback.pending) THEN NoId ELSE @]
      BY <2>1, <2>2, Rejected DEF RollbackResolveComplete, Guarded
    <2>4. Sets(disk', st, id, r, tx, disk.released[id])
      <3>1. FieldsOk(st, id)
        BY <2>2, FieldTypes
      <3> DEFINE rb == [disk.transactions[id].rollback EXCEPT
                            !.pending = "None",
                            !.resolution = disk.transactions[id].rollback.pending]
                 transactions == [st.transactions EXCEPT ![id].rollback = rb]
                 open == IF Resolved(st.transactions[id].rollback.pending) THEN NoId
                                                                       ELSE st.openRollback
      <3>2. disk' = [st EXCEPT !.pending = NoId, !.transactions = transactions,
                               !.openRollback = open]
        BY <2>2, <2>3 DEF RecoveredState
      <3>3. transactions = [st.transactions EXCEPT ![id] = tx]
        <4> HIDE DEF rb
        <4>1. tx = [disk.transactions[id] EXCEPT !.rollback = rb]
          BY DEF rb
        <4> HIDE DEF tx
        <4> QED BY <2>2, <3>1, <4>1 DEF FieldsOk
      <3> HIDE DEF rb, transactions, open, tx
      <3> QED BY <2>2, <3>1, <3>2, <3>3 DEF Sets, RecoveredState, FieldsOk
    <2> HIDE DEF r, tx
    <2>5. Appends(id, r, tx, disk.released[id])
      BY <2>4, SetsAppends DEF st
    <2> QED BY <2>2, <2>3, <2>5
  <1>2. Known(id)
    BY KnownBefore
  <1>0. /\ tx.resolution = disk.transactions[id].resolution
        /\ tx.pending = disk.transactions[id].pending /\ tx.lease = disk.transactions[id].lease
        /\ tx.rollback.resolution = disk.transactions[id].rollback.pending
        /\ tx.rollback.pending = "None"
        /\ tx.rollback.lease = disk.transactions[id].rollback.lease
        /\ tx.rollback.id = disk.transactions[id].rollback.id
    BY <1>2 DEF Known, FieldsOk, TransactionRecord, RollbackRecord
  <1> HIDE DEF tx
  <1>3. /\ r.draft = disk.reservations[id].draft
        /\ disk.reservations[id].phase # "Absent"
    BY <1>1, <1>2 DEF Known, FieldsOk, ReservationRecord, RecordOk, RecordInv, TransactionInv
  <1>4. TransactionShape(tx)
    <2>1. disk.transactions[id].resolution = "CommittedAfter"
      BY <1>1, <1>2 DEF Known, RecordOk, RecordInv, TransactionInv
    <2> QED BY <1>0, <1>1, <1>2, <2>1 DEF Known, TransactionShape, RollbackOutcome
  <1>5. InShape(id, r, tx)
    <2>1. ReservationShape(r)
      BY <1>1, <1>2 DEF Known, FieldsOk, ReservationShape, ReservationRecord, NoReservation
    <2>2. tx.rollback.id = disk.transactions[id].rollback.id
      BY <1>0
    <2> QED BY <1>4, <2>1, <2>2 DEF InShape
  <1>6. HistoryInv' /\ ForgetsExpired
    BY <1>1, <1>3, <1>5, PlainHistory
  <1>7. /\ VaultView' = [VaultView EXCEPT ![id] = RecordView(r, tx)]
        /\ VaultView[id] = RecordView(disk.reservations[id], disk.transactions[id])
    BY <1>1, ViewOfAppend
  <1> DEFINE outcome == VaultChild(disk.transactions[id].rollback.pending)
  <1>8. /\ VaultView[id].child \in {"pending", "manual"} /\ VaultView[id].child # outcome
        /\ outcome \in {"rolledBack", "manual"}
    <2>1. disk.transactions[id].rollback.resolution \in {"None", "Manual"}
      BY <1>1, <1>2 DEF Known, RecordOk, RecordInv, TransactionInv
    <2>2. disk.transactions[id].rollback.pending # disk.transactions[id].rollback.resolution
      BY <1>1, <1>2 DEF Known, TransactionShape
    <2> QED BY <1>1, <1>2, <1>7, <2>1, <2>2 DEF Known, RecordView, VaultChild, RollbackOutcome
  <1>9. RecordView(r, tx) = [VaultView[id] EXCEPT !.child = outcome]
    BY <1>0, <1>7 DEF RecordView
  <1>10. \E o \in Vault!ChildPhase : Vault!ResolveChild(id, o)
    <2>1. Vault!ResolveChild(id, outcome)
      BY <1>7, <1>8, <1>9 DEF Vault!ResolveChild, Vault!Unresolved
    <2> QED BY <2>1, <1>8 DEF Vault!ChildPhase
  <1> QED BY <1>6, <1>10 DEF Explained, VaultStep, Vault!VaultNext

\* A release is the Vault's CancelReservation or Retire.
LEMMA ReleaseCompleteExplained ==
    ASSUME StoreInv, HistoryInv, StoreInv', NEW id \in Ids,
           disk' = ReleaseComplete(Tick(disk), id), boot' = boot
    PROVE  Explained
  <1> DEFINE Transaction(operation) ==
                IF operation = "Cancel" THEN disk.transactions[id] ELSE NoTransaction
             Tombstone(operation) ==
                [operation |-> operation, record |-> disk.reservations[id],
                 at |-> disk.clock + 1]
  <1>1. PICK operation \in {"Cancel", "Retire"} :
           /\ id \notin Released(disk)
           /\ operation = "Cancel" => disk.reservations[id].phase = "CancelPending"
           /\ operation = "Retire" => /\ disk.reservations[id].phase = "RetirePending"
                                      /\ Resolved(disk.transactions[id].resolution)
                                      /\ RollbackClosed(disk.transactions[id])
           /\ Sets(disk', Tick(disk), id, NoReservation, Transaction(operation),
                   Tombstone(operation))
    <2>1. disk'.verdict = "ok"
      BY DEF StoreInv, JournalInv
    <2> QED BY <2>1, TickedState, ReleaseCompleteSets
  <1> DEFINE tx == Transaction(operation)
  <1>2. Appends(id, NoReservation, tx, Tombstone(operation))
    <2> HIDE DEF Transaction, Tombstone
    <2> QED BY <1>1, SetsAppends
  <1>3. Known(id)
    BY KnownBefore
  <1>4. InShape(id, NoReservation, tx) /\ disk.reservations[id].phase # "Absent"
    <2>1. TransactionShape(tx) /\ disk.reservations[id].phase # "Absent"
      BY <1>1, <1>3 DEF Known, TransactionShape, NoTransaction, NoRollback
    <2>2. ReservationShape(NoReservation)
      BY DEF ReservationShape, NoReservation
    <2>3. tx.rollback.id \in {NoId, disk.transactions[id].rollback.id}
      BY DEF NoTransaction, NoRollback
    <2> QED BY <2>1, <2>2, <2>3 DEF InShape
  <1>5. HistoryInv' /\ ForgetsExpired
    BY <1>1, <1>2, <1>4, ReleaseHistory
  <1>6. /\ VaultView' = [VaultView EXCEPT ![id] = RecordView(NoReservation, tx)]
        /\ VaultView[id] = RecordView(disk.reservations[id], disk.transactions[id])
    BY <1>2, ViewOfAppend
  <1>7. RecordView(NoReservation, NoTransaction) = Vault!FreeSlot
    BY DEF RecordView, NoReservation, NoTransaction, NoRollback, VaultPhase, VaultChild,
       Vault!FreeSlot
  <1>8. CASE operation = "Cancel"
    <2>1. disk.transactions[id] = NoTransaction
      BY <1>1, <1>3, <1>8 DEF Known, TransactionShape
    <2>2. VaultView[id].phase = "reserved"
      BY <1>1, <1>6, <1>8, <2>1 DEF RecordView, VaultPhase, NoTransaction
    <2>3. Vault!CancelReservation(id)
      BY <1>6, <1>7, <1>8, <2>1, <2>2 DEF Vault!CancelReservation
    <2> QED BY <1>5, <2>3 DEF Explained, VaultStep, Vault!VaultNext
  <1>9. CASE operation = "Retire"
    <2>1. VaultView[id].phase \in {"committed", "closed"}
      BY <1>1, <1>3, <1>6, <1>9 DEF Known, RecordView, VaultPhase, Resolved, Outcome
    <2>2. VaultView[id].child \in {"none", "rolledBack"}
      <3>1. disk.transactions[id].rollback.resolution \in {"Absent", "RolledBackBefore"}
        BY <1>1, <1>3, <1>9 DEF Known, RecordOk, RecordInv, TransactionInv, RollbackClosed,
           Resolved, RollbackOutcome
      <3> QED BY <3>1, <1>6 DEF RecordView, VaultChild
    <2>3. Vault!Retire(id)
      BY <1>6, <1>7, <1>9, <2>1, <2>2 DEF Vault!Retire, Vault!Unresolved
    <2> QED BY <1>5, <2>3 DEF Explained, VaultStep, Vault!VaultNext
  <1> QED BY <1>8, <1>9

\* A step that appends nothing in the same boot, or is a compaction.
LEMMA QuietExplained ==
    ASSUME StoreInv, HistoryInv, StoreInv', boot' = boot,
           disk' = disk \/ disk' = CompactedState(disk)
    PROVE  Explained
  <1>1. /\ HistoryInv' /\ ForgetsExpired
        /\ disk'.reservations = disk.reservations /\ disk'.transactions = disk.transactions
    BY QuietHistory, CompactHistory
  <1>2. VaultView' = VaultView
    BY <1>1 DEF VaultView
  <1> QED BY <1>1, <1>2 DEF Explained, VaultStep

\* compact_journal, successful or not.
LEMMA CompactionExplained ==
    ASSUME StoreInv, HistoryInv, StoreInv', NEW yes, NEW no, Compaction(yes, no)
    PROVE  Explained
  <1>1. boot' = boot /\ (disk' = disk \/ disk' = CompactedState(disk))
    BY DEF Compaction, environment
  <1> QED BY <1>1, QuietExplained

\* The requests of the repair service.
LEMMA RequestExplained ==
    ASSUME StoreInv, HistoryInv, StoreInv', Request
    PROVE  Explained
  <1>1. ASSUME NEW id \in Ids, NEW draft \in Drafts, ReserveBackup(id, draft) PROVE Explained
    <2>1. PICK par \in Parents : par = parent
      BY DEF StoreInv, TypeOK
    <2>2. /\ disk' = ReserveIntent(Tick(disk), id, draft, par)
          /\ DraftUnused(draft) /\ boot' = boot
      BY <1>1, <2>1 DEF ReserveBackup, AppendEvent
    <2> QED BY <2>2, ReserveIntentExplained
  <1>2. ASSUME NEW id \in Ids, PersistBackup(id) PROVE Explained
    BY <1>2, PersistIntentExplained DEF PersistBackup, AppendEvent, environment
  <1>3. ASSUME NEW id \in Ids, CancelReserved(id) PROVE Explained
    BY <1>3, CancelIntentExplained DEF CancelReserved, AppendEvent, environment
  <1>4. ASSUME NEW id \in Ids, RetireBackup(id) PROVE Explained
    BY <1>4, RetireIntentExplained DEF RetireBackup, AppendEvent, environment
  <1>5. ASSUME NEW id \in Ids, ConsumeWriteLease(id) PROVE Explained
    <2>1. PICK epoch \in Nat : epoch = boot
      BY DEF StoreInv, TypeOK
    <2>2. disk' = TransactionWriteLeaseConsume(Tick(disk), id, epoch) /\ boot' = boot
      BY <1>5, <2>1 DEF ConsumeWriteLease, AppendEvent
    <2> QED BY <2>1, <2>2, TransactionWriteLeaseConsumeExplained
  <1>6. ASSUME NEW id \in Ids, NEW resolution \in Outcome, ResolveTransaction(id, resolution)
        PROVE  Explained
    <2>1. PICK phase \in {"Pending", "Manual", "Resolved"} :
             phase = TransactionPhase(disk.transactions[id].resolution)
      BY DEF TransactionPhase
    <2>2. disk' = TransactionResolveIntent(Tick(disk), id, phase, resolution) /\ boot' = boot
      BY <1>6, <2>1 DEF ResolveTransaction, AppendEvent, environment
    <2> QED BY <2>2, TransactionResolveIntentExplained
  <1>7. ASSUME NEW id \in Ids, NEW rollback \in RollbackIds, BeginRollback(id, rollback)
        PROVE  Explained
    BY <1>7, RollbackBeginExplained DEF BeginRollback, AppendEvent, environment
  <1>8. ASSUME NEW id \in Ids, ConsumeRollbackWriteLease(id) PROVE Explained
    <2>1. PICK epoch \in Nat : epoch = boot
      BY DEF StoreInv, TypeOK
    <2>2. PICK rollback : rollback = disk.transactions[id].rollback.id
      OBVIOUS
    <2>3. disk' = RollbackWriteLeaseConsume(Tick(disk), id, rollback, epoch) /\ boot' = boot
      BY <1>8, <2>1, <2>2 DEF ConsumeRollbackWriteLease, AppendEvent
    <2> QED BY <2>1, <2>3, RollbackWriteLeaseConsumeExplained
  <1>9. ASSUME NEW id \in Ids, NEW resolution \in RollbackOutcome, ResolveRollback(id, resolution)
        PROVE  Explained
    <2>1. PICK phase \in {"Pending", "Manual", "Resolved"} :
             phase = TransactionPhase(disk.transactions[id].rollback.resolution)
      BY DEF TransactionPhase
    <2>2. PICK rollback : rollback = disk.transactions[id].rollback.id
      OBVIOUS
    <2>3. /\ disk' = RollbackResolveIntent(Tick(disk), id, rollback, phase, resolution)
          /\ boot' = boot
      BY <1>9, <2>1, <2>2 DEF ResolveRollback, AppendEvent, environment
    <2> QED BY <2>3, RollbackResolveIntentExplained
  <1>10. ASSUME NEW id \in Ids, ResumeReserved(id) \/ PersistRefused(id) PROVE Explained
    BY <1>10, QuietExplained DEF ResumeReserved, PersistRefused, environment
  <1>11. CASE CompactForRoom
    BY <1>11, CompactionExplained DEF CompactForRoom
  <1> QED BY <1>1, <1>2, <1>3, <1>4, <1>5, <1>6, <1>7, <1>8, <1>9, <1>10, <1>11 DEF Request

\* The steps of an operation in progress.
LEMMA OperationExplained ==
    ASSUME StoreInv, HistoryInv, StoreInv', OperationStep
    PROVE  Explained
  <1>1. step \in HandlerStep
    BY DEF OperationStep, ReserveCreate, ReserveAllocate, ReserveSync, ReserveFinish,
       PersistWrite, PersistFlush, PersistSync, PersistFinish, ReleaseRemove, ReleaseSync,
       ReleaseFinish, ResolveFinish, RollbackResolveFinish, ChangeFile, SyncFile, HandlerStep
  <1>2. PICK id \in Ids : id = disk.pending
    BY <1>1, PendingFacts DEF StoreInv, StepInv, HandlerStep
  <1>3. CASE \/ ReserveCreate \/ ReserveAllocate \/ ReserveSync
             \/ PersistWrite \/ PersistFlush \/ PersistSync \/ ReleaseRemove \/ ReleaseSync
    BY <1>3, QuietExplained
       DEF ReserveCreate, ReserveAllocate, ReserveSync, PersistWrite, PersistFlush,
           PersistSync, ReleaseRemove, ReleaseSync, ChangeFile, SyncFile, environment
  <1>4. CASE ReserveFinish
    BY <1>2, <1>4, ReserveCompleteExplained DEF ReserveFinish, AppendEvent, environment
  <1>5. CASE PersistFinish
    BY <1>2, <1>5, PersistCompleteExplained DEF PersistFinish, AppendEvent, environment
  <1>6. CASE ReleaseFinish
    BY <1>2, <1>6, ReleaseCompleteExplained DEF ReleaseFinish, AppendEvent, environment
  <1>7. CASE ResolveFinish
    BY <1>2, <1>7, TransactionResolveCompleteExplained
       DEF ResolveFinish, AppendEvent, environment
  <1>8. CASE RollbackResolveFinish
    <2>1. PICK rollback : rollback = disk.transactions[id].rollback.id
      OBVIOUS
    <2> QED BY <1>2, <1>8, <2>1, RollbackResolveCompleteExplained
            DEF RollbackResolveFinish, AppendEvent, environment
  <1> QED BY <1>3, <1>4, <1>5, <1>6, <1>7, <1>8 DEF OperationStep

\* The steps of open.
LEMMA OpenExplained ==
    ASSUME StoreInv, HistoryInv, StoreInv', OpenStep
    PROVE  Explained
  <1>1. ASSUME step \in OpeningStep \ {"Layout"}
        PROVE  \E id \in Ids : id = disk.pending
    BY <1>1, PendingFacts DEF StoreInv, StepInv, OpeningStep
  <1>2. CASE \/ AbortSync \/ ResetAllocate \/ ResetSync \/ ReconcileRelease \/ RemoveSync
             \/ OpenRefused \/ OpenReady
    BY <1>2, QuietExplained
       DEF AbortSync, ResetAllocate, ResetSync, ReconcileRelease, RemoveSync, OpenRefused,
           OpenReady, ChangeFile, SyncFile, environment
  <1>3. CASE OpenCompact
    BY <1>3, CompactionExplained DEF OpenCompact
  <1>4. CASE ReconcileResolve
    <2>1. PICK id \in Ids : id = disk.pending
      BY <1>1, <1>4 DEF ReconcileResolve, OpeningStep
    <2> QED BY <1>4, <2>1, TransactionResolveCompleteExplained
            DEF ReconcileResolve, AppendEvent, environment
  <1>5. CASE ReconcileRollback
    <2>1. PICK id \in Ids : id = disk.pending
      BY <1>1, <1>5 DEF ReconcileRollback, OpeningStep
    <2>2. PICK rollback : rollback = disk.transactions[id].rollback.id
      OBVIOUS
    <2> QED BY <1>5, <2>1, <2>2, RollbackResolveCompleteExplained
            DEF ReconcileRollback, AppendEvent, environment
  <1>6. CASE ReconcileReserve
    <2>1. PICK id \in Ids : id = disk.pending
      BY <1>1, <1>6 DEF ReconcileReserve, OpeningStep
    <2>2. /\ boot' = boot
          /\ disk' = disk \/ disk' = ReserveComplete(Tick(disk), id)
      BY <1>6, <2>1 DEF ReconcileReserve, AppendEvent, environment
    <2> QED BY <2>2, ReserveCompleteExplained, QuietExplained
  <1>7. CASE AbortReserve
    <2>1. PICK id \in Ids : id = disk.pending
      BY <1>1, <1>7 DEF AbortReserve, OpeningStep
    <2> QED BY <1>7, <2>1, ReserveAbortExplained DEF AbortReserve, AppendEvent, environment
  <1>8. CASE ReconcilePersist
    <2>1. PICK id \in Ids : id = disk.pending
      BY <1>1, <1>8 DEF ReconcilePersist, OpeningStep
    <2>2. /\ boot' = boot
          /\ disk' = disk \/ disk' = PersistComplete(Tick(disk), id)
      BY <1>8, <2>1 DEF ReconcilePersist, AppendEvent, environment
    <2> QED BY <2>2, PersistCompleteExplained, QuietExplained
  <1>9. CASE AbortPersist
    <2>1. PICK id \in Ids : id = disk.pending
      BY <1>1, <1>9 DEF AbortPersist, OpeningStep
    <2> QED BY <1>9, <2>1, PersistAbortExplained DEF AbortPersist, AppendEvent, environment
  <1>10. CASE FinishRelease
    <2>1. PICK id \in Ids : id = disk.pending
      BY <1>1, <1>10 DEF FinishRelease, OpeningStep
    <2> QED BY <1>10, <2>1, ReleaseCompleteExplained
            DEF FinishRelease, AppendEvent, environment
  <1> QED BY <1>2, <1>3, <1>4, <1>5, <1>6, <1>7, <1>8, <1>9, <1>10 DEF OpenStep

\* Every step of the store.
LEMMA NextExplained ==
    ASSUME StoreInv, HistoryInv, StoreInv', [Next]_vars
    PROVE  Explained
  <1>1. CASE Request
    BY <1>1, RequestExplained
  <1>2. CASE OperationStep
    BY <1>2, OperationExplained
  <1>3. CASE OpenStep
    BY <1>3, OpenExplained
  <1>4. CASE Open \/ OperationFails \/ Close \/ Crash \/ UNCHANGED vars
    BY <1>4, QuietExplained DEF Open, OperationFails, Close, Crash, environment, vars
  <1>5. CASE Reboot
    <2>1. disk' = disk /\ boot' = boot + 1
      BY <1>5 DEF Reboot
    <2>2. VaultView' = VaultView
      BY <2>1 DEF VaultView
    <2>3. Vault!NextBoot
      BY <2>1, <2>2 DEF Vault!NextBoot
    <2>4. HistoryInv' /\ ForgetsExpired
      BY <2>1, QuietHistory
    <2> QED BY <2>3, <2>4 DEF Explained, VaultStep, Vault!VaultNext
  <1> QED BY <1>1, <1>2, <1>3, <1>4, <1>5 DEF Next

\* The empty store.
LEMMA InitHistory == ASSUME Init PROVE HistoryInv /\ Vault!VaultInit
  <1>1. /\ Active(disk) = {} /\ Released(disk) = {}
        /\ \A id \in Ids : /\ disk.reservations[id] = NoReservation
                           /\ disk.transactions[id] = NoTransaction
                           /\ disk.released[id] = NoRelease
    BY DEF Init, EmptyState, Active, Released, NoReservation, NoRelease
  <1>2. HistoryInv
    <2>1. /\ TransactionShape(NoTransaction) /\ ReservationShape(NoReservation)
          /\ ReleaseShape(NoRelease) /\ NoTransaction.rollback.id = NoId
      BY DEF TransactionShape, ReservationShape, ReleaseShape, NoTransaction, NoRollback,
         NoReservation, NoRelease
    <2>2. RollbacksDiffer(disk)
      BY <1>1, <2>1 DEF RollbacksDiffer
    <2>3. Cardinality(Active(disk)) <= MaxReservations
      BY <1>1, FS_EmptySet, LimitAssumption
    <2> QED BY <1>1, <2>1, <2>2, <2>3 DEF HistoryInv, ReleaseOrder, DraftReservedOnce
  <1>3. \A id \in Ids : RecordView(disk.reservations[id], disk.transactions[id])
                          = Vault!FreeSlot
    BY <1>1 DEF RecordView, NoReservation, NoTransaction, NoRollback, VaultPhase, VaultChild,
       Vault!FreeSlot
  <1>4. VaultView = [id \in Ids |-> Vault!FreeSlot]
    BY <1>3 DEF VaultView, RecordView
  <1> QED BY <1>2, <1>4 DEF Init, Vault!VaultInit

(***************************************************************************)
(* The replay of a snapshot.  compact_journal succeeds when the events it  *)
(* writes replay to the compacted state: this part follows that replay     *)
(* event by event, from the empty store to the last check, for stores of   *)
(* every size.  Inductions over the events, the identifiers and the sizes  *)
(* of sets all go through the least number of a set of numbers.            *)
(***************************************************************************)
\* Every non-empty set of numbers has a least one: the induction of this part.
LEMMA LeastNumber ==
    ASSUME NEW T \in SUBSET Nat, T # {}
    PROVE  \E n \in T : \A m \in T : n <= m
  <1>1. PICK x \in T : \A y \in T : ~(<<y, x>> \in OpToRel(<, Nat))
    BY NatLessThanWellFounded, WFMin
  <1>2. \A y \in T : <<y, x>> \in OpToRel(<, Nat) <=> y < x
    BY DEF OpToRel
  <1>3. \A y \in T : ~(y < x)
    BY <1>1, <1>2, Zenon
  <1> QED BY <1>3

\* The states of a replay, one after each event.
IsTrace(f, state, entries, n) ==
    f = [i \in 0..n |-> IF i = 0 THEN state ELSE ApplyEvent(f[i - 1], entries[i])]

\* They exist: ReplayFrom is well defined.
LEMMA TraceExists ==
    ASSUME NEW state, NEW entries, NEW n \in Nat
    PROVE  \E f : IsTrace(f, state, entries, n)
  <1> DEFINE T == {k \in Nat : ~ \E f : IsTrace(f, state, entries, k)}
  <1>1. SUFFICES ASSUME T # {} PROVE FALSE
    OBVIOUS
  <1>2. PICK k \in T : \A m \in T : k <= m
    BY <1>1, LeastNumber
  <1>3. CASE k = 0
    <2>1. IsTrace([i \in 0..0 |-> state], state, entries, 0)
      BY DEF IsTrace
    <2> QED BY <2>1, <1>3
  <1>4. CASE k # 0
    <2>1. k - 1 \in Nat /\ k - 1 \notin T
      BY <1>2, <1>4
    <2>2. PICK f : IsTrace(f, state, entries, k - 1)
      BY <2>1
    <2> DEFINE g == [i \in 0..k |-> IF i = k THEN ApplyEvent(f[k - 1], entries[k]) ELSE f[i]]
    <2>3. IsTrace(g, state, entries, k)
      BY <2>1, <2>2, <1>4 DEF IsTrace
    <2> QED BY <2>3
  <1> QED BY <1>3, <1>4

\* The replay is the last of them.
LEMMA ReplayTrace ==
    ASSUME NEW state, NEW entries, Len(entries) \in Nat
    PROVE  \E f : /\ IsTrace(f, state, entries, Len(entries))
                  /\ ReplayFrom(state, entries) = f[Len(entries)]
  <1> DEFINE f == CHOOSE g : IsTrace(g, state, entries, Len(entries))
  <1>1. IsTrace(f, state, entries, Len(entries))
    BY TraceExists
  <1>2. ReplayFrom(state, entries) = f[Len(entries)]
    BY DEF ReplayFrom, IsTrace
  <1> QED BY <1>1, <1>2

\* The states f follow the first n events.
TraceFollows(f, entries, n) == \A i \in 1..n : f[i] = ApplyEvent(f[i - 1], entries[i])

\* Two replays of the same events from the same state agree.
LEMMA TracesAgree ==
    ASSUME NEW n \in Nat, NEW f, NEW g, NEW entries, f[0] = g[0],
           TraceFollows(f, entries, n), TraceFollows(g, entries, n)
    PROVE  \A i \in 0..n : f[i] = g[i]
  <1> DEFINE T == {k \in 0..n : f[k] # g[k]}
  <1>1. SUFFICES ASSUME T # {} PROVE FALSE
    OBVIOUS
  <1>2. PICK k \in T : \A m \in T : k <= m
    <2>1. T \in SUBSET Nat
      OBVIOUS
    <2> HIDE DEF T
    <2> QED BY <1>1, <2>1, LeastNumber
  <1>3. k # 0 /\ k \in 1..n
    OBVIOUS
  <1>4. k - 1 \in 0..n /\ k - 1 \notin T
    BY <1>2, <1>3
  <1>5. f[k - 1] = g[k - 1]
    BY <1>4
  <1> QED BY <1>3, <1>5 DEF TraceFollows

\* Nothing to replay.
LEMMA ReplayNothing ==
    ASSUME NEW state
    PROVE  ReplayFrom(state, <<>>) = state
  <1>1. PICK f : IsTrace(f, state, <<>>, Len(<<>>)) /\ ReplayFrom(state, <<>>) = f[Len(<<>>)]
    BY ReplayTrace
  <1> QED BY <1>1 DEF IsTrace

\* One event.
LEMMA ReplayOne ==
    ASSUME NEW state, NEW e
    PROVE  ReplayFrom(state, <<e>>) = ApplyEvent(state, e)
  <1>1. PICK f : IsTrace(f, state, <<e>>, Len(<<e>>)) /\ ReplayFrom(state, <<e>>) = f[Len(<<e>>)]
    BY ReplayTrace
  <1> QED BY <1>1 DEF IsTrace

\* A replay may stop in between.
LEMMA ReplayConcat ==
    ASSUME NEW S, NEW state, NEW s \in Seq(S), NEW t \in Seq(S)
    PROVE  ReplayFrom(state, s \o t) = ReplayFrom(ReplayFrom(state, s), t)
  <1>1. PICK m \in Nat, n \in Nat :
           /\ m = Len(s) /\ n = Len(t) /\ Len(s \o t) = m + n
           /\ \A i \in 1..m : (s \o t)[i] = s[i]
           /\ \A i \in 1..n : (s \o t)[m + i] = t[i]
    OBVIOUS
  <1>2. PICK f : IsTrace(f, state, s \o t, m + n) /\ ReplayFrom(state, s \o t) = f[m + n]
    <2>1. Len(s \o t) \in Nat
      BY <1>1
    <2>2. \E f : /\ IsTrace(f, state, s \o t, Len(s \o t))
                 /\ ReplayFrom(state, s \o t) = f[Len(s \o t)]
      BY <2>1, ReplayTrace, Zenon
    <2> QED BY <1>1, <2>2, Zenon
  <1>3. PICK g : IsTrace(g, state, s, m) /\ ReplayFrom(state, s) = g[m]
    BY <1>1, ReplayTrace
  <1>4. PICK h : IsTrace(h, g[m], t, n) /\ ReplayFrom(g[m], t) = h[n]
    BY <1>1, ReplayTrace
  <1>5. f[m] = g[m]
    <2>1. f[0] = state /\ g[0] = state
      BY <1>2, <1>3 DEF IsTrace
    <2>2. ASSUME NEW i \in 1..m
          PROVE  f[i] = ApplyEvent(f[i - 1], s[i]) /\ g[i] = ApplyEvent(g[i - 1], s[i])
      <3>1. i \in 0..(m + n) /\ i \in 0..m /\ i # 0
        OBVIOUS
      <3>2. f[i] = ApplyEvent(f[i - 1], (s \o t)[i])
        BY <1>2, <3>1 DEF IsTrace
      <3>3. g[i] = ApplyEvent(g[i - 1], s[i])
        BY <1>3, <3>1 DEF IsTrace
      <3> QED BY <1>1, <3>2, <3>3
    <2>3. TraceFollows(f, s, m) /\ TraceFollows(g, s, m)
      BY <2>2 DEF TraceFollows
    <2>4. \A i \in 0..m : f[i] = g[i]
      BY <2>1, <2>3, TracesAgree
    <2> QED BY <2>4
  <1>6. PICK k : k = [i \in 0..n |-> f[m + i]]
    OBVIOUS
  <1>7. k[n] = h[n]
    <2>1. k[0] = h[0]
      BY <1>4, <1>5, <1>6 DEF IsTrace
    <2>2. ASSUME NEW i \in 1..n
          PROVE  k[i] = ApplyEvent(k[i - 1], t[i]) /\ h[i] = ApplyEvent(h[i - 1], t[i])
      <3>1. /\ m + i \in 0..(m + n) /\ m + i # 0 /\ (m + i) - 1 = m + (i - 1)
            /\ i - 1 \in 0..n /\ i \in 0..n /\ i # 0
        OBVIOUS
      <3>2. h[i] = ApplyEvent(h[i - 1], t[i])
        BY <1>4, <3>1 DEF IsTrace
      <3>3. f[m + i] = ApplyEvent(f[(m + i) - 1], (s \o t)[m + i])
        BY <1>2, <3>1 DEF IsTrace
      <3>4. k[i] = f[m + i] /\ k[i - 1] = f[m + (i - 1)]
        BY <1>6, <3>1
      <3>5. (s \o t)[m + i] = t[i]
        BY <1>1
      <3> QED BY <3>1, <3>2, <3>3, <3>4, <3>5
    <2>3. TraceFollows(k, t, n) /\ TraceFollows(h, t, n)
      BY <2>2 DEF TraceFollows
    <2>4. \A i \in 0..n : k[i] = h[i]
      BY <2>1, <2>3, TracesAgree
    <2> QED BY <2>4
  <1>8. k[n] = f[m + n]
    BY <1>6
  <1> QED BY <1>2, <1>3, <1>4, <1>7, <1>8

(***************************************************************************)
(* One event of a snapshot.                                                *)
(***************************************************************************)
StateField ==
    {"reservations", "released", "seen", "pending", "transactions", "openTransaction",
     "openRollback", "clock", "generation", "restoring", "verdict"}
StateRecord(st) == st = [field \in StateField |-> st[field]]

\* A state between CompactionBegin and CompactionComplete.
Restoring(base) ==
    /\ base.reservations \in [Ids -> ReservationRecord]
    /\ base.transactions \in [Ids -> TransactionRecord]
    /\ base.released \in [Ids -> ReleaseTombstone]
    /\ base.restoring # <<>>

\* The same with the reservation r and the transaction tx of id restored.
Stands(st, base, id, r, tx, p, ot, or) ==
    /\ StateRecord(st)
    /\ st.reservations = [base.reservations EXCEPT ![id] = r]
    /\ st.transactions = [base.transactions EXCEPT ![id] = tx]
    /\ st.released = base.released /\ st.seen = base.seen \cup {id}
    /\ st.pending = p /\ st.openTransaction = ot /\ st.openRollback = or
    /\ st.clock = base.clock /\ st.generation = base.generation
    /\ st.restoring = base.restoring /\ st.verdict = "ok"

\* What an event reads of it.
LEMMA StandsAt ==
    ASSUME NEW base, Restoring(base), NEW id \in Ids, NEW r, NEW tx, NEW p, NEW ot, NEW or,
           NEW st, Stands(st, base, id, r, tx, p, ot, or)
    PROVE  /\ st.reservations[id] = r /\ st.transactions[id] = tx
           /\ st.pending = p /\ st.openTransaction = ot /\ st.openRollback = or
           /\ st.restoring # <<>> /\ Tick(st) = st
           /\ \A k \in Ids : k # id => st.transactions[k] = base.transactions[k]
  BY DEF Stands, Restoring, Tick

\* A reservation is restored.
LEMMA ReserveCompleteReplays ==
    ASSUME NEW base, Restoring(base), NEW id \in Ids, NEW st, NEW r, NEW tx,
           Stands(st, base, id, r, tx, id, NoId, NoId),
           r.phase = "ReservePending"
    PROVE  Stands(ApplyEvent(st, Event("ReserveComplete", id)),
                  base, id, [r EXCEPT !.phase = "Reserved"], tx,
                  NoId, NoId, NoId)
  <1>1. PICK new : new = ApplyEvent(st, Event("ReserveComplete", id))
    OBVIOUS
  <1>2. new = ReserveComplete(Tick(st), id)
    BY <1>1 DEF ApplyEvent, Event
  <1>3. Tick(st) = st /\ st.reservations[id] = r /\ st.transactions[id] = tx /\ st.pending = id
    BY StandsAt
  <1>4. new = [st EXCEPT !.pending = NoId, !.reservations[id].phase = "Reserved"]
    BY <1>2, <1>3 DEF ReserveComplete, Guarded
  <1>5. Stands(new, base, id, [r EXCEPT !.phase = "Reserved"], tx,
               NoId, NoId, NoId)
    BY <1>3, <1>4 DEF Stands, Restoring, StateRecord, StateField
  <1> QED BY <1>1, <1>5

\* Its backup is restored: the intent ...
LEMMA PersistIntentReplays ==
    ASSUME NEW base, Restoring(base), NEW id \in Ids, NEW st, NEW r, NEW tx,
           Stands(st, base, id, r, tx, NoId, NoId, NoId),
           r.phase = "Reserved"
    PROVE  Stands(ApplyEvent(st, Event("PersistIntent", id)),
                  base, id, [r EXCEPT !.phase = "PersistPending"], tx,
                  id, NoId, NoId)
  <1>1. PICK new : new = ApplyEvent(st, Event("PersistIntent", id))
    OBVIOUS
  <1>2. new = PersistIntent(Tick(st), id)
    BY <1>1 DEF ApplyEvent, Event
  <1>3. Tick(st) = st /\ st.reservations[id] = r /\ st.transactions[id] = tx /\ st.pending = NoId
        /\ st.openTransaction = NoId /\ st.openRollback = NoId
    BY StandsAt
  <1>4. new = [st EXCEPT !.pending = id, !.reservations[id].phase = "PersistPending"]
    BY <1>2, <1>3 DEF PersistIntent, Guarded
  <1>5. Stands(new, base, id, [r EXCEPT !.phase = "PersistPending"], tx,
               id, NoId, NoId)
    BY <1>3, <1>4 DEF Stands, Restoring, StateRecord, StateField
  <1> QED BY <1>1, <1>5

\* ... and the completion, which begins the transaction.
LEMMA PersistCompleteReplays ==
    ASSUME NEW base, Restoring(base), NEW id \in Ids, NEW st, NEW r,
           Stands(st, base, id, r, NoTransaction, id, NoId, NoId),
           r.phase = "PersistPending"
    PROVE  Stands(ApplyEvent(st, Event("PersistComplete", id)),
                  base, id, [r EXCEPT !.phase = "Durable"],
                  [NoTransaction EXCEPT !.resolution = "None"], NoId, id, NoId)
  <1>1. PICK new : new = ApplyEvent(st, Event("PersistComplete", id))
    OBVIOUS
  <1>2. new = PersistComplete(Tick(st), id)
    BY <1>1 DEF ApplyEvent, Event
  <1>3. Tick(st) = st /\ st.reservations[id] = r /\ st.transactions[id] = NoTransaction
        /\ st.pending = id /\ st.openTransaction = NoId
    BY StandsAt
  <1>4. new = [st EXCEPT !.pending = NoId, !.reservations[id].phase = "Durable",
                          !.transactions[id] = [NoTransaction EXCEPT !.resolution = "None"],
                          !.openTransaction = id]
    BY <1>2, <1>3 DEF PersistComplete, WithTransaction, NoTransaction, Guarded
  <1>5. Stands(new, base, id, [r EXCEPT !.phase = "Durable"],
               [NoTransaction EXCEPT !.resolution = "None"], NoId, id, NoId)
    BY <1>3, <1>4 DEF Stands, Restoring, StateRecord, StateField
  <1> QED BY <1>1, <1>5

\* The write lease of a transaction.
LEMMA TransactionWriteLeaseConsumeReplays ==
    ASSUME NEW base, Restoring(base), NEW id \in Ids, NEW st, NEW r, NEW tx, NEW epoch,
           Stands(st, base, id, r, tx, NoId, id, NoId),
           r.phase = "Durable",
           tx.resolution = "None", tx.pending = "None", tx.lease # epoch
    PROVE  Stands(ApplyEvent(st,
                      [type |-> "TransactionWriteLeaseConsume", id |-> id, boot |-> epoch]),
                  base, id, r, [tx EXCEPT !.lease = epoch],
                  NoId, id, NoId)
  <1>1. PICK new : new = ApplyEvent(st,
                      [type |-> "TransactionWriteLeaseConsume", id |-> id, boot |-> epoch])
    OBVIOUS
  <1>2. new = TransactionWriteLeaseConsume(Tick(st), id, epoch)
    BY <1>1 DEF ApplyEvent, Event
  <1>3. Tick(st) = st /\ st.reservations[id] = r /\ st.transactions[id] = tx /\ st.pending = NoId
        /\ st.openTransaction = id
    BY StandsAt
  <1>4. new = [st EXCEPT !.transactions[id].lease = epoch]
    BY <1>2, <1>3 DEF TransactionWriteLeaseConsume, Guarded
  <1>5. Stands(new, base, id, r, [tx EXCEPT !.lease = epoch],
               NoId, id, NoId)
    BY <1>3, <1>4 DEF Stands, Restoring, StateRecord, StateField
  <1> QED BY <1>1, <1>5

\* The outcome of a transaction: the intent ...
LEMMA TransactionResolveIntentReplays ==
    ASSUME NEW base, Restoring(base), NEW id \in Ids, NEW st, NEW r, NEW tx, NEW outcome,
           Stands(st, base, id, r, tx, NoId, id, NoId),
           r.phase = "Durable",
           tx.resolution = "None", tx.pending = "None", outcome # "None"
    PROVE  Stands(ApplyEvent(st,
                      [type |-> "TransactionResolveIntent", id |-> id, expected |-> "Pending",
                        resolution |-> outcome]),
                  base, id, r, [tx EXCEPT !.pending = outcome],
                  id, id, NoId)
  <1>1. PICK new : new = ApplyEvent(st,
                      [type |-> "TransactionResolveIntent", id |-> id, expected |-> "Pending",
                        resolution |-> outcome])
    OBVIOUS
  <1>2. new = TransactionResolveIntent(Tick(st), id, "Pending", outcome)
    BY <1>1 DEF ApplyEvent, Event
  <1>3. Tick(st) = st /\ st.reservations[id] = r /\ st.transactions[id] = tx /\ st.pending = NoId
        /\ st.openTransaction = id
    BY StandsAt
  <1>4. new = [st EXCEPT !.transactions[id].pending = outcome, !.pending = id]
    BY <1>2, <1>3 DEF TransactionResolveIntent, TransactionPhase, WithTransaction, Guarded
  <1>5. Stands(new, base, id, r, [tx EXCEPT !.pending = outcome],
               id, id, NoId)
    BY <1>3, <1>4 DEF Stands, Restoring, StateRecord, StateField
  <1> QED BY <1>1, <1>5

\* ... and the completion: a final outcome closes the transaction.
LEMMA TransactionResolveCompleteReplays ==
    ASSUME NEW base, Restoring(base), NEW id \in Ids, NEW st, NEW r, NEW tx,
           Stands(st, base, id, r, tx, id, id, NoId),
           r.phase = "Durable",
           tx.pending # "None"
    PROVE  Stands(ApplyEvent(st, Event("TransactionResolveComplete", id)),
                  base, id, r, [tx EXCEPT !.pending = "None", !.resolution = tx.pending],
                  NoId, IF Resolved(tx.pending) THEN NoId ELSE id, NoId)
  <1>1. PICK new : new = ApplyEvent(st, Event("TransactionResolveComplete", id))
    OBVIOUS
  <1>2. new = TransactionResolveComplete(Tick(st), id)
    BY <1>1 DEF ApplyEvent, Event
  <1>3. Tick(st) = st /\ st.reservations[id] = r /\ st.transactions[id] = tx /\ st.pending = id
        /\ st.openTransaction = id
    BY StandsAt
  <1>4. new = [st EXCEPT !.pending = NoId,
                   !.transactions[id] = [@ EXCEPT !.pending = "None", !.resolution = tx.pending],
                   !.openTransaction = IF Resolved(tx.pending) THEN NoId ELSE @]
    BY <1>2, <1>3 DEF TransactionResolveComplete, Guarded
  <1>5. Stands(new, base, id, r, [tx EXCEPT !.pending = "None", !.resolution = tx.pending],
               NoId, IF Resolved(tx.pending) THEN NoId ELSE id, NoId)
    BY <1>3, <1>4 DEF Stands, Restoring, StateRecord, StateField
  <1> QED BY <1>1, <1>5

\* The rollback of a committed repair: its identifier is new among the restored.
LEMMA RollbackBeginReplays ==
    ASSUME NEW base, Restoring(base), NEW id \in Ids, NEW st, NEW r, NEW tx, NEW rollback,
           Stands(st, base, id, r, tx, NoId, NoId, NoId),
           r.phase = "Durable",
           tx.resolution = "CommittedAfter", tx.pending = "None", tx.rollback.id = NoId,
           rollback # NoId,
           \A k \in Ids : base.transactions[k].rollback.id # rollback
    PROVE  Stands(ApplyEvent(st,
                      [type |-> "RollbackBegin", id |-> id, rollback |-> rollback]),
                  base, id, r,
                  [tx EXCEPT !.rollback = [NoRollback EXCEPT !.id = rollback, !.resolution = "None"]],
                  NoId, NoId, id)
  <1>1. PICK new : new = ApplyEvent(st,
                      [type |-> "RollbackBegin", id |-> id, rollback |-> rollback])
    OBVIOUS
  <1>2. new = RollbackBegin(Tick(st), id, rollback)
    BY <1>1 DEF ApplyEvent, Event
  <1>3. Tick(st) = st /\ st.reservations[id] = r /\ st.transactions[id] = tx /\ st.pending = NoId
        /\ st.openTransaction = NoId /\ st.openRollback = NoId
        /\ \A k \in Ids : k # id => st.transactions[k] = base.transactions[k]
    BY StandsAt
  <1>4. new = [st EXCEPT !.transactions[id].rollback =
                            [NoRollback EXCEPT !.id = rollback, !.resolution = "None"],
                          !.openRollback = id]
    BY <1>2, <1>3 DEF RollbackBegin, Guarded
  <1>5. Stands(new, base, id, r,
                  [tx EXCEPT !.rollback = [NoRollback EXCEPT !.id = rollback, !.resolution = "None"]],
               NoId, NoId, id)
    BY <1>3, <1>4 DEF Stands, Restoring, StateRecord, StateField
  <1> QED BY <1>1, <1>5

\* Its write lease.
LEMMA RollbackWriteLeaseConsumeReplays ==
    ASSUME NEW base, Restoring(base), NEW id \in Ids, NEW st, NEW r, NEW tx,
           NEW rollback, NEW epoch,
           Stands(st, base, id, r, tx, NoId, NoId, id),
           tx.rollback.id = rollback,
           tx.rollback.resolution = "None", tx.rollback.pending = "None", tx.rollback.lease # epoch
    PROVE  Stands(ApplyEvent(st,
                      [type |-> "RollbackWriteLeaseConsume", id |-> id, rollback |-> rollback,
                        boot |-> epoch]),
                  base, id, r, [tx EXCEPT !.rollback.lease = epoch],
                  NoId, NoId, id)
  <1>1. PICK new : new = ApplyEvent(st,
                      [type |-> "RollbackWriteLeaseConsume", id |-> id, rollback |-> rollback,
                        boot |-> epoch])
    OBVIOUS
  <1>2. new = RollbackWriteLeaseConsume(Tick(st), id, rollback, epoch)
    BY <1>1 DEF ApplyEvent, Event
  <1>3. Tick(st) = st /\ st.reservations[id] = r /\ st.transactions[id] = tx /\ st.pending = NoId
        /\ st.openRollback = id
    BY StandsAt
  <1>4. new = [st EXCEPT !.transactions[id].rollback.lease = epoch]
    BY <1>2, <1>3 DEF RollbackWriteLeaseConsume, Guarded
  <1>5. Stands(new, base, id, r, [tx EXCEPT !.rollback.lease = epoch],
               NoId, NoId, id)
    BY <1>3, <1>4 DEF Stands, Restoring, StateRecord, StateField
  <1> QED BY <1>1, <1>5

\* Its outcome: the intent ...
LEMMA RollbackResolveIntentReplays ==
    ASSUME NEW base, Restoring(base), NEW id \in Ids, NEW st, NEW r, NEW tx,
           NEW rollback, NEW outcome,
           Stands(st, base, id, r, tx, NoId, NoId, id),
           tx.rollback.id = rollback,
           tx.rollback.resolution = "None", tx.rollback.pending = "None", outcome # "None"
    PROVE  Stands(ApplyEvent(st,
                      [type |-> "RollbackResolveIntent", id |-> id, rollback |-> rollback,
                        expected |-> "Pending", resolution |-> outcome]),
                  base, id, r, [tx EXCEPT !.rollback.pending = outcome],
                  id, NoId, id)
  <1>1. PICK new : new = ApplyEvent(st,
                      [type |-> "RollbackResolveIntent", id |-> id, rollback |-> rollback,
                        expected |-> "Pending", resolution |-> outcome])
    OBVIOUS
  <1>2. new = RollbackResolveIntent(Tick(st), id, rollback, "Pending", outcome)
    BY <1>1 DEF ApplyEvent, Event
  <1>3. Tick(st) = st /\ st.reservations[id] = r /\ st.transactions[id] = tx /\ st.pending = NoId
        /\ st.openRollback = id
    BY StandsAt
  <1>4. new = [st EXCEPT !.transactions[id].rollback.pending = outcome, !.pending = id]
    BY <1>2, <1>3 DEF RollbackResolveIntent, TransactionPhase, Guarded
  <1>5. Stands(new, base, id, r, [tx EXCEPT !.rollback.pending = outcome],
               id, NoId, id)
    BY <1>3, <1>4 DEF Stands, Restoring, StateRecord, StateField
  <1> QED BY <1>1, <1>5

\* ... and the completion: a final outcome closes the rollback.
LEMMA RollbackResolveCompleteReplays ==
    ASSUME NEW base, Restoring(base), NEW id \in Ids, NEW st, NEW r, NEW tx,
           NEW rollback, NEW child,
           Stands(st, base, id, r, tx, id, NoId, id),
           tx.rollback.id = rollback,
           tx.rollback.pending # "None",
           child = [tx.rollback EXCEPT !.pending = "None", !.resolution = tx.rollback.pending]
    PROVE  Stands(ApplyEvent(st,
                      [type |-> "RollbackResolveComplete", id |-> id, rollback |-> rollback]),
                  base, id, r, [tx EXCEPT !.rollback = child],
                  NoId, NoId, IF Resolved(tx.rollback.pending) THEN NoId ELSE id)
  <1>1. PICK new : new = ApplyEvent(st,
                      [type |-> "RollbackResolveComplete", id |-> id, rollback |-> rollback])
    OBVIOUS
  <1>2. new = RollbackResolveComplete(Tick(st), id, rollback)
    BY <1>1 DEF ApplyEvent, Event
  <1>3. Tick(st) = st /\ st.reservations[id] = r /\ st.transactions[id] = tx /\ st.pending = id
        /\ st.openRollback = id
    BY StandsAt
  <1>4. new = [st EXCEPT !.pending = NoId,
                   !.transactions[id].rollback =
                        [@ EXCEPT !.pending = "None", !.resolution = tx.rollback.pending],
                   !.openRollback = IF Resolved(tx.rollback.pending) THEN NoId ELSE @]
    BY <1>2, <1>3 DEF RollbackResolveComplete, Guarded
  <1>5. Stands(new, base, id, r, [tx EXCEPT !.rollback = child],
               NoId, NoId, IF Resolved(tx.rollback.pending) THEN NoId ELSE id)
    BY <1>3, <1>4 DEF Stands, Restoring, StateRecord, StateField
  <1> QED BY <1>1, <1>5

\* A reservation that was cancelled: the intent.
LEMMA CancelIntentReplays ==
    ASSUME NEW base, Restoring(base), NEW id \in Ids, NEW st, NEW r, NEW tx,
           Stands(st, base, id, r, tx, NoId, NoId, NoId),
           r.phase = "Reserved"
    PROVE  Stands(ApplyEvent(st, Event("CancelIntent", id)),
                  base, id, [r EXCEPT !.phase = "CancelPending"], tx,
                  id, NoId, NoId)
  <1>1. PICK new : new = ApplyEvent(st, Event("CancelIntent", id))
    OBVIOUS
  <1>2. new = CancelIntent(Tick(st), id)
    BY <1>1 DEF ApplyEvent, Event
  <1>3. Tick(st) = st /\ st.reservations[id] = r /\ st.transactions[id] = tx /\ st.pending = NoId
    BY StandsAt
  <1>4. new = [st EXCEPT !.pending = id, !.reservations[id].phase = "CancelPending"]
    BY <1>2, <1>3 DEF CancelIntent, Guarded
  <1>5. Stands(new, base, id, [r EXCEPT !.phase = "CancelPending"], tx,
               id, NoId, NoId)
    BY <1>3, <1>4 DEF Stands, Restoring, StateRecord, StateField
  <1> QED BY <1>1, <1>5

\* A repair that was retired: the intent takes its outcome over.
LEMMA RetireIntentReplays ==
    ASSUME NEW base, Restoring(base), NEW id \in Ids, NEW st, NEW r, NEW r2, NEW tx,
           Stands(st, base, id, r, tx, NoId, NoId, NoId),
           r.phase = "Durable",
           Resolved(tx.resolution), RollbackClosed(tx),
           r2 = [r EXCEPT !.phase = "RetirePending", !.resolution = tx.resolution]
    PROVE  Stands(ApplyEvent(st, Event("RetireIntent", id)),
                  base, id, r2, tx,
                  id, NoId, NoId)
  <1>1. PICK new : new = ApplyEvent(st, Event("RetireIntent", id))
    OBVIOUS
  <1>2. new = RetireIntent(Tick(st), id)
    BY <1>1 DEF ApplyEvent, Event
  <1>3. Tick(st) = st /\ st.reservations[id] = r /\ st.transactions[id] = tx /\ st.pending = NoId
        /\ st.openTransaction # id /\ st.openRollback # id
    BY StandsAt, IdAssumption DEF NoId
  <1>4. new = [st EXCEPT !.pending = id, !.reservations[id].phase = "RetirePending",
                          !.reservations[id].resolution = tx.resolution]
    BY <1>2, <1>3 DEF RetireIntent, Guarded
  <1>5. Stands(new, base, id, r2, tx,
               id, NoId, NoId)
    BY <1>3, <1>4 DEF Stands, Restoring, StateRecord, StateField
  <1> QED BY <1>1, <1>5

\* The first event of a snapshot needs room for one more reservation.
Free(base, id) ==
    /\ StateRecord(base) /\ base.verdict = "ok"
    /\ base.pending = NoId /\ base.openTransaction = NoId /\ base.openRollback = NoId
    /\ id \notin Active(base) /\ id \notin Released(base) /\ id \notin base.seen
    /\ base.transactions[id] = NoTransaction

\* A reservation as a snapshot restores it.
ReservationOf(record, phase, outcome) ==
    [phase |-> phase, draft |-> record.draft, parent |-> record.parent, resolution |-> outcome]

\* The intent to reserve: the only event of a snapshot that a full table rejects.
LEMMA ReserveIntentReplays ==
    ASSUME NEW base, Restoring(base), NEW id \in Ids, Free(base, id), NEW record,
           Cardinality(Active(base)) < MaxReservations
    PROVE  Stands(ApplyEvent(base, [type |-> "ReserveIntent", id |-> id,
                                    draft |-> record.draft, parent |-> record.parent]),
                  base, id, ReservationOf(record, "ReservePending", "Absent"), NoTransaction,
                  id, NoId, NoId)
  <1>1. PICK new, r : /\ new = ApplyEvent(base, [type |-> "ReserveIntent", id |-> id,
                                                 draft |-> record.draft,
                                                 parent |-> record.parent])
                      /\ r = ReservationOf(record, "ReservePending", "Absent")
    OBVIOUS
  <1>2. new = ReserveIntent(Tick(base), id, record.draft, record.parent)
    BY <1>1 DEF ApplyEvent
  <1>3. Tick(base) = base
    BY DEF Tick, Restoring
  <1>4. new = [base EXCEPT !.seen = @ \cup {id}, !.pending = id, !.reservations[id] = r]
    BY <1>1, <1>2, <1>3 DEF ReserveIntent, Guarded, Free, ReservationOf
  <1>5. Stands(new, base, id, r, NoTransaction, id, NoId, NoId)
    <2>1. [base.transactions EXCEPT ![id] = NoTransaction] = base.transactions
      BY DEF Restoring, Free
    <2> QED BY <1>4, <2>1 DEF Stands, Restoring, StateRecord, StateField, Free
  <1> QED BY <1>1, <1>5

\* Without room the replay fails.
LEMMA ReserveIntentRejected ==
    ASSUME NEW base, Restoring(base), NEW id \in Ids, Free(base, id), NEW record,
           ~(Cardinality(Active(base)) < MaxReservations)
    PROVE  ApplyEvent(base, [type |-> "ReserveIntent", id |-> id, draft |-> record.draft,
                             parent |-> record.parent])
             = [base EXCEPT !.verdict = "corrupt"]
  <1>1. Tick(base) = base
    BY DEF Tick, Restoring
  <1> QED BY <1>1 DEF ApplyEvent, ReserveIntent, Guarded

\* The state after the snapshot of a tombstone.
Buried(st, base, id, release) ==
    /\ StateRecord(st)
    /\ st.reservations = [base.reservations EXCEPT ![id] = NoReservation]
    /\ st.transactions = [base.transactions EXCEPT ![id] = NoTransaction]
    /\ st.released = [base.released EXCEPT ![id] = release]
    /\ st.seen = base.seen \cup {id}
    /\ st.pending = NoId /\ st.openTransaction = NoId /\ st.openRollback = NoId
    /\ st.clock = base.clock /\ st.generation = base.generation
    /\ st.restoring = base.restoring /\ st.verdict = "ok"

\* The release of a cancelled reservation keeps its date, which is in the window.
LEMMA CancelCompleteReplays ==
    ASSUME NEW base, Restoring(base), NEW id \in Ids, NEW st, NEW r, NEW at,
           Stands(st, base, id, r, NoTransaction, id, NoId, NoId), r.phase = "CancelPending",
           at <= base.clock, base.clock <= at + TombstoneTTL,
           id \notin Released(base), Cardinality(Released(base)) < MaxReleaseTombstones
    PROVE  Buried(ApplyEvent(st, [type |-> "CancelComplete", id |-> id, at |-> at]), base, id,
                  [operation |-> "Cancel", record |-> r, at |-> at])
  <1>1. PICK new, release : /\ new = ApplyEvent(st, [type |-> "CancelComplete", id |-> id,
                                                     at |-> at])
                            /\ release = [operation |-> "Cancel", record |-> r, at |-> at]
    OBVIOUS
  <1>2. new = CancelComplete(Tick(st), id, at)
    BY <1>1 DEF ApplyEvent
  <1>3. /\ Tick(st) = st /\ st.reservations[id] = r /\ st.pending = id /\ st.restoring # <<>>
    BY StandsAt
  <1>4. st.released = base.released /\ st.clock = base.clock /\ Released(st) = Released(base)
    BY DEF Stands, Released
  <1>5. new = [st EXCEPT !.pending = NoId, !.reservations[id] = NoReservation,
                         !.released[id] = release]
    BY <1>1, <1>2, <1>3, <1>4 DEF CancelComplete, Guarded, ReleaseTimeOk, ReleaseTime
  <1>6. Buried(new, base, id, release)
    BY <1>5 DEF Buried, Stands, Restoring, StateRecord, StateField
  <1> QED BY <1>1, <1>6

\* So does that of a retired repair.
LEMMA RetireCompleteReplays ==
    ASSUME NEW base, Restoring(base), NEW id \in Ids, NEW st, NEW r, NEW tx, NEW at,
           Stands(st, base, id, r, tx, id, NoId, NoId), r.phase = "RetirePending",
           Resolved(tx.resolution), RollbackClosed(tx),
           at <= base.clock, base.clock <= at + TombstoneTTL,
           id \notin Released(base), Cardinality(Released(base)) < MaxReleaseTombstones
    PROVE  Buried(ApplyEvent(st, [type |-> "RetireComplete", id |-> id, at |-> at]), base, id,
                  [operation |-> "Retire", record |-> r, at |-> at])
  <1>1. PICK new, release : /\ new = ApplyEvent(st, [type |-> "RetireComplete", id |-> id,
                                                     at |-> at])
                            /\ release = [operation |-> "Retire", record |-> r, at |-> at]
    OBVIOUS
  <1>2. new = RetireComplete(Tick(st), id, at)
    BY <1>1 DEF ApplyEvent
  <1>3. /\ Tick(st) = st /\ st.reservations[id] = r /\ st.pending = id /\ st.restoring # <<>>
        /\ st.transactions[id] = tx /\ st.openTransaction # id /\ st.openRollback # id
    BY StandsAt, IdAssumption DEF NoId
  <1>4. st.released = base.released /\ st.clock = base.clock /\ Released(st) = Released(base)
    BY DEF Stands, Released
  <1>5. new = [st EXCEPT !.pending = NoId, !.reservations[id] = NoReservation,
                         !.transactions[id] = NoTransaction, !.released[id] = release]
    BY <1>1, <1>2, <1>3, <1>4 DEF RetireComplete, Guarded, ReleaseTimeOk, ReleaseTime
  <1>6. Buried(new, base, id, release)
    BY <1>5 DEF Buried, Stands, Restoring, StateRecord, StateField
  <1> QED BY <1>1, <1>6

(***************************************************************************)
(* The snapshot of one reservation and of one tombstone.                   *)
(***************************************************************************)
\* The events of a snapshot.
SnapshotEvent ==
    [type : {"CompactionBegin"}, position : Nat, generation : Nat, clock : Nat,
     active : Nat, retained : Nat]
    \cup [type : {"CompactionComplete"}, generation : Nat]
    \cup [type : {"ReserveIntent"}, id : Ids, draft : Drafts \cup {0},
          parent : Parents \cup {0}]
    \cup [type : {"ReserveComplete", "PersistIntent", "PersistComplete",
                  "TransactionResolveComplete", "CancelIntent", "RetireIntent"}, id : Ids]
    \cup [type : {"TransactionWriteLeaseConsume"}, id : Ids, boot : Nat]
    \cup [type : {"TransactionResolveIntent"}, id : Ids, expected : {"Pending"},
          resolution : Outcome]
    \cup [type : {"RollbackBegin", "RollbackResolveComplete"}, id : Ids,
          rollback : RollbackIds]
    \cup [type : {"RollbackWriteLeaseConsume"}, id : Ids, rollback : RollbackIds, boot : Nat]
    \cup [type : {"RollbackResolveIntent"}, id : Ids, rollback : RollbackIds,
          expected : {"Pending"}, resolution : RollbackOutcome]
    \cup [type : {"CancelComplete", "RetireComplete"}, id : Ids, at : Nat]

\* A sequence of at most n of them.
Snapshot(s, n) == s \in Seq(SnapshotEvent) /\ Len(s) <= n

\* Snapshots one after the other.
LEMMA SnapshotConcat ==
    ASSUME NEW s, NEW t, NEW m \in Nat, NEW n \in Nat, NEW k \in Nat, m + n <= k,
           Snapshot(s, m), Snapshot(t, n)
    PROVE  Snapshot(s \o t, k)
  BY DEF Snapshot

\* They are replayed one after the other.
LEMMA SnapshotsReplay ==
    ASSUME NEW s, NEW t, NEW m, NEW n, Snapshot(s, m), Snapshot(t, n), NEW st
    PROVE  ReplayFrom(st, s \o t) = ReplayFrom(ReplayFrom(st, s), t)
  BY ReplayConcat DEF Snapshot

\* The two events of most snapshots.
LEMMA ReplayTwo ==
    ASSUME NEW st, NEW a, NEW b
    PROVE  ReplayFrom(st, <<a, b>>) = ApplyEvent(ApplyEvent(st, a), b)
  <1>1. PICK f : IsTrace(f, st, <<a, b>>, 2) /\ ReplayFrom(st, <<a, b>>) = f[2]
    <2>1. Len(<<a, b>>) = 2
      OBVIOUS
    <2> QED BY <2>1, ReplayTrace
  <1>2. f[0] = st /\ f[1] = ApplyEvent(f[0], a) /\ f[2] = ApplyEvent(f[1], b)
    BY <1>1 DEF IsTrace
  <1> QED BY <1>1, <1>2

\* A transaction and a rollback by their fields.
Tx(outcome, intent, lease, child) ==
    [resolution |-> outcome, pending |-> intent, lease |-> lease, rollback |-> child]
Child(id, outcome, intent, lease) ==
    [id |-> id, resolution |-> outcome, pending |-> intent, lease |-> lease]

\* Records by their fields.
LEMMA RecordsByFields ==
    /\ NoTransaction = Tx("Absent", "None", 0, NoRollback)
    /\ [NoTransaction EXCEPT !.resolution = "None"] = Tx("None", "None", 0, NoRollback)
    /\ \A rollback : [NoRollback EXCEPT !.id = rollback, !.resolution = "None"]
                       = Child(rollback, "None", "None", 0)
    /\ \A tx \in TransactionRecord : tx = Tx(tx.resolution, tx.pending, tx.lease, tx.rollback)
    /\ \A rb \in RollbackRecord : rb = Child(rb.id, rb.resolution, rb.pending, rb.lease)
  <1>1. NoTransaction = Tx("Absent", "None", 0, NoRollback)
    BY DEF NoTransaction, Tx
  <1>2. [NoTransaction EXCEPT !.resolution = "None"] = Tx("None", "None", 0, NoRollback)
    BY <1>1 DEF Tx
  <1>3. ASSUME NEW rollback
        PROVE  [NoRollback EXCEPT !.id = rollback, !.resolution = "None"]
                 = Child(rollback, "None", "None", 0)
    <2>1. [NoRollback EXCEPT !.id = rollback] = Child(rollback, "Absent", "None", 0)
      BY DEF NoRollback, Child
    <2>2. [Child(rollback, "Absent", "None", 0) EXCEPT !.resolution = "None"]
            = Child(rollback, "None", "None", 0)
      BY DEF Child
    <2> QED BY <2>1, <2>2
  <1>4. \A tx \in TransactionRecord : tx = Tx(tx.resolution, tx.pending, tx.lease, tx.rollback)
    BY DEF TransactionRecord, Tx
  <1>5. \A rb \in RollbackRecord : rb = Child(rb.id, rb.resolution, rb.pending, rb.lease)
    BY DEF RollbackRecord, Child
  <1> QED BY <1>1, <1>2, <1>3, <1>4, <1>5

\* append_reserve_snapshot.
LEMMA ReserveReplays ==
    ASSUME NEW base, Restoring(base), NEW id \in Ids, Free(base, id),
           Cardinality(Active(base)) < MaxReservations, NEW record \in ReservationRecord
    PROVE  /\ Snapshot(ReserveSnapshot(id, record), 2)
           /\ Stands(ReplayFrom(base, ReserveSnapshot(id, record)), base, id,
                     ReservationOf(record, "Reserved", "Absent"), NoTransaction,
                     NoId, NoId, NoId)
  <1> DEFINE intent == [type |-> "ReserveIntent", id |-> id, draft |-> record.draft,
                        parent |-> record.parent]
             completion == Event("ReserveComplete", id)
  <1>1. Snapshot(ReserveSnapshot(id, record), 2)
    <2>1. intent \in SnapshotEvent /\ completion \in SnapshotEvent
      BY DEF SnapshotEvent, Event, ReservationRecord
    <2> HIDE DEF intent, completion
    <2>2. Snapshot(<<intent, completion>>, 2)
      BY <2>1 DEF Snapshot
    <2> QED BY <2>2 DEF ReserveSnapshot, intent, completion
  <1>2. PICK r : r = ReservationOf(record, "ReservePending", "Absent")
    OBVIOUS
  <1>3. PICK st : st = ApplyEvent(base, intent)
    OBVIOUS
  <1>4. Stands(st, base, id, r, NoTransaction, id, NoId, NoId)
    BY <1>2, <1>3, ReserveIntentReplays
  <1>5. r.phase = "ReservePending"
        /\ [r EXCEPT !.phase = "Reserved"] = ReservationOf(record, "Reserved", "Absent")
    BY <1>2 DEF ReservationOf
  <1>6. Stands(ApplyEvent(st, completion), base, id, [r EXCEPT !.phase = "Reserved"],
               NoTransaction, NoId, NoId, NoId)
    BY <1>4, <1>5, ReserveCompleteReplays
  <1>7. ReplayFrom(base, ReserveSnapshot(id, record)) = ApplyEvent(st, completion)
    BY <1>3, ReplayTwo DEF ReserveSnapshot
  <1> QED BY <1>1, <1>5, <1>6, <1>7

\* append_persist_snapshot.
LEMMA PersistReplays ==
    ASSUME NEW base, Restoring(base), NEW id \in Ids, NEW st, NEW record,
           Stands(st, base, id, ReservationOf(record, "Reserved", "Absent"), NoTransaction,
                  NoId, NoId, NoId)
    PROVE  /\ Snapshot(PersistSnapshot(id), 2)
           /\ Stands(ReplayFrom(st, PersistSnapshot(id)), base, id,
                     ReservationOf(record, "Durable", "Absent"),
                     Tx("None", "None", 0, NoRollback), NoId, id, NoId)
  <1> DEFINE intent == Event("PersistIntent", id)
             completion == Event("PersistComplete", id)
  <1>1. Snapshot(PersistSnapshot(id), 2)
    <2>1. intent \in SnapshotEvent /\ completion \in SnapshotEvent
      BY DEF SnapshotEvent, Event
    <2> HIDE DEF intent, completion
    <2>2. Snapshot(<<intent, completion>>, 2)
      BY <2>1 DEF Snapshot
    <2> QED BY <2>2 DEF PersistSnapshot, intent, completion
  <1>2. PICK r, r2 : /\ r = ReservationOf(record, "Reserved", "Absent")
                     /\ r2 = ReservationOf(record, "PersistPending", "Absent")
    OBVIOUS
  <1>3. /\ r.phase = "Reserved" /\ [r EXCEPT !.phase = "PersistPending"] = r2
        /\ r2.phase = "PersistPending"
        /\ [r2 EXCEPT !.phase = "Durable"] = ReservationOf(record, "Durable", "Absent")
    BY <1>2 DEF ReservationOf
  <1>4. PICK mid : mid = ApplyEvent(st, intent)
    OBVIOUS
  <1>5. Stands(mid, base, id, r2, NoTransaction, id, NoId, NoId)
    BY <1>2, <1>3, <1>4, PersistIntentReplays
  <1>6. Stands(ApplyEvent(mid, completion), base, id, [r2 EXCEPT !.phase = "Durable"],
               [NoTransaction EXCEPT !.resolution = "None"], NoId, id, NoId)
    BY <1>3, <1>5, PersistCompleteReplays
  <1>7. ReplayFrom(st, PersistSnapshot(id)) = ApplyEvent(mid, completion)
    BY <1>4, ReplayTwo DEF PersistSnapshot
  <1> QED BY <1>1, <1>3, <1>6, <1>7, RecordsByFields

\* Optional events.
LEMMA WhenSnapshot ==
    ASSUME NEW condition \in BOOLEAN, NEW s, NEW n \in Nat, condition => Snapshot(s, n)
    PROVE  /\ Snapshot(When(condition, s), n)
           /\ condition => When(condition, s) = s
           /\ ~condition => \A st : ReplayFrom(st, When(condition, s)) = st
  BY ReplayNothing DEF When, Snapshot

\* Two parts of a snapshot, replayed one after the other.
LEMMA SnapshotPair ==
    ASSUME NEW s, NEW t, NEW m \in Nat, NEW n \in Nat, NEW k \in Nat, m + n <= k,
           Snapshot(s, m), Snapshot(t, n), NEW a, NEW b, NEW c,
           b = ReplayFrom(a, s), c = ReplayFrom(b, t)
    PROVE  Snapshot(s \o t, k) /\ ReplayFrom(a, s \o t) = c
  BY SnapshotConcat, SnapshotsReplay

\* The parts of append_rollback_snapshot: the beginning of a rollback ...
LEMMA RollbackBegins ==
    ASSUME NEW base, Restoring(base), NEW id \in Ids, NEW st, NEW r, NEW lease,
           NEW rollback \in RollbackIds, r.phase = "Durable",
           \A k \in Ids : base.transactions[k].rollback.id # rollback,
           Stands(st, base, id, r, Tx("CommittedAfter", "None", lease, NoRollback),
                  NoId, NoId, NoId),
           NEW part, part = << [type |-> "RollbackBegin", id |-> id, rollback |-> rollback] >>
    PROVE  /\ Snapshot(part, 1)
           /\ Stands(ReplayFrom(st, part), base, id, r,
                     Tx("CommittedAfter", "None", lease, Child(rollback, "None", "None", 0)),
                     NoId, NoId, id)
  <1>1. PICK e : e = [type |-> "RollbackBegin", id |-> id, rollback |-> rollback]
    OBVIOUS
  <1>2. e \in SnapshotEvent
    BY <1>1 DEF SnapshotEvent
  <1>3. Snapshot(part, 1) /\ ReplayFrom(st, part) = ApplyEvent(st, e)
    BY <1>1, <1>2, ReplayOne DEF Snapshot
  <1>4. PICK tx, child : /\ tx = Tx("CommittedAfter", "None", lease, NoRollback)
                         /\ child = [NoRollback EXCEPT !.id = rollback, !.resolution = "None"]
    OBVIOUS
  <1>5. child = Child(rollback, "None", "None", 0)
    BY <1>4, RecordsByFields
  <1>6. tx.resolution = "CommittedAfter" /\ tx.pending = "None" /\ tx.rollback = NoRollback
        /\ [tx EXCEPT !.rollback = child] = Tx("CommittedAfter", "None", lease, child)
    BY <1>4 DEF Tx
  <1>7. tx.rollback.id = NoId /\ rollback # NoId
    BY <1>6, IdAssumption DEF NoRollback, NoId
  <1>8. Stands(ApplyEvent(st, e), base, id, r, [tx EXCEPT !.rollback = child], NoId, NoId, id)
    BY <1>1, <1>4, <1>6, <1>7, RollbackBeginReplays
  <1> QED BY <1>3, <1>5, <1>6, <1>8

\* ... its lease ...
LEMMA RollbackLeases ==
    ASSUME NEW base, Restoring(base), NEW id \in Ids, NEW st, NEW r, NEW lease,
           NEW rollback \in RollbackIds, NEW epoch \in Nat,
           Stands(st, base, id, r,
                  Tx("CommittedAfter", "None", lease, Child(rollback, "None", "None", 0)),
                  NoId, NoId, id),
           NEW part, part = When(epoch # 0, << [type |-> "RollbackWriteLeaseConsume",
                                                id |-> id, rollback |-> rollback,
                                                boot |-> epoch] >>)
    PROVE  /\ Snapshot(part, 1)
           /\ Stands(ReplayFrom(st, part), base, id, r,
                     Tx("CommittedAfter", "None", lease, Child(rollback, "None", "None", epoch)),
                     NoId, NoId, id)
  <1>1. PICK e : e = [type |-> "RollbackWriteLeaseConsume", id |-> id, rollback |-> rollback,
                      boot |-> epoch]
    OBVIOUS
  <1>2. e \in SnapshotEvent
    BY <1>1 DEF SnapshotEvent
  <1>3. Snapshot(<<e>>, 1)
    BY <1>2 DEF Snapshot
  <1>4. part = When(epoch # 0, <<e>>)
    BY <1>1
  <1>5. Snapshot(part, 1)
    BY <1>3, <1>4, WhenSnapshot
  <1>6. CASE epoch = 0
    <2>1. ReplayFrom(st, part) = st
      BY <1>4, <1>6, ReplayNothing DEF When
    <2> QED BY <1>5, <1>6, <2>1
  <1>7. CASE epoch # 0
    <2>1. ReplayFrom(st, part) = ApplyEvent(st, e)
      BY <1>4, <1>7, ReplayOne DEF When
    <2>2. PICK child, tx : /\ child = Child(rollback, "None", "None", 0)
                           /\ tx = Tx("CommittedAfter", "None", lease, child)
      OBVIOUS
    <2>3. /\ child.id = rollback /\ child.resolution = "None" /\ child.pending = "None"
          /\ child.lease = 0
          /\ [child EXCEPT !.lease = epoch] = Child(rollback, "None", "None", epoch)
      BY <2>2 DEF Child
    <2>4. /\ tx.rollback = child
          /\ [tx EXCEPT !.rollback.lease = epoch]
               = Tx("CommittedAfter", "None", lease, [child EXCEPT !.lease = epoch])
      BY <2>2 DEF Tx
    <2>5. Stands(ApplyEvent(st, e), base, id, r, [tx EXCEPT !.rollback.lease = epoch],
                 NoId, NoId, id)
      BY <1>1, <1>7, <2>2, <2>3, <2>4, RollbackWriteLeaseConsumeReplays
    <2> QED BY <1>5, <2>1, <2>3, <2>4, <2>5
  <1> QED BY <1>6, <1>7

\* ... and its outcome.
LEMMA RollbackResolves ==
    ASSUME NEW base, Restoring(base), NEW id \in Ids, NEW st, NEW r, NEW lease,
           NEW rollback \in RollbackIds, NEW epoch \in Nat,
           NEW outcome \in RollbackOutcome \cup {"None"},
           Stands(st, base, id, r,
                  Tx("CommittedAfter", "None", lease, Child(rollback, "None", "None", epoch)),
                  NoId, NoId, id),
           NEW part, part = When(outcome # "None",
                                 << [type |-> "RollbackResolveIntent", id |-> id,
                                     rollback |-> rollback, expected |-> "Pending",
                                     resolution |-> outcome],
                                    [type |-> "RollbackResolveComplete", id |-> id,
                                     rollback |-> rollback] >>)
    PROVE  /\ Snapshot(part, 2)
           /\ Stands(ReplayFrom(st, part), base, id, r,
                     Tx("CommittedAfter", "None", lease, Child(rollback, outcome, "None", epoch)),
                     NoId, NoId, IF Resolved(outcome) THEN NoId ELSE id)
  <1>1. PICK e, f : /\ e = [type |-> "RollbackResolveIntent", id |-> id, rollback |-> rollback,
                            expected |-> "Pending", resolution |-> outcome]
                    /\ f = [type |-> "RollbackResolveComplete", id |-> id, rollback |-> rollback]
    OBVIOUS
  <1>2. f \in SnapshotEvent /\ (outcome # "None" => e \in SnapshotEvent)
    BY <1>1 DEF SnapshotEvent
  <1>3. outcome # "None" => Snapshot(<<e, f>>, 2)
    BY <1>2 DEF Snapshot
  <1>4. part = When(outcome # "None", <<e, f>>)
    BY <1>1
  <1>5. Snapshot(part, 2)
    BY <1>3, <1>4, WhenSnapshot
  <1>6. CASE outcome = "None"
    <2>1. ReplayFrom(st, part) = st
      BY <1>4, <1>6, ReplayNothing DEF When
    <2> QED BY <1>5, <1>6, <2>1 DEF Resolved
  <1>7. CASE outcome # "None"
    <2>1. ReplayFrom(st, part) = ApplyEvent(ApplyEvent(st, e), f)
      BY <1>4, <1>7, ReplayTwo DEF When
    <2>2. PICK child, tx, child2, tx2, child3 :
             /\ child = Child(rollback, "None", "None", epoch)
             /\ tx = Tx("CommittedAfter", "None", lease, child)
             /\ child2 = Child(rollback, "None", outcome, epoch)
             /\ tx2 = Tx("CommittedAfter", "None", lease, child2)
             /\ child3 = Child(rollback, outcome, "None", epoch)
      OBVIOUS
    <2>3. /\ child.id = rollback /\ child.resolution = "None" /\ child.pending = "None"
          /\ [child EXCEPT !.pending = outcome] = child2
          /\ child2.id = rollback /\ child2.pending = outcome
      BY <2>2 DEF Child
    <2>4. [child2 EXCEPT !.pending = "None", !.resolution = outcome] = child3
      <3>1. [child2 EXCEPT !.pending = "None"] = Child(rollback, "None", "None", epoch)
        BY <2>2 DEF Child
      <3>2. [Child(rollback, "None", "None", epoch) EXCEPT !.resolution = outcome] = child3
        BY <2>2 DEF Child
      <3> QED BY <3>1, <3>2
    <2>5. /\ tx.rollback = child /\ tx2.rollback = child2
          /\ [tx EXCEPT !.rollback.pending = outcome] = tx2
      BY <2>2, <2>3 DEF Tx
    <2>6. [tx2 EXCEPT !.rollback = child3] = Tx("CommittedAfter", "None", lease, child3)
      BY <2>2 DEF Tx
    <2>7. PICK mid : mid = ApplyEvent(st, e)
      OBVIOUS
    <2>8. Stands(mid, base, id, r, tx2, id, NoId, id)
      BY <1>1, <1>7, <2>2, <2>3, <2>5, <2>7, RollbackResolveIntentReplays
    <2>9. Stands(ApplyEvent(mid, f), base, id, r, [tx2 EXCEPT !.rollback = child3],
                 NoId, NoId, IF Resolved(tx2.rollback.pending) THEN NoId ELSE id)
      BY <1>1, <1>7, <2>3, <2>4, <2>5, <2>8, RollbackResolveCompleteReplays
    <2>10. Stands(ApplyEvent(mid, f), base, id, r, Tx("CommittedAfter", "None", lease, child3),
                  NoId, NoId, IF Resolved(outcome) THEN NoId ELSE id)
      BY <2>3, <2>5, <2>6, <2>9
    <2> QED BY <1>5, <2>1, <2>2, <2>7, <2>10
  <1> QED BY <1>6, <1>7

\* The rollback of a snapshot is complete.
ChildOk(rb) ==
    /\ rb \in RollbackRecord /\ rb.id # NoId
    /\ rb.resolution # "Absent" /\ rb.pending = "None"

\* append_rollback_snapshot.
LEMMA RollbackReplays ==
    ASSUME NEW base, Restoring(base), NEW id \in Ids, NEW st, NEW r, NEW lease, NEW rb,
           r.phase = "Durable", ChildOk(rb),
           \A k \in Ids : base.transactions[k].rollback.id # rb.id,
           Stands(st, base, id, r, Tx("CommittedAfter", "None", lease, NoRollback),
                  NoId, NoId, NoId)
    PROVE  /\ Snapshot(RollbackSnapshot(id, rb), 4)
           /\ Stands(ReplayFrom(st, RollbackSnapshot(id, rb)), base, id, r,
                     Tx("CommittedAfter", "None", lease, rb), NoId, NoId,
                     IF Resolved(rb.resolution) THEN NoId ELSE id)
  <1>1. PICK begin, leased, resolved :
           /\ begin = << [type |-> "RollbackBegin", id |-> id, rollback |-> rb.id] >>
           /\ leased = When(rb.lease # 0, << [type |-> "RollbackWriteLeaseConsume", id |-> id,
                                              rollback |-> rb.id, boot |-> rb.lease] >>)
           /\ resolved = When(rb.resolution # "None",
                              << [type |-> "RollbackResolveIntent", id |-> id,
                                  rollback |-> rb.id, expected |-> "Pending",
                                  resolution |-> rb.resolution],
                                 [type |-> "RollbackResolveComplete", id |-> id,
                                  rollback |-> rb.id] >>)
    OBVIOUS
  <1>2. RollbackSnapshot(id, rb) = (begin \o leased) \o resolved
    BY <1>1 DEF RollbackSnapshot
  <1>3. PICK a, b, c : /\ a = ReplayFrom(st, begin) /\ b = ReplayFrom(a, leased)
                       /\ c = ReplayFrom(b, resolved)
    OBVIOUS
  <1>4. PICK x, outcome, epoch : x = rb.id /\ outcome = rb.resolution /\ epoch = rb.lease
    OBVIOUS
  <1>5. /\ x \in RollbackIds /\ outcome \in RollbackOutcome \cup {"None"} /\ epoch \in Nat
        /\ rb = Child(x, outcome, "None", epoch)
    BY <1>4, RecordsByFields DEF ChildOk, RollbackRecord
  <1>6. /\ Snapshot(begin, 1)
        /\ Stands(a, base, id, r, Tx("CommittedAfter", "None", lease, Child(x, "None", "None", 0)),
                  NoId, NoId, id)
    BY <1>1, <1>3, <1>4, <1>5, RollbackBegins
  <1>7. /\ Snapshot(leased, 1)
        /\ Stands(b, base, id, r,
                  Tx("CommittedAfter", "None", lease, Child(x, "None", "None", epoch)),
                  NoId, NoId, id)
    BY <1>1, <1>3, <1>4, <1>5, <1>6, RollbackLeases
  <1>8. /\ Snapshot(resolved, 2)
        /\ Stands(c, base, id, r,
                  Tx("CommittedAfter", "None", lease, Child(x, outcome, "None", epoch)),
                  NoId, NoId, IF Resolved(outcome) THEN NoId ELSE id)
    BY <1>1, <1>3, <1>4, <1>5, <1>7, RollbackResolves
  <1>9. Snapshot(begin \o leased, 2) /\ ReplayFrom(st, begin \o leased) = b
    BY <1>3, <1>6, <1>7, SnapshotPair
  <1>10. PICK first : first = begin \o leased
    OBVIOUS
  <1>11. Snapshot(first \o resolved, 4) /\ ReplayFrom(st, first \o resolved) = c
    BY <1>3, <1>8, <1>9, <1>10, SnapshotPair
  <1> QED BY <1>2, <1>4, <1>5, <1>8, <1>10, <1>11

\* The parts of append_transaction_snapshot: the lease of a transaction ...
LEMMA TransactionLeases ==
    ASSUME NEW base, Restoring(base), NEW id \in Ids, NEW st, NEW r, NEW epoch \in Nat,
           r.phase = "Durable",
           Stands(st, base, id, r, Tx("None", "None", 0, NoRollback), NoId, id, NoId),
           NEW part, part = When(epoch # 0, << [type |-> "TransactionWriteLeaseConsume",
                                                id |-> id, boot |-> epoch] >>)
    PROVE  /\ Snapshot(part, 1)
           /\ Stands(ReplayFrom(st, part), base, id, r, Tx("None", "None", epoch, NoRollback),
                     NoId, id, NoId)
  <1>1. PICK e : e = [type |-> "TransactionWriteLeaseConsume", id |-> id, boot |-> epoch]
    OBVIOUS
  <1>2. e \in SnapshotEvent
    BY <1>1 DEF SnapshotEvent
  <1>3. Snapshot(<<e>>, 1)
    BY <1>2 DEF Snapshot
  <1>4. part = When(epoch # 0, <<e>>)
    BY <1>1
  <1>5. Snapshot(part, 1)
    BY <1>3, <1>4, WhenSnapshot
  <1>6. CASE epoch = 0
    <2>1. ReplayFrom(st, part) = st
      BY <1>4, <1>6, ReplayNothing DEF When
    <2> QED BY <1>5, <1>6, <2>1
  <1>7. CASE epoch # 0
    <2>1. ReplayFrom(st, part) = ApplyEvent(st, e)
      BY <1>4, <1>7, ReplayOne DEF When
    <2>2. PICK tx : tx = Tx("None", "None", 0, NoRollback)
      OBVIOUS
    <2>3. /\ tx.resolution = "None" /\ tx.pending = "None" /\ tx.lease = 0
          /\ [tx EXCEPT !.lease = epoch] = Tx("None", "None", epoch, NoRollback)
      BY <2>2 DEF Tx
    <2>4. Stands(ApplyEvent(st, e), base, id, r, [tx EXCEPT !.lease = epoch], NoId, id, NoId)
      BY <1>1, <1>7, <2>2, <2>3, TransactionWriteLeaseConsumeReplays
    <2> QED BY <1>5, <2>1, <2>3, <2>4
  <1> QED BY <1>6, <1>7

\* ... and its outcome.
LEMMA TransactionResolves ==
    ASSUME NEW base, Restoring(base), NEW id \in Ids, NEW st, NEW r, NEW epoch \in Nat,
           NEW outcome \in Outcome \cup {"None"}, r.phase = "Durable",
           Stands(st, base, id, r, Tx("None", "None", epoch, NoRollback), NoId, id, NoId),
           NEW part, part = When(outcome # "None",
                                 << [type |-> "TransactionResolveIntent", id |-> id,
                                     expected |-> "Pending", resolution |-> outcome],
                                    Event("TransactionResolveComplete", id) >>)
    PROVE  /\ Snapshot(part, 2)
           /\ Stands(ReplayFrom(st, part), base, id, r, Tx(outcome, "None", epoch, NoRollback),
                     NoId, IF Resolved(outcome) THEN NoId ELSE id, NoId)
  <1>1. PICK e, f : /\ e = [type |-> "TransactionResolveIntent", id |-> id,
                            expected |-> "Pending", resolution |-> outcome]
                    /\ f = Event("TransactionResolveComplete", id)
    OBVIOUS
  <1>2. f \in SnapshotEvent /\ (outcome # "None" => e \in SnapshotEvent)
    BY <1>1 DEF SnapshotEvent, Event
  <1>3. outcome # "None" => Snapshot(<<e, f>>, 2)
    BY <1>2 DEF Snapshot
  <1>4. part = When(outcome # "None", <<e, f>>)
    BY <1>1
  <1>5. Snapshot(part, 2)
    BY <1>3, <1>4, WhenSnapshot
  <1>6. CASE outcome = "None"
    <2>1. ReplayFrom(st, part) = st
      BY <1>4, <1>6, ReplayNothing DEF When
    <2> QED BY <1>5, <1>6, <2>1 DEF Resolved
  <1>7. CASE outcome # "None"
    <2>1. ReplayFrom(st, part) = ApplyEvent(ApplyEvent(st, e), f)
      BY <1>4, <1>7, ReplayTwo DEF When
    <2>2. PICK tx, tx2, tx3 : /\ tx = Tx("None", "None", epoch, NoRollback)
                              /\ tx2 = Tx("None", outcome, epoch, NoRollback)
                              /\ tx3 = Tx(outcome, "None", epoch, NoRollback)
      OBVIOUS
    <2>3. /\ tx.resolution = "None" /\ tx.pending = "None"
          /\ [tx EXCEPT !.pending = outcome] = tx2 /\ tx2.pending = outcome
      BY <2>2 DEF Tx
    <2>4. [tx2 EXCEPT !.pending = "None", !.resolution = tx2.pending] = tx3
      <3>1. [tx2 EXCEPT !.pending = "None"] = Tx("None", "None", epoch, NoRollback)
        BY <2>2 DEF Tx
      <3>2. [Tx("None", "None", epoch, NoRollback) EXCEPT !.resolution = outcome] = tx3
        BY <2>2 DEF Tx
      <3> QED BY <2>3, <3>1, <3>2
    <2>5. PICK mid : mid = ApplyEvent(st, e)
      OBVIOUS
    <2>6. Stands(mid, base, id, r, tx2, id, id, NoId)
      BY <1>1, <1>7, <2>2, <2>3, <2>5, TransactionResolveIntentReplays
    <2>7. Stands(ApplyEvent(mid, f), base, id, r,
                 [tx2 EXCEPT !.pending = "None", !.resolution = tx2.pending],
                 NoId, IF Resolved(tx2.pending) THEN NoId ELSE id, NoId)
      BY <1>1, <1>7, <2>3, <2>6, TransactionResolveCompleteReplays
    <2> QED BY <1>5, <2>1, <2>2, <2>3, <2>4, <2>5, <2>7
  <1> QED BY <1>6, <1>7

\* The transaction of a snapshot is complete, and its rollback is of a committed
\* repair and has an identifier of its own.
TransactionOk(base, tx) ==
    /\ tx \in TransactionRecord /\ tx.resolution # "Absent" /\ tx.pending = "None"
    /\ tx.rollback.id = NoId => tx.rollback = NoRollback
    /\ tx.rollback.id # NoId =>
          /\ tx.resolution = "CommittedAfter" /\ ChildOk(tx.rollback)
          /\ \A k \in Ids : base.transactions[k].rollback.id # tx.rollback.id

\* append_transaction_snapshot.
LEMMA TransactionReplays ==
    ASSUME NEW base, Restoring(base), NEW id \in Ids, NEW st, NEW r, NEW tx,
           r.phase = "Durable", TransactionOk(base, tx),
           Stands(st, base, id, r, Tx("None", "None", 0, NoRollback), NoId, id, NoId)
    PROVE  /\ Snapshot(TransactionSnapshot(id, tx), 7)
           /\ tx.rollback.id = NoId /\ tx.lease = 0 => Snapshot(TransactionSnapshot(id, tx), 2)
           /\ Stands(ReplayFrom(st, TransactionSnapshot(id, tx)), base, id, r, tx, NoId,
                     IF Resolved(tx.resolution) THEN NoId ELSE id,
                     IF tx.rollback.id # NoId /\ ~Resolved(tx.rollback.resolution)
                     THEN id ELSE NoId)
  <1>1. PICK leased, resolved, rolled :
           /\ leased = When(tx.lease # 0, << [type |-> "TransactionWriteLeaseConsume",
                                              id |-> id, boot |-> tx.lease] >>)
           /\ resolved = When(tx.resolution # "None",
                              << [type |-> "TransactionResolveIntent", id |-> id,
                                  expected |-> "Pending", resolution |-> tx.resolution],
                                 Event("TransactionResolveComplete", id) >>)
           /\ rolled = When(tx.rollback.id # NoId, RollbackSnapshot(id, tx.rollback))
    OBVIOUS
  <1>2. TransactionSnapshot(id, tx) = (leased \o resolved) \o rolled
    BY <1>1 DEF TransactionSnapshot
  <1>3. PICK a, b, c : /\ a = ReplayFrom(st, leased) /\ b = ReplayFrom(a, resolved)
                       /\ c = ReplayFrom(b, rolled)
    OBVIOUS
  <1>4. PICK outcome, epoch, rb : outcome = tx.resolution /\ epoch = tx.lease /\ rb = tx.rollback
    OBVIOUS
  <1>5. /\ outcome \in Outcome \cup {"None"} /\ epoch \in Nat
        /\ tx = Tx(outcome, "None", epoch, rb)
    BY <1>4, RecordsByFields DEF TransactionOk, TransactionRecord
  <1>6. /\ Snapshot(leased, 1)
        /\ Stands(a, base, id, r, Tx("None", "None", epoch, NoRollback), NoId, id, NoId)
    BY <1>1, <1>3, <1>4, <1>5, TransactionLeases
  <1>7. /\ Snapshot(resolved, 2)
        /\ Stands(b, base, id, r, Tx(outcome, "None", epoch, NoRollback), NoId,
                  IF Resolved(outcome) THEN NoId ELSE id, NoId)
    BY <1>1, <1>3, <1>4, <1>5, <1>6, TransactionResolves
  <1>8. PICK first : first = leased \o resolved
    OBVIOUS
  <1>9. Snapshot(first, 3) /\ ReplayFrom(st, first) = b
    BY <1>3, <1>6, <1>7, <1>8, SnapshotPair
  <1>10. CASE rb.id = NoId
    <2>1. rolled = <<>> /\ rb = NoRollback
      BY <1>1, <1>4, <1>10 DEF When, TransactionOk
    <2>2. Snapshot(rolled, 0)
      BY <2>1 DEF Snapshot
    <2>3. Snapshot(first \o rolled, 3) /\ ReplayFrom(st, first \o rolled) = c
      BY <1>3, <1>9, <2>2, SnapshotPair
    <2>4. Snapshot(first \o rolled, 7)
      BY <2>3 DEF Snapshot
    <2>5. c = b
      BY <1>3, <2>1, ReplayNothing
    <2>6. ASSUME epoch = 0 PROVE Snapshot(first \o rolled, 2)
      <3>1. Snapshot(leased, 0)
        BY <1>1, <1>4, <2>6 DEF When, Snapshot
      <3>2. Snapshot(first, 2)
        BY <1>7, <1>8, <3>1, SnapshotConcat
      <3> QED BY <2>2, <3>2, SnapshotConcat
    <2> QED BY <1>2, <1>4, <1>5, <1>7, <1>8, <1>10, <2>1, <2>3, <2>4, <2>5, <2>6
  <1>11. CASE rb.id # NoId
    <2>1. /\ rolled = RollbackSnapshot(id, rb) /\ outcome = "CommittedAfter" /\ ChildOk(rb)
          /\ \A k \in Ids : base.transactions[k].rollback.id # rb.id
      BY <1>1, <1>4, <1>11 DEF When, TransactionOk
    <2>2. Stands(b, base, id, r, Tx("CommittedAfter", "None", epoch, NoRollback),
                 NoId, NoId, NoId)
      BY <1>7, <2>1 DEF Resolved
    <2>3. /\ Snapshot(rolled, 4)
          /\ Stands(c, base, id, r, Tx("CommittedAfter", "None", epoch, rb), NoId, NoId,
                    IF Resolved(rb.resolution) THEN NoId ELSE id)
      BY <1>3, <2>1, <2>2, RollbackReplays
    <2>4. Snapshot(first \o rolled, 7) /\ ReplayFrom(st, first \o rolled) = c
      BY <1>3, <1>9, <2>3, SnapshotPair
    <2>5. Resolved(outcome)
      BY <2>1 DEF Resolved
    <2> QED BY <1>2, <1>4, <1>5, <1>8, <1>11, <2>1, <2>3, <2>4, <2>5
  <1> QED BY <1>10, <1>11

\* A reservation without an operation in progress, and its transaction.
ReservationOk(base, record, tx) ==
    /\ record \in ReservationRecord /\ record.resolution = "Absent"
    /\ \/ record.phase = "Reserved" /\ tx = NoTransaction
       \/ record.phase = "Durable" /\ TransactionOk(base, tx)

\* Who an unresolved outcome keeps open.
OpenFor(id, outcome) == IF outcome \in {"None", "Manual"} THEN id ELSE NoId

\* append_reservation_snapshot: the snapshot of a reservation restores it.
LEMMA ReservationReplays ==
    ASSUME NEW base, Restoring(base), NEW id \in Ids, Free(base, id),
           Cardinality(Active(base)) < MaxReservations, NEW record, NEW tx,
           ReservationOk(base, record, tx)
    PROVE  /\ Snapshot(ReservationSnapshot(id, record, tx), 11)
           /\ Stands(ReplayFrom(base, ReservationSnapshot(id, record, tx)), base, id, record, tx,
                     NoId, OpenFor(id, tx.resolution), OpenFor(id, tx.rollback.resolution))
  <1>1. PICK reserve, persist, rest, later, all :
           /\ reserve = ReserveSnapshot(id, record) /\ persist = PersistSnapshot(id)
           /\ rest = TransactionSnapshot(id, tx)
           /\ later = When(record.phase = "Durable", persist \o rest)
           /\ all = reserve \o later
    OBVIOUS
  <1>2. ReservationSnapshot(id, record, tx) = all
    BY <1>1 DEF ReservationSnapshot
  <1>3. PICK a, b, c, d : /\ a = ReplayFrom(base, reserve) /\ b = ReplayFrom(a, persist)
                          /\ c = ReplayFrom(b, rest) /\ d = ReplayFrom(a, later)
    OBVIOUS
  <1>4. record \in ReservationRecord
    BY DEF ReservationOk
  <1>5. /\ Snapshot(reserve, 2)
        /\ Stands(a, base, id, ReservationOf(record, "Reserved", "Absent"), NoTransaction,
                  NoId, NoId, NoId)
    BY <1>1, <1>3, <1>4, ReserveReplays
  <1>6. record = ReservationOf(record, record.phase, "Absent")
    BY DEF ReservationOk, ReservationRecord, ReservationOf
  <1>7. CASE record.phase = "Reserved" /\ tx = NoTransaction
    <2>1. later = <<>>
      BY <1>1, <1>7 DEF When
    <2>2. Snapshot(later, 0)
      BY <2>1 DEF Snapshot
    <2>3. Snapshot(all, 11) /\ ReplayFrom(base, all) = d
      BY <1>1, <1>3, <1>5, <2>2, SnapshotPair
    <2>4. d = a
      BY <1>3, <2>1, ReplayNothing
    <2>5. OpenFor(id, tx.resolution) = NoId /\ OpenFor(id, tx.rollback.resolution) = NoId
      BY <1>7 DEF OpenFor, NoTransaction, NoRollback
    <2> QED BY <1>2, <1>5, <1>6, <1>7, <2>3, <2>4, <2>5
  <1>8. CASE record.phase = "Durable" /\ TransactionOk(base, tx)
    <2>1. PICK r : r = ReservationOf(record, "Durable", "Absent")
      OBVIOUS
    <2>2. r = record /\ r.phase = "Durable"
      BY <1>6, <1>8, <2>1
    <2>3. /\ Snapshot(persist, 2)
          /\ Stands(b, base, id, r, Tx("None", "None", 0, NoRollback), NoId, id, NoId)
      BY <1>1, <1>3, <1>5, <2>1, PersistReplays
    <2>4. /\ Snapshot(rest, 7)
          /\ Stands(c, base, id, r, tx, NoId, IF Resolved(tx.resolution) THEN NoId ELSE id,
                    IF tx.rollback.id # NoId /\ ~Resolved(tx.rollback.resolution)
                    THEN id ELSE NoId)
      BY <1>1, <1>3, <1>8, <2>2, <2>3, TransactionReplays
    <2>5. later = persist \o rest
      BY <1>1, <1>8 DEF When
    <2>6. Snapshot(later, 9) /\ ReplayFrom(a, later) = c
      BY <1>3, <2>3, <2>4, <2>5, SnapshotPair
    <2>7. Snapshot(all, 11) /\ ReplayFrom(base, all) = c
      BY <1>1, <1>3, <1>5, <2>6, SnapshotPair
    <2>8. /\ OpenFor(id, tx.resolution) = IF Resolved(tx.resolution) THEN NoId ELSE id
          /\ OpenFor(id, tx.rollback.resolution)
               = IF tx.rollback.id # NoId /\ ~Resolved(tx.rollback.resolution)
                 THEN id ELSE NoId
      BY <1>8 DEF OpenFor, Resolved, TransactionOk, ChildOk, NoRollback
    <2> QED BY <1>2, <2>2, <2>4, <2>7, <2>8
  <1> QED BY <1>7, <1>8 DEF ReservationOk

\* A snapshot begins with the intent to reserve.
Opens(snapshot, id, record) ==
    /\ snapshot \in Seq(SnapshotEvent) /\ Len(snapshot) > 0
    /\ snapshot[1] = [type |-> "ReserveIntent", id |-> id, draft |-> record.draft,
                      parent |-> record.parent]

\* What is appended to a sequence does not change its head.
LEMMA ConcatHead ==
    ASSUME NEW S, NEW s \in Seq(S), NEW t \in Seq(S), Len(s) > 0
    PROVE  s \o t \in Seq(S) /\ Len(s \o t) > 0 /\ (s \o t)[1] = s[1]
  OBVIOUS

\* A snapshot begins with the reservation of its identifier.
LEMMA SnapshotOpens ==
    ASSUME NEW id, NEW record, NEW s, NEW t, NEW m, NEW n,
           Snapshot(s, m), Snapshot(t, n), s = ReserveSnapshot(id, record)
    PROVE  Opens(s \o t, id, record)
  <1>1. s \in Seq(SnapshotEvent) /\ t \in Seq(SnapshotEvent)
    BY DEF Snapshot
  <1>2. Len(s) = 2 /\ s[1] = [type |-> "ReserveIntent", id |-> id, draft |-> record.draft,
                             parent |-> record.parent]
    <2>1. PICK e, f : s = <<e, f>> /\ e = [type |-> "ReserveIntent", id |-> id,
                                           draft |-> record.draft, parent |-> record.parent]
      BY DEF ReserveSnapshot
    <2> QED BY <2>1
  <1>3. s \o t \in Seq(SnapshotEvent) /\ Len(s \o t) > 0 /\ (s \o t)[1] = s[1]
    BY <1>1, <1>2, ConcatHead
  <1> QED BY <1>2, <1>3 DEF Opens

\* A tombstone inside the window of the restored clock.
ReleaseOk(base, release) ==
    /\ release \in ReleaseTombstone /\ release.operation # "None"
    /\ ReleaseShape(release)
    /\ release.at <= base.clock /\ base.clock <= release.at + TombstoneTTL

\* append_release_snapshot: the snapshot of a tombstone restores it.
LEMMA ReleaseReplays ==
    ASSUME NEW base, Restoring(base), NEW id \in Ids, Free(base, id),
           Cardinality(Active(base)) < MaxReservations,
           Cardinality(Released(base)) < MaxReleaseTombstones,
           NEW release, ReleaseOk(base, release)
    PROVE  /\ Snapshot(ReleaseSnapshot(id, release), 8)
           /\ Buried(ReplayFrom(base, ReleaseSnapshot(id, release)), base, id, release)
           /\ Opens(ReleaseSnapshot(id, release), id, release.record)
  <1>1. PICK record, at, outcome : /\ record = release.record /\ at = release.at
                                   /\ outcome = release.record.resolution
    OBVIOUS
  <1>2. /\ record \in ReservationRecord /\ at \in Nat
        /\ at <= base.clock /\ base.clock <= at + TombstoneTTL
        /\ release = [operation |-> release.operation, record |-> record, at |-> at]
        /\ release.operation \in {"Cancel", "Retire"}
    BY <1>1 DEF ReleaseOk, ReleaseTombstone
  <1>3. PICK reserve, a : reserve = ReserveSnapshot(id, record) /\ a = ReplayFrom(base, reserve)
    OBVIOUS
  <1>4. /\ Snapshot(reserve, 2)
        /\ Stands(a, base, id, ReservationOf(record, "Reserved", "Absent"), NoTransaction,
                  NoId, NoId, NoId)
    BY <1>2, <1>3, ReserveReplays
  <1>5. id \notin Released(base)
    BY DEF Free
  <1>6. CASE release.operation = "Cancel"
    <2>1. PICK e, f, tail, mid, new :
             /\ e = Event("CancelIntent", id)
             /\ f = [type |-> "CancelComplete", id |-> id, at |-> at]
             /\ tail = <<e, f>> /\ mid = ApplyEvent(a, e) /\ new = ApplyEvent(mid, f)
      OBVIOUS
    <2>2. ReleaseSnapshot(id, release) = reserve \o tail
      BY <1>1, <1>3, <1>6, <2>1 DEF ReleaseSnapshot
    <2>3. Snapshot(tail, 2) /\ ReplayFrom(a, tail) = new
      <3>1. e \in SnapshotEvent /\ f \in SnapshotEvent
        BY <1>2, <2>1 DEF SnapshotEvent, Event
      <3>2. Snapshot(<<e, f>>, 2)
        BY <3>1 DEF Snapshot
      <3> QED BY <2>1, <3>2, ReplayTwo
    <2>4. PICK r, r2 : /\ r = ReservationOf(record, "Reserved", "Absent")
                       /\ r2 = ReservationOf(record, "CancelPending", "Absent")
      OBVIOUS
    <2>5. r.phase = "Reserved" /\ [r EXCEPT !.phase = "CancelPending"] = r2
          /\ r2.phase = "CancelPending"
      BY <2>4 DEF ReservationOf
    <2>6. r2 = record
      BY <1>1, <1>2, <1>6, <2>4
         DEF ReservationOf, ReleaseOk, ReleaseShape, ReservationShape, ReservationRecord
    <2>7. Stands(mid, base, id, r2, NoTransaction, id, NoId, NoId)
      BY <1>4, <2>1, <2>4, <2>5, CancelIntentReplays
    <2>8. Buried(new, base, id, [operation |-> "Cancel", record |-> r2, at |-> at])
      BY <1>2, <1>5, <2>1, <2>5, <2>7, CancelCompleteReplays
    <2>9. Snapshot(reserve \o tail, 8) /\ ReplayFrom(base, reserve \o tail) = new
      BY <1>3, <1>4, <2>3, SnapshotPair
    <2>10. Opens(reserve \o tail, id, record)
      BY <1>3, <1>4, <2>3, SnapshotOpens
    <2> QED BY <1>1, <1>2, <1>6, <2>2, <2>6, <2>8, <2>9, <2>10
  <1>7. CASE release.operation = "Retire"
    <2>1. PICK persist, tx, rest, e, f, tail :
             /\ persist = PersistSnapshot(id)
             /\ tx = [NoTransaction EXCEPT !.resolution = outcome]
             /\ rest = TransactionSnapshot(id, tx)
             /\ e = Event("RetireIntent", id)
             /\ f = [type |-> "RetireComplete", id |-> id, at |-> at]
             /\ tail = <<e, f>>
      OBVIOUS
    <2>2. PICK first : first = persist \o rest
      OBVIOUS
    <2>3. PICK second : second = first \o tail
      OBVIOUS
    <2>4. ReleaseSnapshot(id, release) = reserve \o second
      BY <1>1, <1>3, <1>7, <2>1, <2>2, <2>3 DEF ReleaseSnapshot
    <2>5. PICK b, c, mid, new : /\ b = ReplayFrom(a, persist) /\ c = ReplayFrom(b, rest)
                                /\ mid = ApplyEvent(c, e) /\ new = ApplyEvent(mid, f)
      OBVIOUS
    <2>6. PICK r, r2 : /\ r = ReservationOf(record, "Durable", "Absent")
                       /\ r2 = ReservationOf(record, "RetirePending", outcome)
      OBVIOUS
    <2>7. Resolved(outcome) /\ outcome \in Outcome /\ r2 = record
      BY <1>1, <1>2, <1>7, <2>6
         DEF ReservationOf, ReleaseOk, ReleaseShape, ReservationShape, ReservationRecord,
             Resolved
    <2>8. /\ r.phase = "Durable" /\ r2.phase = "RetirePending"
          /\ [r EXCEPT !.phase = "RetirePending", !.resolution = outcome] = r2
      <3>1. [r EXCEPT !.phase = "RetirePending"] = ReservationOf(record, "RetirePending", "Absent")
        BY <2>6 DEF ReservationOf
      <3>2. [ReservationOf(record, "RetirePending", "Absent") EXCEPT !.resolution = outcome] = r2
        BY <2>6 DEF ReservationOf
      <3>3. r.phase = "Durable" /\ r2.phase = "RetirePending"
        BY <2>6 DEF ReservationOf
      <3> QED BY <3>1, <3>2, <3>3
    <2>9. tx = Tx(outcome, "None", 0, NoRollback)
      BY <2>1 DEF NoTransaction, Tx
    <2>10. /\ tx.resolution = outcome /\ tx.rollback.id = NoId /\ tx.lease = 0
           /\ RollbackClosed(tx) /\ TransactionOk(base, tx)
      <3>1. /\ tx.resolution = outcome /\ tx.rollback = NoRollback /\ tx.pending = "None"
            /\ tx.lease = 0 /\ tx \in TransactionRecord
        BY <2>7, <2>9 DEF Tx, TransactionRecord, RollbackRecord, NoRollback
      <3>2. tx.rollback.id = NoId
        BY <3>1 DEF NoRollback
      <3> QED BY <2>7, <3>1, <3>2 DEF TransactionOk, RollbackClosed, Resolved
    <2>11. /\ Snapshot(persist, 2)
           /\ Stands(b, base, id, r, Tx("None", "None", 0, NoRollback), NoId, id, NoId)
      BY <1>4, <2>1, <2>5, <2>6, PersistReplays
    <2>12. Snapshot(rest, 2) /\ Stands(c, base, id, r, tx, NoId, NoId, NoId)
      <3>1. rest = TransactionSnapshot(id, tx)
        BY <2>1
      <3>2. /\ Snapshot(rest, 2)
            /\ Stands(c, base, id, r, tx, NoId, IF Resolved(tx.resolution) THEN NoId ELSE id,
                      IF tx.rollback.id # NoId /\ ~Resolved(tx.rollback.resolution)
                      THEN id ELSE NoId)
        BY <2>5, <2>8, <2>10, <2>11, <3>1, TransactionReplays
      <3> QED BY <2>7, <2>10, <3>2
    <2>13. Snapshot(tail, 2) /\ ReplayFrom(c, tail) = new
      <3>1. e \in SnapshotEvent /\ f \in SnapshotEvent
        BY <1>2, <2>1 DEF SnapshotEvent, Event
      <3>2. Snapshot(<<e, f>>, 2)
        BY <3>1 DEF Snapshot
      <3> QED BY <2>1, <2>5, <3>2, ReplayTwo
    <2>14. Stands(mid, base, id, r2, tx, id, NoId, NoId)
      <3>1. e = Event("RetireIntent", id)
        BY <2>1
      <3> QED BY <2>5, <2>7, <2>8, <2>10, <2>12, <3>1, RetireIntentReplays
    <2>15. Buried(new, base, id, [operation |-> "Retire", record |-> r2, at |-> at])
      <3>1. new = ApplyEvent(mid, [type |-> "RetireComplete", id |-> id, at |-> at])
        BY <2>1, <2>5
      <3>2. /\ r2.phase = "RetirePending" /\ Resolved(tx.resolution) /\ RollbackClosed(tx)
            /\ at <= base.clock /\ base.clock <= at + TombstoneTTL
        BY <1>2, <2>7, <2>8, <2>10
      <3> QED BY <1>5, <2>14, <3>1, <3>2, RetireCompleteReplays
    <2>16. Snapshot(first, 4) /\ ReplayFrom(a, first) = c
      BY <2>2, <2>5, <2>11, <2>12, SnapshotPair
    <2>17. Snapshot(second, 6) /\ ReplayFrom(a, second) = new
      BY <2>3, <2>13, <2>16, SnapshotPair
    <2>18. Snapshot(reserve \o second, 8) /\ ReplayFrom(base, reserve \o second) = new
      BY <1>3, <1>4, <2>17, SnapshotPair
    <2>19. Opens(reserve \o second, id, record)
      BY <1>3, <1>4, <2>17, SnapshotOpens
    <2> QED BY <1>1, <1>2, <1>7, <2>4, <2>7, <2>15, <2>18, <2>19
  <1> QED BY <1>2, <1>6, <1>7

(***************************************************************************)
(* The restored part of a store.                                           *)
(***************************************************************************)
\* The state during the replay of a snapshot of st: the reservations in active and
\* the tombstones in releases are back.
Restored(st, active, releases) ==
    [reservations |-> [id \in Ids |-> IF id \in active
                                    THEN st.reservations[id] ELSE NoReservation],
     released     |-> [id \in Ids |-> IF id \in releases THEN st.released[id] ELSE NoRelease],
     seen         |-> active \cup releases,
     pending      |-> NoId,
     transactions |-> [id \in Ids |-> IF id \in active
                                    THEN st.transactions[id] ELSE NoTransaction],
     openTransaction |-> IF st.openTransaction \in active THEN st.openTransaction ELSE NoId,
     openRollback    |-> IF st.openRollback \in active THEN st.openRollback ELSE NoId,
     clock        |-> st.clock,
     generation   |-> st.generation + 1,
     restoring    |-> <<Cardinality(Active(st)), Cardinality(RetainedReleases(st))>>,
     verdict      |-> "ok"]

\* A store that is compacted: no operation is in progress and the records are as
\* StoreInv and HistoryInv say.
Compactable(st) ==
    /\ JournalInv(st) /\ st.pending = NoId
    /\ \A id \in Ids : /\ TransactionShape(st.transactions[id])
                       /\ ReservationShape(st.reservations[id])
                       /\ ReleaseShape(st.released[id])
    /\ RollbacksDiffer(st)
    /\ Cardinality(Active(st)) <= MaxReservations
    /\ Cardinality(RetainedReleases(st)) <= MaxRetained

\* Two states with the same fields are the same state.
LEMMA SameState ==
    ASSUME NEW a, NEW b, StateRecord(a), StateRecord(b),
           a.reservations = b.reservations, a.released = b.released, a.seen = b.seen,
           a.pending = b.pending, a.transactions = b.transactions,
           a.openTransaction = b.openTransaction, a.openRollback = b.openRollback,
           a.clock = b.clock, a.generation = b.generation, a.restoring = b.restoring,
           a.verdict = b.verdict
    PROVE  a = b
  <1>1. \A field \in StateField : a[field] = b[field]
    BY DEF StateField
  <1>2. [field \in StateField |-> a[field]] = [field \in StateField |-> b[field]]
    BY <1>1, Zenon
  <1> QED BY <1>2, Zenon DEF StateRecord

\* The fields of a restored state.
LEMMA RestoredFields ==
    ASSUME NEW st, NEW A, NEW R, NEW new, new = Restored(st, A, R)
    PROVE  /\ StateRecord(new)
           /\ new.reservations = [id \in Ids |-> IF id \in A THEN st.reservations[id]
                                                             ELSE NoReservation]
           /\ new.released = [id \in Ids |-> IF id \in R THEN st.released[id] ELSE NoRelease]
           /\ new.seen = A \cup R /\ new.pending = NoId
           /\ new.transactions = [id \in Ids |-> IF id \in A THEN st.transactions[id]
                                                             ELSE NoTransaction]
           /\ new.openTransaction = (IF st.openTransaction \in A
                                   THEN st.openTransaction ELSE NoId)
           /\ new.openRollback = (IF st.openRollback \in A THEN st.openRollback ELSE NoId)
           /\ new.clock = st.clock /\ new.generation = st.generation + 1
           /\ new.restoring = <<Cardinality(Active(st)), Cardinality(RetainedReleases(st))>>
           /\ new.verdict = "ok"
  <1>1. StateRecord(new)
    BY DEF Restored, StateRecord, StateField
  <1>2. /\ new.reservations = [id \in Ids |-> IF id \in A THEN st.reservations[id]
                                                          ELSE NoReservation]
        /\ new.released = [id \in Ids |-> IF id \in R THEN st.released[id] ELSE NoRelease]
        /\ new.seen = A \cup R /\ new.pending = NoId
        /\ new.transactions = [id \in Ids |-> IF id \in A THEN st.transactions[id]
                                                          ELSE NoTransaction]
    BY DEF Restored
  <1>3. /\ new.openTransaction = (IF st.openTransaction \in A
                                   THEN st.openTransaction ELSE NoId)
        /\ new.openRollback = (IF st.openRollback \in A THEN st.openRollback ELSE NoId)
        /\ new.clock = st.clock /\ new.generation = st.generation + 1
        /\ new.restoring = <<Cardinality(Active(st)), Cardinality(RetainedReleases(st))>>
        /\ new.verdict = "ok"
    BY DEF Restored
  <1> QED BY <1>1, <1>2, <1>3

\* The records of a store that is compacted.
LEMMA CompactableRecords ==
    ASSUME NEW st, Compactable(st)
    PROVE  /\ st.reservations \in [Ids -> ReservationRecord]
           /\ st.transactions \in [Ids -> TransactionRecord]
           /\ st.released \in [Ids -> ReleaseTombstone]
           /\ st.clock \in Nat /\ st.generation \in Nat
           /\ RetainedReleases(st) \subseteq Released(st)
           /\ Active(st) \cap Released(st) = {}
           /\ UnresolvedIds(st) \subseteq Active(st)
           /\ \A id \in Ids : id = st.openTransaction \/ id = st.openRollback
                                <=> id \in UnresolvedIds(st)
  <1>1. st \in RecoveredState /\ ReleaseInv(st)
    BY DEF Compactable, JournalInv
  <1>2. \A id \in Ids : RecordInv(id, st.reservations[id], st.transactions[id], NoId,
                                  st.openTransaction, st.openRollback)
    BY DEF Compactable, JournalInv
  <1>3. /\ st.reservations \in [Ids -> ReservationRecord]
        /\ st.transactions \in [Ids -> TransactionRecord]
        /\ st.released \in [Ids -> ReleaseTombstone]
        /\ st.clock \in Nat /\ st.generation \in Nat
    BY <1>1 DEF RecoveredState
  <1>4. RetainedReleases(st) \subseteq Released(st)
    BY DEF RetainedReleases
  <1>5. Active(st) \cap Released(st) = {}
    BY <1>1 DEF ReleaseInv, Active
  <1>6. ASSUME NEW id \in Ids
        PROVE  /\ id = st.openTransaction \/ id = st.openRollback <=> id \in UnresolvedIds(st)
               /\ id \in UnresolvedIds(st) => id \in Active(st)
    <2>1. TransactionInv(id, st.reservations[id], st.transactions[id],
                         st.openTransaction, st.openRollback)
      BY <1>2 DEF RecordInv
    <2>2. st.openTransaction = id <=> id \in OpenTransactions(st)
      BY <2>1 DEF TransactionInv, OpenTransactions
    <2>3. st.openRollback = id <=> id \in OpenRollbacks(st)
      BY <2>1 DEF TransactionInv, OpenRollbacks
    <2>4. id \in UnresolvedIds(st) => st.transactions[id].resolution # "Absent"
      BY <2>1 DEF TransactionInv, UnresolvedIds, OpenTransactions, OpenRollbacks
    <2> QED BY <2>1, <2>2, <2>3, <2>4 DEF TransactionInv, UnresolvedIds, Active
  <1>7. UnresolvedIds(st) \subseteq Ids
    BY DEF UnresolvedIds, OpenTransactions, OpenRollbacks
  <1> QED BY <1>3, <1>4, <1>5, <1>6, <1>7

\* The open reservation is not back yet.
PartlyRestored(st, A, R) ==
    A \subseteq Active(st) /\ R \subseteq RetainedReleases(st) /\ A \cap UnresolvedIds(st) = {}

\* What the next snapshot finds.
LEMMA RestoredBase ==
    ASSUME NEW st, Compactable(st), NEW A, NEW R, PartlyRestored(st, A, R), NEW base,
           base = Restored(st, A, R)
    PROVE  /\ Restoring(base) /\ Active(base) = A /\ Released(base) = R
           /\ base.clock = st.clock
           /\ \A id \in (Active(st) \cup RetainedReleases(st)) \ (A \cup R) : Free(base, id)
  <1>1. /\ st.reservations \in [Ids -> ReservationRecord]
        /\ st.transactions \in [Ids -> TransactionRecord]
        /\ st.released \in [Ids -> ReleaseTombstone]
        /\ RetainedReleases(st) \subseteq Released(st)
        /\ Active(st) \cap Released(st) = {}
        /\ \A id \in Ids : id = st.openTransaction \/ id = st.openRollback
                             <=> id \in UnresolvedIds(st)
    BY CompactableRecords
  <1>2. /\ NoReservation \in ReservationRecord /\ NoRelease \in ReleaseTombstone
        /\ NoTransaction \in TransactionRecord
    BY DEF NoReservation, NoRelease, NoTransaction, NoRollback, ReservationRecord,
           ReleaseTombstone, TransactionRecord, RollbackRecord, ReservationPhase
  <1>3. /\ StateRecord(base) /\ base.verdict = "ok" /\ base.pending = NoId
        /\ base.reservations = [id \in Ids |-> IF id \in A THEN st.reservations[id]
                                                           ELSE NoReservation]
        /\ base.transactions = [id \in Ids |-> IF id \in A THEN st.transactions[id]
                                                           ELSE NoTransaction]
        /\ base.released = [id \in Ids |-> IF id \in R THEN st.released[id] ELSE NoRelease]
        /\ base.seen = A \cup R /\ base.clock = st.clock
        /\ base.restoring = <<Cardinality(Active(st)), Cardinality(RetainedReleases(st))>>
    BY RestoredFields
  <1>4. base.openTransaction = NoId /\ base.openRollback = NoId
    <2>1. /\ base.openTransaction = (IF st.openTransaction \in A
                                   THEN st.openTransaction ELSE NoId)
          /\ base.openRollback = (IF st.openRollback \in A THEN st.openRollback ELSE NoId)
      BY DEF Restored
    <2>2. ASSUME NEW id \in A PROVE id # st.openTransaction /\ id # st.openRollback
      <3>1. id \in Ids /\ id \notin UnresolvedIds(st)
        BY DEF PartlyRestored, Active
      <3> QED BY <1>1, <3>1
    <2> QED BY <2>1, <2>2
  <1>5. Restoring(base)
    BY <1>1, <1>2, <1>3 DEF Restoring
  <1>6. Active(base) = A
    <2>1. NoReservation.phase = "Absent"
      BY DEF NoReservation
    <2>2. \A id \in Ids : base.reservations[id].phase # "Absent" <=> id \in A
      BY <1>3, <2>1 DEF PartlyRestored, Active
    <2> QED BY <2>2 DEF Active, PartlyRestored
  <1>7. Released(base) = R
    <2>1. NoRelease.operation = "None"
      BY DEF NoRelease
    <2>2. \A id \in Ids : base.released[id].operation # "None" <=> id \in R
      BY <1>1, <1>3, <2>1 DEF PartlyRestored, Released
    <2> QED BY <1>1, <2>2 DEF Released, PartlyRestored
  <1>8. ASSUME NEW id \in (Active(st) \cup RetainedReleases(st)) \ (A \cup R)
        PROVE  Free(base, id)
    <2>1. id \in Ids
      BY <1>1 DEF Active, Released
    <2> QED BY <1>3, <1>4, <1>6, <1>7, <2>1 DEF Free
  <1> QED BY <1>3, <1>5, <1>6, <1>7, <1>8

\* What has been restored leaves room for the rest.
LEMMA RestoredRoom ==
    ASSUME NEW st, Compactable(st), NEW A, NEW R, PartlyRestored(st, A, R)
    PROVE  /\ IsFiniteSet(A) /\ IsFiniteSet(R)
           /\ Active(st) \ A # {} => Cardinality(A) < MaxReservations
           /\ Cardinality(R) < MaxReleaseTombstones
  <1>1. IsFiniteSet(Active(st)) /\ IsFiniteSet(RetainedReleases(st))
    <2>1. Active(st) \subseteq Ids /\ RetainedReleases(st) \subseteq Ids
      BY DEF Active, RetainedReleases, Released
    <2> QED BY <2>1, FS_Subset, IdAssumption
  <1>2. /\ IsFiniteSet(A) /\ Cardinality(A) <= Cardinality(Active(st))
        /\ IsFiniteSet(R) /\ Cardinality(R) <= Cardinality(RetainedReleases(st))
        /\ Active(st) \ A # {} => Cardinality(A) < Cardinality(Active(st))
    <2>1. /\ IsFiniteSet(A) /\ Cardinality(A) <= Cardinality(Active(st))
          /\ Cardinality(A) = Cardinality(Active(st)) => A = Active(st)
      BY <1>1, FS_Subset DEF PartlyRestored
    <2>2. IsFiniteSet(R) /\ Cardinality(R) <= Cardinality(RetainedReleases(st))
      BY <1>1, FS_Subset DEF PartlyRestored
    <2>3. Cardinality(A) \in Nat /\ Cardinality(Active(st)) \in Nat
      BY <1>1, <2>1, FS_CardinalityType
    <2> QED BY <2>1, <2>2, <2>3
  <1>3. /\ Cardinality(A) \in Nat /\ Cardinality(Active(st)) \in Nat
        /\ Cardinality(R) \in Nat /\ Cardinality(RetainedReleases(st)) \in Nat
    BY <1>1, <1>2, FS_CardinalityType
  <1> QED BY <1>2, <1>3, LimitAssumption DEF Compactable

\* Every reservation of a compacted store can be restored.
LEMMA ReservationReady ==
    ASSUME NEW st, Compactable(st), NEW A, NEW R, PartlyRestored(st, A, R), NEW base,
           base = Restored(st, A, R), NEW id \in Active(st) \ A
    PROVE  ReservationOk(base, st.reservations[id], st.transactions[id])
  <1>1. PICK record, tx : record = st.reservations[id] /\ tx = st.transactions[id]
    OBVIOUS
  <1>2. id \in Ids /\ record.phase # "Absent" /\ id # NoId
    BY <1>1, IdAssumption DEF Active, NoId
  <1>3. record \in ReservationRecord /\ tx \in TransactionRecord /\ tx.rollback \in RollbackRecord
    <2>1. record \in ReservationRecord /\ tx \in TransactionRecord
      BY <1>1, <1>2, CompactableRecords
    <2> QED BY <2>1 DEF TransactionRecord
  <1>4. RecordInv(id, record, tx, NoId, st.openTransaction, st.openRollback)
    BY <1>1, <1>2 DEF Compactable, JournalInv
  <1>5. TransactionShape(tx) /\ ReservationShape(record)
    BY <1>1, <1>2 DEF Compactable
  <1>6. /\ record.phase \in {"Reserved", "Durable"} /\ record.resolution = "Absent"
        /\ tx.pending = "None" /\ tx.rollback.pending = "None"
        /\ record.phase = "Durable" <=> tx.resolution # "Absent"
        /\ tx.rollback.id = NoId <=> tx.rollback.resolution = "Absent"
        /\ tx.rollback.id # NoId => tx.resolution = "CommittedAfter"
    BY <1>2, <1>4, <1>5 DEF RecordInv, PendingInv, TransactionInv, ReservationShape
  <1>7. CASE record.phase = "Reserved"
    BY <1>1, <1>3, <1>5, <1>6, <1>7 DEF ReservationOk, TransactionShape
  <1>8. CASE record.phase = "Durable"
    <2>1. tx.rollback.id = NoId => tx.rollback = NoRollback
      BY <1>5, <1>6 DEF TransactionShape
    <2>2. tx.rollback.id # NoId => ChildOk(tx.rollback)
      BY <1>3, <1>6 DEF ChildOk
    <2>3. ASSUME tx.rollback.id # NoId, NEW k \in Ids
          PROVE  base.transactions[k].rollback.id # tx.rollback.id
      <3>1. base.transactions[k] = IF k \in A THEN st.transactions[k] ELSE NoTransaction
        BY DEF Restored
      <3>2. NoTransaction.rollback.id = NoId
        BY DEF NoTransaction, NoRollback
      <3>3. k # id /\ RollbacksDiffer(st) => st.transactions[k].rollback.id # tx.rollback.id
        BY <1>1, <1>2, <2>3 DEF RollbacksDiffer
      <3> QED BY <2>3, <3>1, <3>2, <3>3 DEF Compactable
    <2>4. TransactionOk(base, tx)
      BY <1>3, <1>6, <1>8, <2>1, <2>2, <2>3 DEF TransactionOk
    <2> QED BY <1>1, <1>3, <1>6, <1>8, <2>4 DEF ReservationOk
  <1> QED BY <1>6, <1>7, <1>8

\* The snapshot of a reservation brings it back, with the transaction or rollback
\* that is open.
LEMMA ReservationRestored ==
    ASSUME NEW st, Compactable(st), NEW A, NEW R, PartlyRestored(st, A, R),
           NEW id \in Active(st) \ A
    PROVE  LET snapshot == ReservationSnapshot(id, st.reservations[id], st.transactions[id])
           IN /\ Snapshot(snapshot, 11)
              /\ ReplayFrom(Restored(st, A, R), snapshot) = Restored(st, A \cup {id}, R)
  <1>1. PICK base, record, tx, snapshot, new, goal :
           /\ base = Restored(st, A, R) /\ goal = Restored(st, A \cup {id}, R)
           /\ record = st.reservations[id] /\ tx = st.transactions[id]
           /\ snapshot = ReservationSnapshot(id, record, tx)
           /\ new = ReplayFrom(base, snapshot)
    OBVIOUS
  <1>2. /\ id \in Ids /\ id \in Active(st) \cup RetainedReleases(st) /\ id \notin A \cup R
        /\ id \notin RetainedReleases(st)
    BY CompactableRecords DEF Active, PartlyRestored
  <1>3. /\ Restoring(base) /\ Active(base) = A /\ Free(base, id)
    BY <1>1, <1>2, RestoredBase
  <1>4. Cardinality(Active(base)) < MaxReservations
    BY <1>3, RestoredRoom
  <1>5. ReservationOk(base, record, tx)
    BY <1>1, ReservationReady
  <1>6. /\ Snapshot(snapshot, 11)
        /\ Stands(new, base, id, record, tx, NoId, OpenFor(id, tx.resolution),
                  OpenFor(id, tx.rollback.resolution))
    BY <1>1, <1>2, <1>3, <1>4, <1>5, ReservationReplays
  <1>7. /\ StateRecord(goal)
        /\ goal.reservations = [k \in Ids |-> IF k \in A \cup {id} THEN st.reservations[k]
                                                                   ELSE NoReservation]
        /\ goal.transactions = [k \in Ids |-> IF k \in A \cup {id} THEN st.transactions[k]
                                                                   ELSE NoTransaction]
        /\ goal.released = base.released /\ goal.seen = base.seen \cup {id}
        /\ goal.pending = NoId /\ goal.clock = base.clock /\ goal.generation = base.generation
        /\ goal.restoring = base.restoring /\ goal.verdict = "ok"
    <2>1. goal.released = base.released /\ goal.seen = base.seen \cup {id}
      BY <1>1 DEF Restored
    <2>2. /\ goal.pending = NoId /\ goal.clock = base.clock
          /\ goal.generation = base.generation
          /\ goal.restoring = base.restoring /\ goal.verdict = "ok"
      BY <1>1 DEF Restored
    <2>3. StateRecord(goal)
      BY <1>1 DEF Restored, StateRecord, StateField
    <2> QED BY <1>1, <2>1, <2>2, <2>3 DEF Restored
  <1>8. /\ goal.openTransaction = OpenFor(id, tx.resolution)
        /\ goal.openRollback = OpenFor(id, tx.rollback.resolution)
    <2>1. /\ goal.openTransaction = (IF st.openTransaction \in A \cup {id}
                                     THEN st.openTransaction ELSE NoId)
          /\ goal.openRollback = (IF st.openRollback \in A \cup {id}
                                  THEN st.openRollback ELSE NoId)
      BY <1>1 DEF Restored
    <2>2. ASSUME NEW k \in A PROVE k # st.openTransaction /\ k # st.openRollback
      <3>1. k \in Ids /\ k \notin UnresolvedIds(st)
        BY DEF PartlyRestored, Active
      <3> QED BY <3>1, CompactableRecords
    <2>3. TransactionInv(id, record, tx, st.openTransaction, st.openRollback)
      BY <1>1, <1>2 DEF Compactable, JournalInv, RecordInv
    <2>4. /\ st.openTransaction = id <=> tx.resolution \in {"None", "Manual"}
          /\ st.openRollback = id <=> tx.rollback.resolution \in {"None", "Manual"}
      BY <2>3 DEF TransactionInv
    <2> QED BY <2>1, <2>2, <2>4 DEF OpenFor
  <1>9. goal = new
    <2>1. /\ base.reservations = [k \in Ids |-> IF k \in A THEN st.reservations[k]
                                                           ELSE NoReservation]
          /\ base.transactions = [k \in Ids |-> IF k \in A THEN st.transactions[k]
                                                           ELSE NoTransaction]
      BY <1>1 DEF Restored
    <2>2. /\ goal.reservations = [base.reservations EXCEPT ![id] = record]
          /\ goal.transactions = [base.transactions EXCEPT ![id] = tx]
      <3>1. goal.reservations = [base.reservations EXCEPT ![id] = record]
        BY <1>1, <1>2, <1>7, <2>1
      <3>2. goal.transactions = [base.transactions EXCEPT ![id] = tx]
        BY <1>1, <1>2, <1>7, <2>1
      <3> QED BY <3>1, <3>2
    <2>3. /\ StateRecord(new) /\ new.reservations = goal.reservations
          /\ new.transactions = goal.transactions /\ new.released = goal.released
          /\ new.seen = goal.seen /\ new.pending = goal.pending
          /\ new.openTransaction = goal.openTransaction
          /\ new.openRollback = goal.openRollback /\ new.clock = goal.clock
          /\ new.generation = goal.generation /\ new.restoring = goal.restoring
          /\ new.verdict = goal.verdict
      BY <1>6, <1>7, <1>8, <2>2 DEF Stands
    <2> QED BY <1>7, <2>3, SameState
  <1> QED BY <1>1, <1>6, <1>9

\* The snapshot of a tombstone brings it back.
LEMMA ReleaseRestored ==
    ASSUME NEW st, Compactable(st), NEW A, NEW R, PartlyRestored(st, A, R),
           Cardinality(A) < MaxReservations, NEW id \in RetainedReleases(st) \ R
    PROVE  LET snapshot == ReleaseSnapshot(id, st.released[id])
           IN /\ Snapshot(snapshot, 8)
              /\ ReplayFrom(Restored(st, A, R), snapshot) = Restored(st, A, R \cup {id})
              /\ Opens(snapshot, id, st.released[id].record)
  <1>1. PICK base, release, snapshot, new, goal :
           /\ base = Restored(st, A, R) /\ goal = Restored(st, A, R \cup {id})
           /\ release = st.released[id] /\ snapshot = ReleaseSnapshot(id, release)
           /\ new = ReplayFrom(base, snapshot)
    OBVIOUS
  <1>2. /\ id \in Ids /\ id \in Active(st) \cup RetainedReleases(st) /\ id \notin A \cup R
        /\ id \in Released(st)
    <2>1. id \in Released(st) /\ id \notin Active(st)
      BY CompactableRecords
    <2> QED BY <2>1 DEF Released, PartlyRestored
  <1>3. /\ Restoring(base) /\ Active(base) = A /\ Released(base) = R /\ Free(base, id)
        /\ base.clock = st.clock
    BY <1>1, <1>2, RestoredBase
  <1>4. Cardinality(Released(base)) < MaxReleaseTombstones
    BY <1>3, RestoredRoom
  <1>5. ReleaseOk(base, release)
    <2>1. release \in ReleaseTombstone /\ ReleaseShape(release)
      BY <1>1, <1>2, CompactableRecords DEF Compactable
    <2>2. InWindow(st, id)
      BY DEF RetainedReleases
    <2> QED BY <1>1, <1>2, <1>3, <2>1, <2>2 DEF ReleaseOk, InWindow, Released
  <1>6. Snapshot(snapshot, 8) /\ Buried(new, base, id, release)
        /\ Opens(snapshot, id, release.record)
    BY <1>1, <1>2, <1>3, <1>4, <1>5, ReleaseReplays
  <1>7. /\ StateRecord(goal)
        /\ goal.released = [k \in Ids |-> IF k \in R \cup {id} THEN st.released[k]
                                                               ELSE NoRelease]
        /\ goal.reservations = base.reservations /\ goal.transactions = base.transactions
        /\ goal.seen = base.seen \cup {id}
        /\ goal.pending = NoId /\ goal.clock = base.clock /\ goal.generation = base.generation
        /\ goal.restoring = base.restoring /\ goal.verdict = "ok"
        /\ goal.openTransaction = base.openTransaction /\ goal.openRollback = base.openRollback
    <2>1. /\ goal.reservations = base.reservations /\ goal.transactions = base.transactions
          /\ goal.seen = base.seen \cup {id}
      BY <1>1 DEF Restored
    <2>2. /\ goal.pending = NoId /\ goal.clock = base.clock
          /\ goal.generation = base.generation
          /\ goal.restoring = base.restoring /\ goal.verdict = "ok"
          /\ goal.openTransaction = base.openTransaction
          /\ goal.openRollback = base.openRollback
      BY <1>1 DEF Restored
    <2>3. StateRecord(goal)
      BY <1>1 DEF Restored, StateRecord, StateField
    <2> QED BY <1>1, <2>1, <2>2, <2>3 DEF Restored
  <1>8. goal = new
    <2>1. /\ base.released = [k \in Ids |-> IF k \in R THEN st.released[k] ELSE NoRelease]
          /\ base.reservations = [k \in Ids |-> IF k \in A THEN st.reservations[k]
                                                           ELSE NoReservation]
          /\ base.transactions = [k \in Ids |-> IF k \in A THEN st.transactions[k]
                                                           ELSE NoTransaction]
      BY <1>1 DEF Restored
    <2>2. goal.released = [base.released EXCEPT ![id] = release]
      BY <1>1, <1>2, <1>7, <2>1
    <2>3. /\ [base.reservations EXCEPT ![id] = NoReservation] = base.reservations
          /\ [base.transactions EXCEPT ![id] = NoTransaction] = base.transactions
      <3>1. [base.reservations EXCEPT ![id] = NoReservation] = base.reservations
        BY <1>2, <2>1
      <3>2. [base.transactions EXCEPT ![id] = NoTransaction] = base.transactions
        BY <1>2, <2>1
      <3> QED BY <3>1, <3>2
    <2>4. base.openTransaction = NoId /\ base.openRollback = NoId
      BY <1>3 DEF Free
    <2>5. /\ StateRecord(new) /\ new.reservations = goal.reservations
          /\ new.transactions = goal.transactions /\ new.released = goal.released
          /\ new.seen = goal.seen /\ new.pending = goal.pending
          /\ new.openTransaction = goal.openTransaction
          /\ new.openRollback = goal.openRollback /\ new.clock = goal.clock
          /\ new.generation = goal.generation /\ new.restoring = goal.restoring
          /\ new.verdict = goal.verdict
      BY <1>6, <1>7, <2>2, <2>3, <2>4 DEF Buried
    <2> QED BY <1>7, <2>5, SameState
  <1> QED BY <1>1, <1>6, <1>8

(***************************************************************************)
(* The snapshots of several identifiers, in order.                         *)
(***************************************************************************)
\* The numbers of a set, from the smallest to the largest.
IsOrder(order, ids, n) ==
    order \in [1..n -> ids] /\ \A i, j \in 1..n : i < j => order[i] < order[j]

\* Every finite set of identifiers has such an order.
LEMMA OrderExists ==
    ASSUME NEW ids \in SUBSET Ids
    PROVE  \E order : IsOrder(order, ids, Cardinality(ids))
  <1> DEFINE Bad(n) == \E S \in SUBSET Ids :
                          Cardinality(S) = n /\ ~ \E order : IsOrder(order, S, n)
             T == {n \in Nat : Bad(n)}
  <1>1. \A S \in SUBSET Ids : IsFiniteSet(S) /\ Cardinality(S) \in Nat
    BY FS_Subset, FS_CardinalityType, IdAssumption
  <1>2. SUFFICES ASSUME T # {} PROVE FALSE
    BY <1>1
  <1>3. PICK n \in T : \A m \in T : n <= m
    <2>1. T \in SUBSET Nat
      OBVIOUS
    <2> HIDE DEF T
    <2> QED BY <1>2, <2>1, LeastNumber
  <1>4. PICK S \in SUBSET Ids : Cardinality(S) = n /\ ~ \E order : IsOrder(order, S, n)
    BY <1>3
  <1>5. CASE n = 0
    <2>1. S = {}
      BY <1>1, <1>4, <1>5, FS_EmptySet
    <2>2. IsOrder([i \in 1..0 |-> 0], S, 0)
      BY <2>1 DEF IsOrder
    <2> QED BY <1>4, <1>5, <2>2
  <1>6. CASE n # 0
    <2>1. S # {} /\ S \in SUBSET Nat
      BY <1>4, <1>6, FS_EmptySet, IdAssumption
    <2>2. PICK x \in S : \A y \in S : x <= y
      BY <2>1, LeastNumber
    <2>3. Cardinality(S \ {x}) = n - 1
      BY <1>1, <1>4, <2>2, FS_RemoveElement
    <2>4. n - 1 \in Nat /\ n - 1 \notin T
      BY <1>3, <1>6
    <2>5. PICK f : IsOrder(f, S \ {x}, n - 1)
      <3>1. S \ {x} \in SUBSET Ids
        OBVIOUS
      <3> QED BY <2>3, <2>4, <3>1
    <2> DEFINE g == [i \in 1..n |-> IF i = 1 THEN x ELSE f[i - 1]]
    <2>6. ASSUME NEW i \in 1..n, i # 1
          PROVE  i - 1 \in 1..(n - 1) /\ g[i] = f[i - 1] /\ f[i - 1] \in S \ {x}
      <3>1. i - 1 \in 1..(n - 1)
        BY <1>3, <2>6
      <3> QED BY <2>5, <2>6, <3>1 DEF IsOrder
    <2>7. g \in [1..n -> S]
      BY <2>6
    <2>8. ASSUME NEW i \in 1..n, NEW j \in 1..n, i < j PROVE g[i] < g[j]
      <3>1. j # 1
        BY <2>8
      <3>2. CASE i = 1
        <4>1. g[i] = x /\ g[j] \in S \ {x}
          BY <2>6, <3>1, <3>2
        <4>2. x <= g[j] /\ x # g[j] /\ x \in Nat /\ g[j] \in Nat
          BY <2>1, <2>2, <4>1
        <4> QED BY <4>1, <4>2
      <3>3. CASE i # 1
        <4>1. /\ i - 1 \in 1..(n - 1) /\ j - 1 \in 1..(n - 1) /\ i - 1 < j - 1
              /\ g[i] = f[i - 1] /\ g[j] = f[j - 1]
          BY <2>6, <2>8, <3>1, <3>3
        <4> QED BY <2>5, <4>1 DEF IsOrder
      <3> QED BY <3>2, <3>3
    <2>9. IsOrder(g, S, n)
      BY <2>7, <2>8 DEF IsOrder
    <2> QED BY <1>4, <2>9
  <1> QED BY <1>5, <1>6

\* InIdOrder lists every identifier once.
LEMMA OrderLists ==
    ASSUME NEW ids \in SUBSET Ids, NEW order, order = InIdOrder(ids),
           NEW n, n = Cardinality(ids)
    PROVE  /\ n \in Nat /\ order \in [1..n -> ids]
           /\ \A i, j \in 1..n : order[i] = order[j] => i = j
           /\ \A id \in ids : \E i \in 1..n : order[i] = id
  <1>1. IsFiniteSet(ids) /\ n \in Nat /\ ids \in SUBSET Nat
    BY FS_Subset, FS_CardinalityType, IdAssumption
  <1>2. IsOrder(order, ids, n)
    <2>1. \E f : IsOrder(f, ids, n)
      BY OrderExists
    <2>2. \E f \in [1..n -> ids] : \A i, j \in 1..n : i < j => f[i] < f[j]
      BY <2>1 DEF IsOrder
    <2>3. order = CHOOSE f \in [1..n -> ids] : \A i, j \in 1..n : i < j => f[i] < f[j]
      BY DEF InIdOrder
    <2> QED BY <2>2, <2>3 DEF IsOrder
  <1>3. order \in [1..n -> ids] /\ \A i \in 1..n : order[i] \in Nat
    BY <1>1, <1>2 DEF IsOrder
  <1>4. ASSUME NEW i \in 1..n, NEW j \in 1..n, order[i] = order[j] PROVE i = j
    <2>1. i < j => order[i] < order[j]
      BY <1>2 DEF IsOrder
    <2>2. j < i => order[j] < order[i]
      BY <1>2 DEF IsOrder
    <2>3. order[i] \in Nat /\ order[j] \in Nat
      BY <1>3
    <2> QED BY <1>1, <1>4, <2>1, <2>2, <2>3
  <1>5. order \in Injection(1..n, ids)
    BY <1>3, <1>4 DEF Injection, IsInjective
  <1>6. Cardinality(1..n) = n
    BY <1>1, FS_Interval
  <1>7. order \in Surjection(1..n, ids)
    BY <1>1, <1>5, <1>6, FS_Injection
  <1> QED BY <1>1, <1>3, <1>4, <1>7 DEF Surjection

\* The sequences that FlattenSeq joins, one more at a time.
IsFlattening(f, seqs, n) ==
    f = [i \in 1..n |-> IF i = 1 THEN seqs[i] ELSE f[i - 1] \o seqs[i]]

\* They exist: FlattenSeq is well defined.
LEMMA FlatteningExists ==
    ASSUME NEW seqs, NEW n \in Nat
    PROVE  \E f : IsFlattening(f, seqs, n)
  <1> DEFINE T == {k \in Nat : ~ \E f : IsFlattening(f, seqs, k)}
  <1>1. SUFFICES ASSUME T # {} PROVE FALSE
    OBVIOUS
  <1>2. PICK k \in T : \A m \in T : k <= m
    BY <1>1, LeastNumber
  <1>3. CASE k = 0
    <2>1. IsFlattening([i \in 1..0 |-> <<>>], seqs, 0)
      BY DEF IsFlattening
    <2> QED BY <2>1, <1>3
  <1>4. CASE k # 0
    <2>1. k - 1 \in Nat /\ k - 1 \notin T
      BY <1>2, <1>4
    <2>2. PICK f : IsFlattening(f, seqs, k - 1)
      BY <2>1
    <2> DEFINE g == [i \in 1..k |-> IF i # k THEN f[i]
                                    ELSE IF k = 1 THEN seqs[1] ELSE f[k - 1] \o seqs[k]]
    <2>3. ASSUME NEW i \in 1..k
          PROVE  g[i] = IF i = 1 THEN seqs[i] ELSE g[i - 1] \o seqs[i]
      <3>1. CASE i = k
        BY <2>1, <1>4, <3>1
      <3>2. CASE i # k
        <4>1. i \in 1..(k - 1) /\ (i # 1 => i - 1 \in 1..k /\ i - 1 # k)
          BY <2>1, <3>2
        <4>2. f[i] = IF i = 1 THEN seqs[i] ELSE f[i - 1] \o seqs[i]
          BY <2>2, <4>1 DEF IsFlattening
        <4> QED BY <3>2, <4>1, <4>2
      <3> QED BY <3>1, <3>2
    <2>4. IsFlattening(g, seqs, k)
      <3>1. g = [i \in 1..k |-> g[i]]
        OBVIOUS
      <3> HIDE DEF g
      <3> QED BY <2>3, <3>1 DEF IsFlattening
    <2> QED BY <2>4
  <1> QED BY <1>3, <1>4

\* Snapshots of at most w events each, every one replayed where the one before left
\* off: B[i] is the state after the first i of them.
Relayed(seqs, n, w, B) ==
    \A i \in 1..n : Snapshot(seqs[i], w) /\ ReplayFrom(B[i - 1], seqs[i]) = B[i]

\* The joined snapshots replay one after the other.
LEMMA FlattenReplays ==
    ASSUME NEW n \in Nat, NEW seqs, seqs \in [1..n -> Seq(SnapshotEvent)],
           NEW w \in {8, 11}, NEW B, Relayed(seqs, n, w, B)
    PROVE  Snapshot(FlattenSeq(seqs), w * n) /\ ReplayFrom(B[0], FlattenSeq(seqs)) = B[n]
  <1>1. Len(seqs) = n /\ seqs \in Seq(Seq(SnapshotEvent))
    OBVIOUS
  <1>2. CASE n = 0
    <2>1. seqs = <<>>
      BY <1>1, <1>2
    <2>2. FlattenSeq(seqs) = <<>>
      BY <1>1, <1>2, <2>1 DEF FlattenSeq
    <2>3. Snapshot(<<>>, w * n)
      BY <1>2 DEF Snapshot
    <2> QED BY <1>2, <2>2, <2>3, ReplayNothing
  <1>3. CASE n # 0
    <2> DEFINE flat == CHOOSE f : IsFlattening(f, seqs, n)
    <2>1. IsFlattening(flat, seqs, n)
      BY FlatteningExists
    <2>2. FlattenSeq(seqs) = flat[n]
      BY <1>1, <1>3 DEF FlattenSeq, IsFlattening
    <2> DEFINE T == {k \in 1..n : ~(/\ Snapshot(flat[k], w * k)
                                    /\ ReplayFrom(B[0], flat[k]) = B[k])}
    <2> HIDE DEF flat
    <2>3. T = {}
      <3>1. SUFFICES ASSUME T # {} PROVE FALSE
        OBVIOUS
      <3>2. PICK k \in T : \A m \in T : k <= m
        <4>1. T \in SUBSET Nat
          OBVIOUS
        <4> HIDE DEF T
        <4> QED BY <3>1, <4>1, LeastNumber
      <3>3. k \in 1..n /\ flat[k] = IF k = 1 THEN seqs[k] ELSE flat[k - 1] \o seqs[k]
        BY <2>1 DEF IsFlattening
      <3>4. Snapshot(seqs[k], w) /\ ReplayFrom(B[k - 1], seqs[k]) = B[k]
        BY <3>3 DEF Relayed
      <3>5. CASE k = 1
        BY <3>3, <3>4, <3>5
      <3>6. CASE k # 1
        <4>1. k - 1 \in 1..n /\ k - 1 \notin T
          BY <3>2, <3>3, <3>6
        <4>2. Snapshot(flat[k - 1], w * (k - 1)) /\ ReplayFrom(B[0], flat[k - 1]) = B[k - 1]
          BY <4>1
        <4>3. PICK s, t, m, l, a, b, c : /\ s = flat[k - 1] /\ t = seqs[k]
                                         /\ m = w * (k - 1) /\ l = w * k
                                         /\ a = B[0] /\ b = B[k - 1] /\ c = B[k]
          OBVIOUS
        <4>4. m \in Nat /\ l \in Nat /\ w \in Nat /\ m + w <= l
          BY <3>3, <4>1, <4>3
        <4>5. Snapshot(s \o t, l) /\ ReplayFrom(a, s \o t) = c
          BY <3>4, <4>2, <4>3, <4>4, SnapshotPair
        <4> QED BY <3>3, <3>6, <4>3, <4>5
      <3> QED BY <3>5, <3>6
    <2>4. n \in 1..n
      BY <1>3
    <2> QED BY <2>2, <2>3, <2>4
  <1> QED BY <1>2, <1>3

\* The first i identifiers of an order.
Listed(order, i) == {order[j] : j \in 1..i}

\* They grow one by one, from none to all.
LEMMA ListedSteps ==
    ASSUME NEW ids \in SUBSET Ids, NEW order, order = InIdOrder(ids),
           NEW n, n = Cardinality(ids)
    PROVE  /\ n \in Nat /\ Listed(order, 0) = {} /\ Listed(order, n) = ids
           /\ \A i \in 1..n : /\ order[i] \in ids \ Listed(order, i - 1)
                              /\ Listed(order, i - 1) \subseteq ids
                              /\ Listed(order, i) = Listed(order, i - 1) \cup {order[i]}
                              /\ n <= 1 => Listed(order, i - 1) = {}
  <1>1. /\ n \in Nat /\ order \in [1..n -> ids]
        /\ \A i, j \in 1..n : order[i] = order[j] => i = j
        /\ \A id \in ids : \E i \in 1..n : order[i] = id
    BY OrderLists
  <1>2. Listed(order, 0) = {} /\ Listed(order, n) = ids
    BY <1>1 DEF Listed
  <1>3. ASSUME NEW i \in 1..n
        PROVE  /\ order[i] \in ids \ Listed(order, i - 1)
               /\ Listed(order, i - 1) \subseteq ids
               /\ Listed(order, i) = Listed(order, i - 1) \cup {order[i]}
               /\ n <= 1 => Listed(order, i - 1) = {}
    <2>1. \A j \in 1..(i - 1) : j \in 1..n /\ j # i
      BY <1>1
    <2>2. order[i] \in ids \ Listed(order, i - 1) /\ Listed(order, i - 1) \subseteq ids
      BY <1>1, <2>1 DEF Listed
    <2>3. 1..i = (1..(i - 1)) \cup {i}
      BY <1>1
    <2>4. Listed(order, i) = Listed(order, i - 1) \cup {order[i]}
      BY <2>3 DEF Listed
    <2>5. n <= 1 => 1..(i - 1) = {}
      BY <1>1
    <2> QED BY <2>2, <2>4, <2>5 DEF Listed
  <1> QED BY <1>1, <1>2, <1>3

\* The snapshots of some reservations restore them.  One that is unresolved comes
\* alone.
LEMMA ReservationsRestored ==
    ASSUME NEW st, Compactable(st), NEW A, NEW R, PartlyRestored(st, A, R),
           NEW ids \in SUBSET (Active(st) \ A),
           ids \cap UnresolvedIds(st) = {} \/ Cardinality(ids) <= 1
    PROVE  /\ Snapshot(ReservationSnapshots(st, ids), 11 * Cardinality(ids))
           /\ ReplayFrom(Restored(st, A, R), ReservationSnapshots(st, ids))
                = Restored(st, A \cup ids, R)
  <1>1. PICK n, order, seqs, B :
           /\ n = Cardinality(ids) /\ order = InIdOrder(ids)
           /\ seqs = [i \in 1..n |-> ReservationSnapshot(order[i], st.reservations[order[i]],
                                                         st.transactions[order[i]])]
           /\ B = [i \in 0..n |-> Restored(st, A \cup Listed(order, i), R)]
    OBVIOUS
  <1>2. ids \in SUBSET Ids
    BY DEF Active
  <1>3. /\ n \in Nat /\ Listed(order, 0) = {} /\ Listed(order, n) = ids
        /\ \A i \in 1..n : /\ order[i] \in ids \ Listed(order, i - 1)
                           /\ Listed(order, i - 1) \subseteq ids
                           /\ Listed(order, i) = Listed(order, i - 1) \cup {order[i]}
                           /\ n <= 1 => Listed(order, i - 1) = {}
    BY <1>1, <1>2, ListedSteps
  <1>4. ReservationSnapshots(st, ids) = FlattenSeq(seqs)
    BY <1>1 DEF ReservationSnapshots
  <1>5. ASSUME NEW i \in 1..n
        PROVE  Snapshot(seqs[i], 11) /\ ReplayFrom(B[i - 1], seqs[i]) = B[i]
    <2>1. PICK id, before : id = order[i] /\ before = A \cup Listed(order, i - 1)
      OBVIOUS
    <2>2. id \in Active(st) \ before
      BY <1>3, <2>1
    <2>3. PartlyRestored(st, before, R)
      BY <1>1, <1>3, <2>1 DEF PartlyRestored
    <2>4. PICK snapshot :
             snapshot = ReservationSnapshot(id, st.reservations[id], st.transactions[id])
      OBVIOUS
    <2>5. /\ Snapshot(snapshot, 11)
          /\ ReplayFrom(Restored(st, before, R), snapshot) = Restored(st, before \cup {id}, R)
      BY <2>2, <2>3, <2>4, ReservationRestored
    <2>6. A \cup Listed(order, i) = before \cup {id}
      BY <1>3, <2>1
    <2>7. /\ seqs[i] = snapshot /\ B[i - 1] = Restored(st, before, R)
          /\ B[i] = Restored(st, A \cup Listed(order, i), R)
      BY <1>1, <1>3, <2>1, <2>4
    <2> QED BY <2>5, <2>6, <2>7
  <1>6. Relayed(seqs, n, 11, B)
    BY <1>5 DEF Relayed
  <1>7. seqs \in [1..n -> Seq(SnapshotEvent)]
    <2>1. seqs = [i \in 1..n |-> seqs[i]]
      BY <1>1
    <2> QED BY <1>5, <2>1 DEF Snapshot
  <1>8. Snapshot(FlattenSeq(seqs), 11 * n) /\ ReplayFrom(B[0], FlattenSeq(seqs)) = B[n]
    BY <1>3, <1>6, <1>7, FlattenReplays
  <1>9. B[0] = Restored(st, A, R) /\ B[n] = Restored(st, A \cup ids, R)
    <2>1. A \cup Listed(order, 0) = A /\ A \cup Listed(order, n) = A \cup ids
      BY <1>3
    <2>2. B[0] = Restored(st, A \cup Listed(order, 0), R)
          /\ B[n] = Restored(st, A \cup Listed(order, n), R)
      BY <1>1, <1>3
    <2> QED BY <2>1, <2>2
  <1> QED BY <1>1, <1>4, <1>8, <1>9

\* So do the snapshots of the tombstones, if the table has room.
LEMMA ReleasesRestored ==
    ASSUME NEW st, Compactable(st), NEW A, PartlyRestored(st, A, {}),
           NEW ids, ids = RetainedReleases(st),
           ids = {} \/ Cardinality(A) < MaxReservations
    PROVE  /\ Snapshot(ReleaseSnapshots(st, ids), 8 * Cardinality(ids))
           /\ ReplayFrom(Restored(st, A, {}), ReleaseSnapshots(st, ids)) = Restored(st, A, ids)
  <1>1. PICK n, order, seqs, B :
           /\ n = Cardinality(ids) /\ order = InIdOrder(ids)
           /\ seqs = [i \in 1..n |-> ReleaseSnapshot(order[i], st.released[order[i]])]
           /\ B = [i \in 0..n |-> Restored(st, A, Listed(order, i))]
    OBVIOUS
  <1>2. ids \in SUBSET Ids
    BY DEF RetainedReleases, Released
  <1>3. /\ n \in Nat /\ Listed(order, 0) = {} /\ Listed(order, n) = ids
        /\ \A i \in 1..n : /\ order[i] \in ids \ Listed(order, i - 1)
                           /\ Listed(order, i - 1) \subseteq ids
                           /\ Listed(order, i) = Listed(order, i - 1) \cup {order[i]}
    BY <1>1, <1>2, ListedSteps
  <1>4. ReleaseSnapshots(st, ids) = FlattenSeq(seqs)
    BY <1>1 DEF ReleaseSnapshots
  <1>5. ASSUME NEW i \in 1..n
        PROVE  Snapshot(seqs[i], 8) /\ ReplayFrom(B[i - 1], seqs[i]) = B[i]
    <2>1. PICK id, before : id = order[i] /\ before = Listed(order, i - 1)
      OBVIOUS
    <2>2. id \in RetainedReleases(st) \ before /\ Cardinality(A) < MaxReservations
      BY <1>3, <2>1
    <2>3. PartlyRestored(st, A, before)
      BY <1>3, <2>1 DEF PartlyRestored
    <2>4. PICK snapshot : snapshot = ReleaseSnapshot(id, st.released[id])
      OBVIOUS
    <2>5. /\ Snapshot(snapshot, 8)
          /\ ReplayFrom(Restored(st, A, before), snapshot) = Restored(st, A, before \cup {id})
      BY <2>2, <2>3, <2>4, ReleaseRestored
    <2>6. Listed(order, i) = before \cup {id}
      BY <1>3, <2>1
    <2>7. /\ seqs[i] = snapshot /\ B[i - 1] = Restored(st, A, before)
          /\ B[i] = Restored(st, A, Listed(order, i))
      BY <1>1, <1>3, <2>1, <2>4
    <2> QED BY <2>5, <2>6, <2>7
  <1>6. Relayed(seqs, n, 8, B)
    BY <1>5 DEF Relayed
  <1>7. seqs \in [1..n -> Seq(SnapshotEvent)]
    <2>1. seqs = [i \in 1..n |-> seqs[i]]
      BY <1>1
    <2> QED BY <1>5, <2>1 DEF Snapshot
  <1>8. Snapshot(FlattenSeq(seqs), 8 * n) /\ ReplayFrom(B[0], FlattenSeq(seqs)) = B[n]
    BY <1>3, <1>6, <1>7, FlattenReplays
  <1>9. B[0] = Restored(st, A, {}) /\ B[n] = Restored(st, A, ids)
    <2>1. B[0] = Restored(st, A, Listed(order, 0)) /\ B[n] = Restored(st, A, Listed(order, n))
      BY <1>1, <1>3
    <2> QED BY <1>3, <2>1
  <1> QED BY <1>1, <1>4, <1>8, <1>9

(***************************************************************************)
(* A rejected event: the verdict is final.                                 *)
(***************************************************************************)
Corrupt(st) == StateRecord(st) /\ st.verdict = "corrupt"

\* No event of a snapshot clears the verdict.
LEMMA ReservationEventsCorrupt ==
    ASSUME NEW st, Corrupt(st), NEW id, NEW draft, NEW attached
    PROVE  /\ Corrupt(ReserveIntent(st, id, draft, attached))
           /\ Corrupt(ReserveComplete(st, id))
           /\ Corrupt(PersistIntent(st, id))
           /\ Corrupt(PersistComplete(st, id))
           /\ Corrupt(CancelIntent(st, id))
           /\ Corrupt(RetireIntent(st, id))
  <1>1. Corrupt(ReserveIntent(st, id, draft, attached))
    BY DEF ReserveIntent, Guarded, Corrupt, StateRecord, StateField
  <1>2. Corrupt(ReserveComplete(st, id))
    BY DEF ReserveComplete, Guarded, Corrupt, StateRecord, StateField
  <1>3. Corrupt(PersistIntent(st, id))
    BY DEF PersistIntent, Guarded, Corrupt, StateRecord, StateField
  <1>4. Corrupt(PersistComplete(st, id))
    BY DEF PersistComplete, Guarded, Corrupt, StateRecord, StateField
  <1>5. Corrupt(CancelIntent(st, id))
    BY DEF CancelIntent, Guarded, Corrupt, StateRecord, StateField
  <1>6. Corrupt(RetireIntent(st, id))
    <2>1. PICK outcome : outcome = st.transactions[id].resolution
      OBVIOUS
    <2>2. PICK mid : mid = [st EXCEPT !.pending = id, !.reservations[id].phase = "RetirePending"]
      OBVIOUS
    <2>3. Corrupt(mid)
      BY <2>2 DEF Corrupt, StateRecord, StateField
    <2>4. Corrupt([mid EXCEPT !.reservations[id].resolution = outcome])
      BY <2>3 DEF Corrupt, StateRecord, StateField
    <2>5. [st EXCEPT !.pending = id, !.reservations[id].phase = "RetirePending",
                     !.reservations[id].resolution = outcome]
            = [mid EXCEPT !.reservations[id].resolution = outcome]
      BY <2>2
    <2> QED BY <2>1, <2>4, <2>5 DEF RetireIntent, Guarded, Corrupt, StateRecord, StateField
  <1> QED BY <1>1, <1>2, <1>3, <1>4, <1>5, <1>6

\* Nor does an event of a transaction or a rollback ...
LEMMA TransactionEventsCorrupt ==
    ASSUME NEW st, Corrupt(st), NEW id, NEW epoch, NEW outcome, NEW phase, NEW rollback
    PROVE  /\ Corrupt(TransactionWriteLeaseConsume(st, id, epoch))
           /\ Corrupt(TransactionResolveIntent(st, id, phase, outcome))
           /\ Corrupt(TransactionResolveComplete(st, id))
           /\ Corrupt(RollbackBegin(st, id, rollback))
           /\ Corrupt(RollbackWriteLeaseConsume(st, id, rollback, epoch))
           /\ Corrupt(RollbackResolveIntent(st, id, rollback, phase, outcome))
           /\ Corrupt(RollbackResolveComplete(st, id, rollback))
  <1>1. Corrupt(TransactionWriteLeaseConsume(st, id, epoch))
    BY DEF TransactionWriteLeaseConsume, Guarded, Corrupt, StateRecord, StateField
  <1>2. Corrupt(TransactionResolveIntent(st, id, phase, outcome))
    BY DEF TransactionResolveIntent, Guarded, Corrupt, StateRecord, StateField
  <1>3. Corrupt(TransactionResolveComplete(st, id))
    BY DEF TransactionResolveComplete, Guarded, Corrupt, StateRecord, StateField
  <1>4. Corrupt(RollbackBegin(st, id, rollback))
    BY DEF RollbackBegin, Guarded, Corrupt, StateRecord, StateField
  <1>5. Corrupt(RollbackWriteLeaseConsume(st, id, rollback, epoch))
    BY DEF RollbackWriteLeaseConsume, Guarded, Corrupt, StateRecord, StateField
  <1>6. Corrupt(RollbackResolveIntent(st, id, rollback, phase, outcome))
    BY DEF RollbackResolveIntent, Guarded, Corrupt, StateRecord, StateField
  <1>7. Corrupt(RollbackResolveComplete(st, id, rollback))
    BY DEF RollbackResolveComplete, Guarded, Corrupt, StateRecord, StateField
  <1> QED BY <1>1, <1>2, <1>3, <1>4, <1>5, <1>6, <1>7

\* ... or a release, or either end of the snapshot.
LEMMA CompletionEventsCorrupt ==
    ASSUME NEW st, Corrupt(st), NEW id, NEW at, NEW position, NEW generation, NEW clock,
           NEW active, NEW retained
    PROVE  /\ Corrupt(CancelComplete(st, id, at))
           /\ Corrupt(RetireComplete(st, id, at))
           /\ Corrupt(CompactionBegin(st, position, generation, clock, active, retained))
           /\ Corrupt(CompactionComplete(st, generation))
  <1>1. Corrupt(CancelComplete(st, id, at))
    BY DEF CancelComplete, Guarded, Corrupt, StateRecord, StateField
  <1>2. Corrupt(RetireComplete(st, id, at))
    BY DEF RetireComplete, Guarded, Corrupt, StateRecord, StateField
  <1>3. Corrupt(CompactionBegin(st, position, generation, clock, active, retained))
    BY DEF CompactionBegin, Guarded, Corrupt, StateRecord, StateField
  <1>4. Corrupt(CompactionComplete(st, generation))
    BY DEF CompactionComplete, Guarded, Corrupt, StateRecord, StateField
  <1> QED BY <1>1, <1>2, <1>3, <1>4

\* The verdict of a rejected journal is final.
LEMMA EventsCorrupt ==
    ASSUME NEW st, Corrupt(st), NEW e \in SnapshotEvent
    PROVE  Corrupt(ApplyEvent(st, e))
  <1>1. Corrupt(Tick(st))
    BY DEF Tick, Corrupt, StateRecord, StateField
  <1>2. e.type \in {"CompactionBegin", "CompactionComplete", "ReserveIntent", "ReserveComplete",
                    "PersistIntent", "PersistComplete", "TransactionResolveComplete",
                    "CancelIntent", "RetireIntent", "TransactionWriteLeaseConsume",
                    "TransactionResolveIntent", "RollbackBegin", "RollbackResolveComplete",
                    "RollbackWriteLeaseConsume", "RollbackResolveIntent", "CancelComplete",
                    "RetireComplete"}
    BY DEF SnapshotEvent
  <1> QED BY <1>1, <1>2, ReservationEventsCorrupt, TransactionEventsCorrupt,
             CompletionEventsCorrupt DEF ApplyEvent

\* A replay whose first event is rejected stays rejected.
LEMMA FirstRejected ==
    ASSUME NEW st, NEW s \in Seq(SnapshotEvent), Len(s) > 0, Corrupt(ApplyEvent(st, s[1]))
    PROVE  Corrupt(ReplayFrom(st, s))
  <1>1. PICK n \in Nat : n = Len(s) /\ n > 0 /\ \A i \in 1..n : s[i] \in SnapshotEvent
    OBVIOUS
  <1>2. PICK f : IsTrace(f, st, s, n) /\ ReplayFrom(st, s) = f[n]
    BY <1>1, ReplayTrace
  <1>3. f[0] = st /\ \A i \in 1..n : f[i] = ApplyEvent(f[i - 1], s[i])
    BY <1>2 DEF IsTrace
  <1> DEFINE T == {k \in 1..n : ~Corrupt(f[k])}
  <1>4. T = {}
    <2>1. SUFFICES ASSUME T # {} PROVE FALSE
      OBVIOUS
    <2>2. PICK k \in T : \A m \in T : k <= m
      <3>1. T \in SUBSET Nat
        OBVIOUS
      <3> HIDE DEF T
      <3> QED BY <2>1, <3>1, LeastNumber
    <2>3. k \in 1..n /\ f[k] = ApplyEvent(f[k - 1], s[k])
      BY <1>3
    <2>4. CASE k = 1
      BY <1>3, <2>3, <2>4
    <2>5. CASE k # 1
      <3>1. k - 1 \in 1..n /\ k - 1 \notin T
        BY <2>2, <2>3, <2>5
      <3> QED BY <1>1, <2>3, <3>1, EventsCorrupt
    <2> QED BY <2>4, <2>5
  <1>5. n \in 1..n
    BY <1>1
  <1> QED BY <1>2, <1>4, <1>5

\* So does one that goes on after a rejection.
LEMMA RejectedStays ==
    ASSUME NEW st, Corrupt(st), NEW s \in Seq(SnapshotEvent)
    PROVE  Corrupt(ReplayFrom(st, s))
  <1>1. CASE Len(s) = 0
    <2>1. s = <<>>
      BY <1>1
    <2> QED BY <2>1, ReplayNothing
  <1>2. CASE Len(s) # 0
    <2>1. Len(s) > 0 /\ s[1] \in SnapshotEvent
      BY <1>2
    <2>2. Corrupt(ApplyEvent(st, s[1]))
      BY <2>1, EventsCorrupt
    <2> QED BY <2>1, <2>2, FirstRejected
  <1> QED BY <1>1, <1>2

\* The joined sequences begin with the first of them.
LEMMA FlattenHead ==
    ASSUME NEW S, NEW n \in Nat, n > 0, NEW seqs \in [1..n -> Seq(S)], Len(seqs[1]) > 0
    PROVE  /\ FlattenSeq(seqs) \in Seq(S) /\ Len(FlattenSeq(seqs)) > 0
           /\ FlattenSeq(seqs)[1] = seqs[1][1]
  <1>1. Len(seqs) = n
    OBVIOUS
  <1> DEFINE flat == CHOOSE f : IsFlattening(f, seqs, n)
  <1>2. IsFlattening(flat, seqs, n)
    BY FlatteningExists
  <1>3. FlattenSeq(seqs) = flat[n]
    BY <1>1 DEF FlattenSeq, IsFlattening
  <1> DEFINE Headed(k) == /\ flat[k] \in Seq(S) /\ Len(flat[k]) > 0
                          /\ flat[k][1] = seqs[1][1]
             T == {k \in 1..n : ~Headed(k)}
  <1> HIDE DEF flat
  <1>4. T = {}
    <2>1. SUFFICES ASSUME T # {} PROVE FALSE
      OBVIOUS
    <2>2. PICK k \in T : \A m \in T : k <= m
      <3>1. T \in SUBSET Nat
        OBVIOUS
      <3> HIDE DEF T
      <3> QED BY <2>1, <3>1, LeastNumber
    <2>3. k \in 1..n /\ flat[k] = IF k = 1 THEN seqs[k] ELSE flat[k - 1] \o seqs[k]
      BY <1>2 DEF IsFlattening
    <2>4. CASE k = 1
      BY <2>3, <2>4
    <2>5. CASE k # 1
      <3>1. k - 1 \in 1..n /\ k - 1 \notin T
        <4> HIDE DEF T
        <4>1. k - 1 \in 1..n /\ ~(k <= k - 1)
          BY <2>3, <2>5
        <4> QED BY <2>2, <4>1
      <3>2. PICK s, t : s = flat[k - 1] /\ t = seqs[k]
        OBVIOUS
      <3>3. s \in Seq(S) /\ Len(s) > 0 /\ s[1] = seqs[1][1] /\ t \in Seq(S)
        BY <2>3, <3>1, <3>2
      <3>4. s \o t \in Seq(S) /\ Len(s \o t) > 0 /\ (s \o t)[1] = s[1]
        BY <3>3, ConcatHead
      <3> QED BY <2>3, <2>5, <3>2, <3>3, <3>4
    <2> QED BY <2>4, <2>5
  <1>5. n \in 1..n
    OBVIOUS
  <1>6. Headed(n)
    <2> HIDE DEF Headed
    <2> QED BY <1>4, <1>5
  <1> QED BY <1>3, <1>6, Zenon

\* A full table rejects the first tombstone of a snapshot.
LEMMA ReleasesRejected ==
    ASSUME NEW st, Compactable(st), NEW A, PartlyRestored(st, A, {}),
           NEW ids, ids = RetainedReleases(st), ids # {},
           ~(Cardinality(A) < MaxReservations)
    PROVE  /\ ReleaseSnapshots(st, ids) \in Seq(SnapshotEvent)
           /\ Corrupt(ReplayFrom(Restored(st, A, {}), ReleaseSnapshots(st, ids)))
  <1>1. PICK n, order, seqs :
           /\ n = Cardinality(ids) /\ order = InIdOrder(ids)
           /\ seqs = [i \in 1..n |-> ReleaseSnapshot(order[i], st.released[order[i]])]
    OBVIOUS
  <1>2. ids \in SUBSET Ids /\ IsFiniteSet(ids)
    <2>1. ids \in SUBSET Ids
      BY DEF RetainedReleases, Released
    <2> QED BY <2>1, FS_Subset, IdAssumption
  <1>3. n \in Nat /\ order \in [1..n -> ids] /\ n > 0
    <2>1. n \in Nat /\ order \in [1..n -> ids]
      BY <1>1, <1>2, OrderLists
    <2>2. n # 0
      BY <1>1, <1>2, FS_EmptySet
    <2> QED BY <2>1, <2>2
  <1>4. ReleaseSnapshots(st, ids) = FlattenSeq(seqs)
    BY <1>1 DEF ReleaseSnapshots
  <1>5. ASSUME NEW i \in 1..n
        PROVE  Opens(seqs[i], order[i], st.released[order[i]].record)
    <2>1. PICK id, snapshot : id = order[i] /\ snapshot = ReleaseSnapshot(id, st.released[id])
      OBVIOUS
    <2>2. id \in RetainedReleases(st) \ {}
      BY <1>3, <2>1
    <2>3. PartlyRestored(st, {}, {}) /\ Cardinality({}) < MaxReservations
      BY FS_EmptySet, LimitAssumption DEF PartlyRestored
    <2>4. Opens(snapshot, id, st.released[id].record)
      BY <2>1, <2>2, <2>3, ReleaseRestored
    <2> QED BY <1>1, <2>1, <2>4
  <1>6. seqs \in [1..n -> Seq(SnapshotEvent)] /\ 1 \in 1..n
    <2>1. seqs = [i \in 1..n |-> seqs[i]]
      BY <1>1
    <2>2. \A i \in 1..n : seqs[i] \in Seq(SnapshotEvent)
      BY <1>5 DEF Opens
    <2>3. 1 \in 1..n
      BY <1>3
    <2> QED BY <2>1, <2>2, <2>3
  <1>7. PICK id, record, head : id = order[1] /\ record = st.released[id].record
                                /\ head = seqs[1]
    OBVIOUS
  <1>8. Opens(head, id, record)
    BY <1>5, <1>6, <1>7
  <1>9. Len(seqs[1]) > 0
    BY <1>7, <1>8 DEF Opens
  <1>10. PICK all : all = FlattenSeq(seqs)
    OBVIOUS
  <1>11. all \in Seq(SnapshotEvent) /\ Len(all) > 0 /\ all[1] = head[1]
    BY <1>3, <1>6, <1>7, <1>9, <1>10, FlattenHead
  <1>12. PICK base : base = Restored(st, A, {})
    OBVIOUS
  <1>13. /\ id \in Ids /\ Restoring(base) /\ Free(base, id)
         /\ ~(Cardinality(Active(base)) < MaxReservations) /\ StateRecord(base)
    <2>1. id \in RetainedReleases(st) /\ id \in Ids
      BY <1>2, <1>3, <1>6, <1>7
    <2>2. id \in (Active(st) \cup RetainedReleases(st)) \ (A \cup {})
      BY <2>1, CompactableRecords DEF PartlyRestored
    <2>3. Restoring(base) /\ Active(base) = A /\ Free(base, id)
      BY <1>12, <2>2, RestoredBase
    <2> QED BY <2>1, <2>3 DEF Free
  <1>14. Corrupt(ApplyEvent(base, head[1]))
    <2>1. head[1] = [type |-> "ReserveIntent", id |-> id, draft |-> record.draft,
                     parent |-> record.parent]
      BY <1>8 DEF Opens
    <2>2. ApplyEvent(base, head[1]) = [base EXCEPT !.verdict = "corrupt"]
      BY <1>13, <2>1, ReserveIntentRejected
    <2>3. Corrupt([base EXCEPT !.verdict = "corrupt"])
      BY <1>13 DEF Corrupt, StateRecord, StateField
    <2> QED BY <2>2, <2>3
  <1>15. Corrupt(ReplayFrom(base, all))
    BY <1>11, <1>14, FirstRejected
  <1> QED BY <1>4, <1>10, <1>11, <1>12, <1>15

\* retained_release_tombstones keeps at most MaxRetained tombstones: each has a rank
\* of its own among the newer ones.
LEMMA RetainedBound ==
    ASSUME NEW st, st.released \in [Ids -> ReleaseTombstone]
    PROVE  Cardinality(RetainedReleases(st)) <= MaxRetained
  <1> DEFINE W == {id \in Released(st) : InWindow(st, id)}
             Newer(id) == {other \in W : OlderRelease(st, id, other)}
             rank == [id \in RetainedReleases(st) |-> Cardinality(Newer(id))]
  <1>1. /\ W \subseteq Ids /\ RetainedReleases(st) \subseteq W
        /\ \A id \in W : id \in Nat /\ st.released[id].at \in Nat
    BY IdAssumption DEF Released, RetainedReleases, ReleaseTombstone
  <1>2. IsFiniteSet(W) /\ \A id : IsFiniteSet(Newer(id)) /\ Cardinality(Newer(id)) \in Nat
    <2>1. IsFiniteSet(W)
      BY <1>1, FS_Subset, IdAssumption
    <2>2. \A id : Newer(id) \subseteq W
      OBVIOUS
    <2> HIDE DEF W, Newer
    <2> QED BY <2>1, <2>2, FS_Subset, FS_CardinalityType
  <1>3. \A id \in RetainedReleases(st) : rank[id] \in 0..(MaxRetained - 1)
    <2>1. \A id \in RetainedReleases(st) : Cardinality(Newer(id)) < MaxRetained
      BY DEF RetainedReleases
    <2> HIDE DEF Newer
    <2> QED BY <1>2, <2>1, LimitAssumption
  <1>4. ASSUME NEW a \in W, NEW b \in W, OlderRelease(st, a, b)
        PROVE  Cardinality(Newer(b)) < Cardinality(Newer(a))
    <2>1. Newer(b) \subseteq Newer(a) /\ b \in Newer(a) /\ b \notin Newer(b)
      BY <1>1, <1>4 DEF OlderRelease
    <2>2. /\ Cardinality(Newer(b)) <= Cardinality(Newer(a))
          /\ Cardinality(Newer(a)) = Cardinality(Newer(b)) => Newer(a) = Newer(b)
      <3> HIDE DEF Newer
      <3> QED BY <1>2, <2>1, FS_Subset
    <2> HIDE DEF Newer
    <2> QED BY <1>2, <2>1, <2>2
  <1>5. ASSUME NEW a \in RetainedReleases(st), NEW b \in RetainedReleases(st), rank[a] = rank[b]
        PROVE  a = b
    <2>1. a \in W /\ b \in W
      BY <1>1
    <2>2. a = b \/ OlderRelease(st, a, b) \/ OlderRelease(st, b, a)
      BY <1>1, <2>1 DEF OlderRelease
    <2>3. rank[a] = Cardinality(Newer(a)) /\ rank[b] = Cardinality(Newer(b))
      OBVIOUS
    <2>4. OlderRelease(st, a, b) => Cardinality(Newer(b)) < Cardinality(Newer(a))
      BY <1>4, <2>1
    <2>5. OlderRelease(st, b, a) => Cardinality(Newer(a)) < Cardinality(Newer(b))
      BY <1>4, <2>1
    <2>6. /\ Cardinality(Newer(a)) = Cardinality(Newer(b))
          /\ Cardinality(Newer(a)) \in Nat /\ Cardinality(Newer(b)) \in Nat
      <3> HIDE DEF Newer, rank
      <3> QED BY <1>2, <1>5, <2>3
    <2> HIDE DEF Newer
    <2> QED BY <2>2, <2>4, <2>5, <2>6
  <1>6. rank \in Injection(RetainedReleases(st), 0..(MaxRetained - 1))
    <2>1. rank \in [RetainedReleases(st) -> 0..(MaxRetained - 1)]
      <3>1. rank = [id \in RetainedReleases(st) |-> rank[id]]
        OBVIOUS
      <3> HIDE DEF rank
      <3> QED BY <1>3, <3>1
    <2>2. DOMAIN rank = RetainedReleases(st)
      OBVIOUS
    <2> HIDE DEF rank
    <2> QED BY <1>5, <2>1, <2>2 DEF Injection, IsInjective
  <1>7. IsFiniteSet(0..(MaxRetained - 1)) /\ Cardinality(0..(MaxRetained - 1)) = MaxRetained
    <2>1. PICK m : m = MaxRetained - 1
      OBVIOUS
    <2>2. m \in Int /\ 0 \in Int /\ MaxRetained \in Nat
      BY <2>1, LimitAssumption
    <2>3. IsFiniteSet(0..m) /\ Cardinality(0..m) = IF 0 > m THEN 0 ELSE m - 0 + 1
      BY <2>2, FS_Interval
    <2> QED BY <2>1, <2>2, <2>3
  <1> HIDE DEF rank
  <1> QED BY <1>6, <1>7, FS_Injection

\* append_compaction_begin starts from an empty store.
LEMMA CompactionBegins ==
    ASSUME NEW st, Compactable(st), NEW e,
           e = [type |-> "CompactionBegin", position |-> 1, generation |-> st.generation + 1,
                clock |-> st.clock, active |-> Cardinality(Active(st)),
                retained |-> Cardinality(RetainedReleases(st))]
    PROVE  e \in SnapshotEvent /\ ApplyEvent(EmptyState, e) = Restored(st, {}, {})
  <1>1. PICK a, r : a = Cardinality(Active(st)) /\ r = Cardinality(RetainedReleases(st))
    OBVIOUS
  <1>2. a \in Nat /\ r \in Nat /\ a <= MaxReservations /\ r <= MaxRetained
    <2>1. Active(st) \in SUBSET Ids /\ RetainedReleases(st) \in SUBSET Ids
      BY DEF Active, RetainedReleases, Released
    <2>2. a \in Nat /\ r \in Nat
      BY <1>1, <2>1, FS_Subset, FS_CardinalityType, IdAssumption
    <2> QED BY <1>1, <2>2 DEF Compactable
  <1>3. st.clock \in Nat /\ st.generation \in Nat
    BY CompactableRecords
  <1>4. e = [type |-> "CompactionBegin", position |-> 1, generation |-> st.generation + 1,
             clock |-> st.clock, active |-> a, retained |-> r]
    BY <1>1
  <1>5. e \in SnapshotEvent
    BY <1>2, <1>3, <1>4 DEF SnapshotEvent
  <1>6. ApplyEvent(EmptyState, e)
          = CompactionBegin(EmptyState, 1, st.generation + 1, st.clock, a, r)
    BY <1>4 DEF ApplyEvent
  <1>7. PICK new, goal : /\ new = [EmptyState EXCEPT !.clock = st.clock,
                                                     !.generation = st.generation + 1,
                                                     !.restoring = <<a, r>>]
                         /\ goal = Restored(st, {}, {})
    OBVIOUS
  <1>8. ApplyEvent(EmptyState, e) = new
    BY <1>2, <1>3, <1>6, <1>7 DEF CompactionBegin, Guarded
  <1>9. /\ StateRecord(new) /\ new.reservations = [id \in Ids |-> NoReservation]
        /\ new.released = [id \in Ids |-> NoRelease] /\ new.seen = {} /\ new.pending = NoId
        /\ new.transactions = [id \in Ids |-> NoTransaction]
        /\ new.openTransaction = NoId /\ new.openRollback = NoId /\ new.clock = st.clock
        /\ new.generation = st.generation + 1 /\ new.restoring = <<a, r>> /\ new.verdict = "ok"
    BY <1>7 DEF EmptyState, StateRecord, StateField
  <1>10. /\ StateRecord(goal) /\ goal.reservations = [id \in Ids |-> NoReservation]
         /\ goal.released = [id \in Ids |-> NoRelease] /\ goal.seen = {} /\ goal.pending = NoId
         /\ goal.transactions = [id \in Ids |-> NoTransaction]
         /\ goal.openTransaction = NoId /\ goal.openRollback = NoId /\ goal.clock = st.clock
         /\ goal.generation = st.generation + 1 /\ goal.restoring = <<a, r>>
         /\ goal.verdict = "ok"
    BY <1>1, <1>7 DEF Restored, StateRecord, StateField
  <1>11. new = goal
    BY <1>9, <1>10, SameState
  <1> QED BY <1>5, <1>7, <1>8, <1>11

\* A store without an operation in progress is consistent.
LEMMA QuietConsistent ==
    ASSUME NEW st, Compactable(st)
    PROVE  TransactionsConsistent(st)
  <1>1. st.openTransaction \in Ids \cup {NoId} /\ st.openRollback \in Ids \cup {NoId}
    BY DEF Compactable, JournalInv, RecoveredState
  <1>2. ASSUME NEW id \in Ids
        PROVE  LET tx == st.transactions[id] IN
               /\ st.reservations[id].phase \in {"Absent", "Reserved", "Durable"}
               /\ st.reservations[id].phase = "Durable" <=> tx.resolution # "Absent"
               /\ tx.pending = "None"
               /\ tx.rollback.id # NoId =>
                     tx.resolution = "CommittedAfter" /\ tx.rollback.pending = "None"
               /\ st.openTransaction = id <=> tx.resolution \in {"None", "Manual"}
               /\ st.openRollback = id <=> tx.rollback.resolution \in {"None", "Manual"}
    <2>1. RecordInv(id, st.reservations[id], st.transactions[id], NoId,
                    st.openTransaction, st.openRollback)
      BY DEF Compactable, JournalInv
    <2>2. id # NoId
      BY IdAssumption DEF NoId
    <2> QED BY <2>1, <2>2 DEF RecordInv, PendingInv, TransactionInv
  <1>3. OpenTransactions(st) = SingletonOf(st.openTransaction)
    <2>1. \A id \in Ids : st.openTransaction = id <=> id \in OpenTransactions(st)
      BY <1>2 DEF OpenTransactions
    <2>2. OpenTransactions(st) \subseteq Ids /\ NoId \notin Ids
      BY IdAssumption DEF OpenTransactions, NoId
    <2> QED BY <1>1, <2>1, <2>2 DEF SingletonOf
  <1>4. OpenRollbacks(st) = SingletonOf(st.openRollback)
    <2>1. \A id \in Ids : st.openRollback = id <=> id \in OpenRollbacks(st)
      BY <1>2 DEF OpenRollbacks
    <2>2. OpenRollbacks(st) \subseteq Ids /\ NoId \notin Ids
      BY IdAssumption DEF OpenRollbacks, NoId
    <2> QED BY <1>1, <2>1, <2>2 DEF SingletonOf
  <1>5. st.openTransaction = NoId \/ st.openRollback = NoId
    BY DEF Compactable, JournalInv
  <1> QED BY <1>2, <1>3, <1>4, <1>5 DEF TransactionsConsistent, WithTransaction

\* At most one identifier is unresolved.
LEMMA UnresolvedAlone ==
    ASSUME NEW st, Compactable(st)
    PROVE  IsFiniteSet(UnresolvedIds(st)) /\ Cardinality(UnresolvedIds(st)) <= 1
  <1>1. /\ OpenTransactions(st) = SingletonOf(st.openTransaction)
        /\ OpenRollbacks(st) = SingletonOf(st.openRollback)
        /\ st.openTransaction = NoId \/ st.openRollback = NoId
    BY QuietConsistent DEF TransactionsConsistent
  <1>2. UnresolvedIds(st) = {} \/ \E id : UnresolvedIds(st) = {id}
    BY <1>1 DEF UnresolvedIds, SingletonOf
  <1>3. CASE UnresolvedIds(st) = {}
    BY <1>3, FS_EmptySet
  <1>4. ASSUME NEW id, UnresolvedIds(st) = {id}
        PROVE  IsFiniteSet(UnresolvedIds(st)) /\ Cardinality(UnresolvedIds(st)) <= 1
    <2>1. IsFiniteSet({id}) /\ Cardinality({id}) = 1
      BY FS_Singleton
    <2> QED BY <1>4, <2>1
  <1> QED BY <1>2, <1>3, <1>4

\* Everything is back: the records are those of the compacted store.
LEMMA AllRestored ==
    ASSUME NEW st, Compactable(st), NEW full,
           full = Restored(st, Active(st), RetainedReleases(st))
    PROVE  /\ full.reservations = st.reservations /\ full.transactions = st.transactions
           /\ full.openTransaction = st.openTransaction /\ full.openRollback = st.openRollback
           /\ Active(full) = Active(st) /\ Released(full) = RetainedReleases(st)
           /\ TransactionsConsistent(full)
  <1>1. /\ st.reservations \in [Ids -> ReservationRecord]
        /\ st.transactions \in [Ids -> TransactionRecord]
        /\ RetainedReleases(st) \subseteq Released(st)
        /\ UnresolvedIds(st) \subseteq Active(st)
        /\ \A id \in Ids : id = st.openTransaction \/ id = st.openRollback
                             <=> id \in UnresolvedIds(st)
    BY CompactableRecords
  <1>2. ASSUME NEW id \in Ids, id \notin Active(st)
        PROVE  st.reservations[id] = NoReservation /\ st.transactions[id] = NoTransaction
    <2>1. TransactionShape(st.transactions[id]) /\ ReservationShape(st.reservations[id])
      BY DEF Compactable
    <2>2. TransactionInv(id, st.reservations[id], st.transactions[id], st.openTransaction,
                         st.openRollback)
      BY DEF Compactable, JournalInv, RecordInv
    <2>3. st.reservations[id].phase = "Absent"
      BY <1>2 DEF Active
    <2> QED BY <2>1, <2>2, <2>3 DEF TransactionShape, ReservationShape, TransactionInv
  <1>3. full.reservations = st.reservations
    <2>1. full.reservations = [id \in Ids |-> IF id \in Active(st) THEN st.reservations[id]
                                                                  ELSE NoReservation]
      BY DEF Restored
    <2> QED BY <1>1, <1>2, <2>1
  <1>4. full.transactions = st.transactions
    <2>1. full.transactions = [id \in Ids |-> IF id \in Active(st) THEN st.transactions[id]
                                                                  ELSE NoTransaction]
      BY DEF Restored
    <2> QED BY <1>1, <1>2, <2>1
  <1>5. full.openTransaction = st.openTransaction /\ full.openRollback = st.openRollback
    <2>1. /\ full.openTransaction = (IF st.openTransaction \in Active(st)
                                     THEN st.openTransaction ELSE NoId)
          /\ full.openRollback = (IF st.openRollback \in Active(st)
                                  THEN st.openRollback ELSE NoId)
      BY DEF Restored
    <2>2. st.openTransaction \in Ids \cup {NoId} /\ st.openRollback \in Ids \cup {NoId}
      BY DEF Compactable, JournalInv, RecoveredState
    <2>3. /\ st.openTransaction \in Active(st) \/ st.openTransaction = NoId
          /\ st.openRollback \in Active(st) \/ st.openRollback = NoId
      BY <1>1, <2>2
    <2> QED BY <2>1, <2>3
  <1>6. Active(full) = Active(st)
    BY <1>3 DEF Active
  <1>7. Released(full) = RetainedReleases(st)
    <2>1. full.released = [id \in Ids |-> IF id \in RetainedReleases(st) THEN st.released[id]
                                                                        ELSE NoRelease]
      BY DEF Restored
    <2>2. NoRelease.operation = "None"
      BY DEF NoRelease
    <2>3. \A id \in Ids : full.released[id].operation # "None" <=> id \in RetainedReleases(st)
      BY <1>1, <2>1, <2>2 DEF Released
    <2> QED BY <1>1, <2>3 DEF Released
  <1>8. TransactionsConsistent(full)
    <2>1. TransactionsConsistent(st)
      BY QuietConsistent
    <2> QED BY <1>3, <1>4, <1>5, <2>1
            DEF TransactionsConsistent, OpenTransactions, OpenRollbacks, WithTransaction
  <1> QED BY <1>3, <1>4, <1>5, <1>6, <1>7, <1>8

\* The last event of a snapshot accepts it: validate_compacted_state.
LEMMA CompactionCompletes ==
    ASSUME NEW st, Compactable(st), NEW full,
           full = Restored(st, Active(st), RetainedReleases(st)),
           NEW e, e = [type |-> "CompactionComplete", generation |-> st.generation + 1]
    PROVE  ApplyEvent(full, e) = CompactedState(st)
  <1>1. PICK a, r : a = Cardinality(Active(st)) /\ r = Cardinality(RetainedReleases(st))
    OBVIOUS
  <1>2. Cardinality(Active(st) \cup RetainedReleases(st)) = a + r
    <2>1. Active(st) \in SUBSET Ids /\ RetainedReleases(st) \in SUBSET Ids
      BY DEF Active, RetainedReleases, Released
    <2>2. IsFiniteSet(Active(st)) /\ IsFiniteSet(RetainedReleases(st)) /\ a \in Nat /\ r \in Nat
      BY <1>1, <2>1, FS_Subset, FS_CardinalityType, IdAssumption
    <2>3. Active(st) \cap RetainedReleases(st) = {}
      BY CompactableRecords
    <2>4. PICK A, R : A = Active(st) /\ R = RetainedReleases(st)
      OBVIOUS
    <2>5. Cardinality(A \cup R) = Cardinality(A) + Cardinality(R) - Cardinality(A \cap R)
      BY <2>2, <2>4, FS_Union
    <2>6. Cardinality(A \cap R) = 0
      BY <2>3, <2>4, FS_EmptySet
    <2> QED BY <1>1, <2>2, <2>4, <2>5, <2>6
  <1>3. /\ full.reservations = st.reservations /\ full.transactions = st.transactions
        /\ full.openTransaction = st.openTransaction /\ full.openRollback = st.openRollback
        /\ Active(full) = Active(st) /\ Released(full) = RetainedReleases(st)
        /\ TransactionsConsistent(full)
    BY AllRestored
  <1>4. /\ StateRecord(full) /\ full.seen = Active(st) \cup RetainedReleases(st)
        /\ full.pending = NoId /\ full.clock = st.clock /\ full.generation = st.generation + 1
        /\ full.restoring = <<a, r>> /\ full.verdict = "ok"
        /\ full.released = [id \in Ids |-> IF id \in RetainedReleases(st) THEN st.released[id]
                                                                         ELSE NoRelease]
    BY <1>1 DEF Restored, StateRecord, StateField
  <1>5. ApplyEvent(full, e) = CompactionComplete(full, st.generation + 1)
    BY DEF ApplyEvent
  <1>6. /\ full.restoring # <<>> /\ full.restoring[1] = a /\ full.restoring[2] = r
    BY <1>4
  <1>7. PICK new : new = [full EXCEPT !.restoring = <<>>]
    OBVIOUS
  <1>8. CompactionComplete(full, st.generation + 1) = new
    BY <1>1, <1>2, <1>3, <1>4, <1>6, <1>7 DEF CompactionComplete, Guarded
  <1>9. PICK goal : goal = CompactedState(st)
    OBVIOUS
  <1>10. st \in RecoveredState /\ st.verdict = "ok" /\ st.pending = NoId
    BY DEF Compactable, JournalInv
  <1>11. /\ StateRecord(st) /\ st.restoring = <<>> /\ st.released \in [Ids -> ReleaseTombstone]
    BY <1>10 DEF RecoveredState, StateRecord, StateField
  <1>12. PICK kept : kept = [id \in Ids |-> IF id \in RetainedReleases(st) THEN st.released[id]
                                                                          ELSE NoRelease]
    OBVIOUS
  <1>13. goal = [st EXCEPT !.released = kept, !.seen = Active(st) \cup RetainedReleases(st),
                           !.generation = @ + 1]
    BY <1>9, <1>12 DEF CompactedState
  <1>14. /\ StateRecord(goal) /\ goal.reservations = st.reservations
         /\ goal.released = kept /\ goal.seen = Active(st) \cup RetainedReleases(st)
         /\ goal.pending = NoId /\ goal.transactions = st.transactions
         /\ goal.openTransaction = st.openTransaction /\ goal.openRollback = st.openRollback
         /\ goal.clock = st.clock /\ goal.generation = st.generation + 1
         /\ goal.restoring = <<>> /\ goal.verdict = "ok"
    BY <1>10, <1>11, <1>13 DEF StateRecord, StateField
  <1>15. /\ StateRecord(new) /\ new.reservations = st.reservations
         /\ new.released = kept /\ new.seen = Active(st) \cup RetainedReleases(st)
         /\ new.pending = NoId /\ new.transactions = st.transactions
         /\ new.openTransaction = st.openTransaction /\ new.openRollback = st.openRollback
         /\ new.clock = st.clock /\ new.generation = st.generation + 1
         /\ new.restoring = <<>> /\ new.verdict = "ok"
    BY <1>3, <1>4, <1>7, <1>12 DEF StateRecord, StateField
  <1>16. new = goal
    BY <1>14, <1>15, SameState
  <1> QED BY <1>5, <1>8, <1>9, <1>16

\* The parts of compaction_events, and where the tombstones find the replay.
LEMMA CompactionParts ==
    ASSUME NEW st, Compactable(st), NEW settled, settled = Active(st) \ UnresolvedIds(st)
    PROVE  \E releases, open, last :
              /\ releases = ReleaseSnapshots(st, RetainedReleases(st))
              /\ open = ReservationSnapshots(st, UnresolvedIds(st))
              /\ last = << [type |-> "CompactionComplete", generation |-> st.generation + 1] >>
              /\ releases \in Seq(SnapshotEvent) /\ open \in Seq(SnapshotEvent)
              /\ last \in Seq(SnapshotEvent)
              /\ Len(CompactionEvents(st)) \in 0..(CompactionTrigger - 1)
              /\ Replay(CompactionEvents(st))
                   = ReplayFrom(ReplayFrom(ReplayFrom(Restored(st, settled, {}), releases),
                                           open), last)
  <1>1. PICK unresolved, kept, e, f :
           /\ unresolved = UnresolvedIds(st) /\ kept = RetainedReleases(st)
           /\ e = [type |-> "CompactionBegin", position |-> 1, generation |-> st.generation + 1,
                   clock |-> st.clock, active |-> Cardinality(Active(st)),
                   retained |-> Cardinality(kept)]
           /\ f = [type |-> "CompactionComplete", generation |-> st.generation + 1]
    OBVIOUS
  <1>2. PICK begin, first, releases, open, last :
           /\ begin = <<e>> /\ first = ReservationSnapshots(st, settled)
           /\ releases = ReleaseSnapshots(st, kept)
           /\ open = ReservationSnapshots(st, unresolved) /\ last = <<f>>
    OBVIOUS
  <1>3. CompactionEvents(st) = (((begin \o first) \o releases) \o open) \o last
    BY <1>1, <1>2 DEF CompactionEvents
  <1>4. PICK a, r, u : a = Cardinality(settled) /\ r = Cardinality(kept)
                       /\ u = Cardinality(unresolved)
    OBVIOUS
  <1>5. /\ a \in Nat /\ r \in Nat /\ u \in Nat /\ u <= 1
        /\ a + u <= MaxReservations /\ r <= MaxRetained
    <2>1. /\ Active(st) \in SUBSET Ids /\ kept \in SUBSET Ids /\ unresolved \in SUBSET Active(st)
      BY <1>1, CompactableRecords DEF Active, RetainedReleases, Released
    <2>2. PICK all : all = Active(st)
      OBVIOUS
    <2>3. IsFiniteSet(all) /\ IsFiniteSet(kept) /\ IsFiniteSet(unresolved)
      BY <2>1, <2>2, FS_Subset, IdAssumption
    <2>4. r \in Nat /\ u \in Nat /\ Cardinality(all) \in Nat
      BY <1>4, <2>3, FS_CardinalityType
    <2>5. IsFiniteSet(all \ unresolved)
          /\ Cardinality(all \ unresolved) = Cardinality(all) - Cardinality(all \cap unresolved)
      BY <2>3, FS_Difference
    <2>6. all \cap unresolved = unresolved /\ all \ unresolved = settled
      BY <1>1, <2>1, <2>2
    <2>7. a = Cardinality(all) - u /\ a \in Nat
      BY <1>4, <2>5, <2>6, FS_CardinalityType
    <2>8. u <= 1
      BY <1>1, <1>4, UnresolvedAlone
    <2>9. Cardinality(all) <= MaxReservations /\ r <= MaxRetained
      BY <1>1, <1>4, <2>2 DEF Compactable
    <2> QED BY <2>4, <2>7, <2>8, <2>9, LimitAssumption
  <1>6. PartlyRestored(st, {}, {})
    BY DEF PartlyRestored
  <1>7. e \in SnapshotEvent /\ ApplyEvent(EmptyState, e) = Restored(st, {}, {})
    BY <1>1, CompactionBegins
  <1>8. f \in SnapshotEvent
    <2>1. st.generation \in Nat
      BY CompactableRecords
    <2> QED BY <1>1, <2>1 DEF SnapshotEvent
  <1>9. Snapshot(begin, 1) /\ Snapshot(last, 1)
    BY <1>2, <1>7, <1>8 DEF Snapshot
  <1>10. /\ Snapshot(first, 11 * a)
         /\ ReplayFrom(Restored(st, {}, {}), first) = Restored(st, settled, {})
    <2>1. settled \in SUBSET (Active(st) \ {}) /\ settled \cap UnresolvedIds(st) = {}
          /\ {} \cup settled = settled
      OBVIOUS
    <2> QED BY <1>2, <1>4, <1>6, <2>1, ReservationsRestored
  <1>11. Snapshot(open, 11 * u)
    <2>1. unresolved \in SUBSET (Active(st) \ {}) /\ Cardinality(unresolved) <= 1
      BY <1>1, <1>4, <1>5, CompactableRecords
    <2> QED BY <1>2, <1>4, <1>6, <2>1, ReservationsRestored
  <1>12. Snapshot(releases, 8 * r)
    <2>1. Cardinality({}) < MaxReservations
      BY FS_EmptySet, LimitAssumption
    <2> QED BY <1>1, <1>2, <1>4, <1>6, <2>1, ReleasesRestored
  <1>13. PICK s1, s2, s3, s4, s5 :
            /\ s1 = ReplayFrom(EmptyState, begin) /\ s2 = ReplayFrom(s1, first)
            /\ s3 = ReplayFrom(s2, releases) /\ s4 = ReplayFrom(s3, open)
            /\ s5 = ReplayFrom(s4, last)
    OBVIOUS
  <1>14. s1 = Restored(st, {}, {}) /\ s2 = Restored(st, settled, {})
    <2>1. s1 = Restored(st, {}, {})
      BY <1>2, <1>7, <1>13, ReplayOne
    <2> QED BY <1>10, <1>13, <2>1
  <1>15. PICK n1, m3, m4, n2, n3, n4, n5 :
            /\ n1 = 11 * a /\ m3 = 8 * r /\ m4 = 11 * u
            /\ n2 = 1 + n1 /\ n3 = n2 + m3 /\ n4 = n3 + m4 /\ n5 = n4 + 1
    OBVIOUS
  <1>16. /\ n1 \in Nat /\ m3 \in Nat /\ m4 \in Nat
         /\ n2 \in Nat /\ n3 \in Nat /\ n4 \in Nat /\ n5 \in Nat
         /\ 1 + n1 <= n2 /\ n2 + m3 <= n3 /\ n3 + m4 <= n4 /\ n4 + 1 <= n5
         /\ n5 < CompactionTrigger
    BY <1>5, <1>15, LimitAssumption, TriggerAssumption
  <1>17. Snapshot(first, n1) /\ Snapshot(releases, m3) /\ Snapshot(open, m4)
    BY <1>10, <1>11, <1>12, <1>15
  <1>18. PICK t2, t3, t4, t5 : /\ t2 = begin \o first /\ t3 = t2 \o releases
                               /\ t4 = t3 \o open /\ t5 = t4 \o last
    OBVIOUS
  <1>19. Snapshot(t2, n2) /\ ReplayFrom(EmptyState, t2) = s2
    BY <1>9, <1>13, <1>16, <1>18, <1>17, SnapshotPair
  <1>20. Snapshot(t3, n3) /\ ReplayFrom(EmptyState, t3) = s3
    BY <1>13, <1>16, <1>18, <1>19, <1>17, SnapshotPair
  <1>21. Snapshot(t4, n4) /\ ReplayFrom(EmptyState, t4) = s4
    BY <1>13, <1>16, <1>18, <1>20, <1>17, SnapshotPair
  <1>22. Snapshot(t5, n5) /\ ReplayFrom(EmptyState, t5) = s5
    BY <1>9, <1>13, <1>16, <1>18, <1>21, SnapshotPair
  <1>23. Len(t5) \in 0..(CompactionTrigger - 1)
    BY <1>16, <1>22, TriggerAssumption DEF Snapshot
  <1>24. CompactionEvents(st) = t5
    BY <1>3, <1>18
  <1>25. /\ releases \in Seq(SnapshotEvent) /\ open \in Seq(SnapshotEvent)
         /\ last \in Seq(SnapshotEvent)
    BY <1>9, <1>11, <1>12 DEF Snapshot
  <1>26. Replay(CompactionEvents(st))
           = ReplayFrom(ReplayFrom(ReplayFrom(Restored(st, settled, {}), releases), open), last)
    BY <1>13, <1>14, <1>22, <1>24 DEF Replay
  <1> QED BY <1>1, <1>2, <1>23, <1>24, <1>25, <1>26

\* compact_journal succeeds exactly when the tombstones fit beside the settled
\* reservations.
LEMMA CompactionExactly ==
    ASSUME NEW st, Compactable(st)
    PROVE  CompactionValid(st) <=> TombstonesFit(st)
  <1>1. PICK settled, unresolved, kept : /\ settled = Active(st) \ UnresolvedIds(st)
                                         /\ unresolved = UnresolvedIds(st)
                                         /\ kept = RetainedReleases(st)
    OBVIOUS
  <1>2. PICK releases, open, last :
           /\ releases = ReleaseSnapshots(st, kept)
           /\ open = ReservationSnapshots(st, unresolved)
           /\ last = << [type |-> "CompactionComplete", generation |-> st.generation + 1] >>
           /\ releases \in Seq(SnapshotEvent) /\ open \in Seq(SnapshotEvent)
           /\ last \in Seq(SnapshotEvent)
           /\ Len(CompactionEvents(st)) \in 0..(CompactionTrigger - 1)
           /\ Replay(CompactionEvents(st))
                = ReplayFrom(ReplayFrom(ReplayFrom(Restored(st, settled, {}), releases),
                                        open), last)
    BY <1>1, CompactionParts
  <1>3. PICK s2, s3, s4, s5 : /\ s2 = Restored(st, settled, {}) /\ s3 = ReplayFrom(s2, releases)
                              /\ s4 = ReplayFrom(s3, open) /\ s5 = ReplayFrom(s4, last)
    OBVIOUS
  <1>4. CompactionValid(st) <=> s5 = CompactedState(st)
    BY <1>2, <1>3 DEF CompactionValid
  <1>5. PartlyRestored(st, settled, {})
    BY <1>1 DEF PartlyRestored
  <1>6. TombstonesFit(st) <=> kept = {} \/ Cardinality(settled) < MaxReservations
    BY <1>1 DEF TombstonesFit
  <1>7. CASE kept = {} \/ Cardinality(settled) < MaxReservations
    <2>1. s3 = Restored(st, settled, kept)
      BY <1>1, <1>2, <1>3, <1>5, <1>7, ReleasesRestored
    <2>2. /\ PartlyRestored(st, settled, kept) /\ unresolved \in SUBSET (Active(st) \ settled)
          /\ settled \cup unresolved = Active(st) /\ Cardinality(unresolved) <= 1
      BY <1>1, UnresolvedAlone, CompactableRecords DEF PartlyRestored
    <2>3. s4 = Restored(st, settled \cup unresolved, kept)
      BY <1>2, <1>3, <2>1, <2>2, ReservationsRestored
    <2>4. s4 = Restored(st, Active(st), RetainedReleases(st))
      BY <1>1, <2>2, <2>3
    <2>5. PICK f : f = [type |-> "CompactionComplete", generation |-> st.generation + 1]
      OBVIOUS
    <2>6. s5 = ApplyEvent(s4, f)
      BY <1>2, <1>3, <2>5, ReplayOne
    <2>7. ApplyEvent(s4, f) = CompactedState(st)
      BY <2>4, <2>5, CompactionCompletes
    <2> QED BY <1>4, <1>6, <1>7, <2>6, <2>7
  <1>8. CASE ~(kept = {} \/ Cardinality(settled) < MaxReservations)
    <2>1. Corrupt(s3)
      BY <1>1, <1>2, <1>3, <1>5, <1>8, ReleasesRejected
    <2>2. Corrupt(s4)
      BY <1>2, <1>3, <2>1, RejectedStays
    <2>3. Corrupt(s5)
      BY <1>2, <1>3, <2>2, RejectedStays
    <2>4. CompactedState(st).verdict = "ok"
      <3>1. st \in RecoveredState /\ st.verdict = "ok"
        BY DEF Compactable, JournalInv
      <3> QED BY <3>1 DEF CompactedState, RecoveredState
    <2> QED BY <1>4, <1>6, <1>8, <2>3, <2>4 DEF Corrupt
  <1> QED BY <1>7, <1>8

\* The invariants of the store make every state it can compact compactable.
LEMMA StoreCompactable ==
    ASSUME StoreInv, HistoryInv, disk.pending = NoId
    PROVE  Compactable(disk)
  <1>1. JournalInv(disk)
    BY DEF StoreInv
  <1>2. disk.released \in [Ids -> ReleaseTombstone]
    BY <1>1 DEF JournalInv, RecoveredState
  <1>3. Cardinality(RetainedReleases(disk)) <= MaxRetained
    BY <1>2, RetainedBound
  <1> QED BY <1>1, <1>3 DEF Compactable, HistoryInv

(***************************************************************************)
(* The theorems.                                                           *)
(***************************************************************************)
\* HistoryInv is an invariant of the store: the tombstones repair_store.rs keeps are
\* ordered by their dates, live and released drafts differ, and a transaction that
\* has not begun holds nothing.
THEOREM HistoryInvariance == Spec => []HistoryInv
  <1>1. Init => HistoryInv
    BY InitHistory
  <1>2. StoreInv /\ StoreInv' /\ HistoryInv /\ [Next]_vars => HistoryInv'
    BY NextExplained DEF Explained
  <1> QED BY <1>1, <1>2, StoreInvariance, PTL DEF Spec

\* reserve_backup never allocates a second backup for a draft that has a reservation,
\* live or remembered as released, however requests are retried and reordered.
THEOREM DraftsReservedOnce == Spec => []DraftReservedOnce
  <1>1. HistoryInv => DraftReservedOnce
    BY DEF HistoryInv
  <1> QED BY <1>1, HistoryInvariance, PTL

\* retained_release_tombstones is the only way a release is forgotten: its window of
\* events has passed, or as many newer releases as are retained crowd it out.
THEOREM ReleasesRemembered == Spec => TombstonesKept
  <1>1. StoreInv /\ StoreInv' /\ HistoryInv /\ [Next]_vars =>
          [\A id \in Released(disk) \ Released(disk') :
            \/ disk.clock > disk.released[id].at + TombstoneTTL
            \/ Cardinality({other \in Released(disk) :
                disk.released[other].at > disk.released[id].at}) >= MaxRetained]_vars
    BY NextExplained DEF Explained, ForgetsExpired, Expired
  <1> QED BY <1>1, StoreInvariance, HistoryInvariance, PTL DEF Spec, TombstonesKept

\* The store implements RepairVault: whatever crashes, power losses, failed appends,
\* reconciliations and compactions come between, the repair service sees one atomic
\* record per reservation and only the operations it was promised.
THEOREM StoreImplementsVault == Spec => StoreIsVault
  <1>1. Init => Vault!VaultInit
    BY InitHistory
  <1>2. StoreInv /\ StoreInv' /\ HistoryInv /\ [Next]_vars
          => [Vault!VaultNext]_<<VaultView, boot>>
    BY NextExplained DEF Explained, VaultStep
  <1>3. Spec => [][Vault!VaultNext]_<<VaultView, boot>>
    BY <1>2, StoreInvariance, HistoryInvariance, PTL DEF Spec
  <1> QED BY <1>1, <1>3, PTL DEF Spec, StoreIsVault, Vault!VaultSpec, Vault!vaultVars

\* compact_journal succeeds exactly when the retained tombstones fit beside the settled
\* reservations: the events it writes then replay to the very state it compacts, fewer
\* than the trigger, and otherwise validate_compaction_events rejects them.
THEOREM CompactionExact == Spec => []CompactionDecided
  <1>1. StoreInv /\ HistoryInv => CompactionDecided
    BY StoreCompactable, CompactionExactly DEF CompactionDecided
  <1> QED BY <1>1, StoreInvariance, HistoryInvariance, PTL

=============================================================================

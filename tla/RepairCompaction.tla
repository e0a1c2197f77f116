------------------------- MODULE RepairCompaction -------------------------
(***************************************************************************)
(* Journal compaction of the Repair Vault store                            *)
(* (crates/rescue-secrets/src/repair_store.rs): the snapshot a compaction  *)
(* writes into a fresh journal generation and the replay that reads it     *)
(* back.  A snapshot holds no states but ordinary events, which replay     *)
(* through the same guards as the history they stand for.                  *)
(***************************************************************************)
EXTENDS RepairEvents

CONSTANT CompactionTrigger  \* JOURNAL_COMPACTION_TRIGGER_EVENTS

\* A snapshot of a full store, with two events to spare, stays below the trigger:
\* at most 11 events for a reservation and 8 for a tombstone (3072 in the code).
ASSUME TriggerAssumption ==
    /\ CompactionTrigger \in Nat
    /\ 11 * MaxReservations + 8 * MaxRetained + 4 <= CompactionTrigger

(***************************************************************************)
(* Replay: replay_repair_event folded over the entries of a generation.    *)
(***************************************************************************)
Event(type, id) == [type |-> type, id |-> id]

ApplyEvent(state, e) ==
    LET st == Tick(state) IN
    CASE e.type = "CompactionBegin" ->
            CompactionBegin(state, e.position, e.generation, e.clock, e.active, e.retained)
      [] e.type = "CompactionComplete" -> CompactionComplete(state, e.generation)
      [] e.type = "ReserveIntent"   -> ReserveIntent(st, e.id, e.draft, e.parent)
      [] e.type = "ReserveComplete" -> ReserveComplete(st, e.id)
      [] e.type = "PersistIntent"   -> PersistIntent(st, e.id)
      [] e.type = "PersistComplete" -> PersistComplete(st, e.id)
      [] e.type = "TransactionWriteLeaseConsume" ->
            TransactionWriteLeaseConsume(st, e.id, e.boot)
      [] e.type = "TransactionResolveIntent" ->
            TransactionResolveIntent(st, e.id, e.expected, e.resolution)
      [] e.type = "TransactionResolveComplete" -> TransactionResolveComplete(st, e.id)
      [] e.type = "RollbackBegin" -> RollbackBegin(st, e.id, e.rollback)
      [] e.type = "RollbackWriteLeaseConsume" ->
            RollbackWriteLeaseConsume(st, e.id, e.rollback, e.boot)
      [] e.type = "RollbackResolveIntent" ->
            RollbackResolveIntent(st, e.id, e.rollback, e.expected, e.resolution)
      [] e.type = "RollbackResolveComplete" ->
            RollbackResolveComplete(st, e.id, e.rollback)
      [] e.type = "CancelIntent"   -> CancelIntent(st, e.id)
      [] e.type = "CancelComplete" -> CancelComplete(st, e.id, e.at)
      [] e.type = "RetireIntent"   -> RetireIntent(st, e.id)
      [] e.type = "RetireComplete" -> RetireComplete(st, e.id, e.at)

ReplayFrom(state, events) ==
    LET after[n \in 0..Len(events)] ==
            IF n = 0 THEN state ELSE ApplyEvent(after[n - 1], events[n])
    IN after[Len(events)]

Replay(events) == ReplayFrom(EmptyState, events)

(***************************************************************************)
(* The snapshot of one reservation, transaction, rollback and tombstone.   *)
(***************************************************************************)
ReserveSnapshot(id, record) ==
    << [type |-> "ReserveIntent", id |-> id, draft |-> record.draft,
        parent |-> record.parent],
       Event("ReserveComplete", id) >>

PersistSnapshot(id) == << Event("PersistIntent", id), Event("PersistComplete", id) >>

When(condition, events) == IF condition THEN events ELSE <<>>

RollbackSnapshot(id, rb) ==
    << [type |-> "RollbackBegin", id |-> id, rollback |-> rb.id] >>
    \o When(rb.lease # 0,
            << [type |-> "RollbackWriteLeaseConsume", id |-> id, rollback |-> rb.id,
                boot |-> rb.lease] >>)
    \o When(rb.resolution # "None",
            << [type |-> "RollbackResolveIntent", id |-> id, rollback |-> rb.id,
                expected |-> "Pending", resolution |-> rb.resolution],
               [type |-> "RollbackResolveComplete", id |-> id, rollback |-> rb.id] >>)

\* Faulty variant: the snapshot forgets a consumed write lease.
SnapshotWithoutLease(id, tx) ==
    When(tx.resolution # "None",
         << [type |-> "TransactionResolveIntent", id |-> id,
             expected |-> "Pending", resolution |-> tx.resolution],
            Event("TransactionResolveComplete", id) >>)
    \o When(tx.rollback.id # NoId, RollbackSnapshot(id, tx.rollback))

TransactionSnapshot(id, tx) ==
    When(tx.lease # 0,
         << [type |-> "TransactionWriteLeaseConsume", id |-> id, boot |-> tx.lease] >>)
    \o When(tx.resolution # "None",
            << [type |-> "TransactionResolveIntent", id |-> id,
                expected |-> "Pending", resolution |-> tx.resolution],
               Event("TransactionResolveComplete", id) >>)
    \o When(tx.rollback.id # NoId, RollbackSnapshot(id, tx.rollback))

ReservationSnapshot(id, record, tx) ==
    ReserveSnapshot(id, record)
    \o When(record.phase = "Durable", PersistSnapshot(id) \o TransactionSnapshot(id, tx))

ReleaseSnapshot(id, released) ==
    ReserveSnapshot(id, released.record)
    \o (IF released.operation = "Cancel"
        THEN << Event("CancelIntent", id),
                [type |-> "CancelComplete", id |-> id, at |-> released.at] >>
        ELSE PersistSnapshot(id)
             \o TransactionSnapshot(id, [NoTransaction EXCEPT
                                            !.resolution = released.record.resolution])
             \o << Event("RetireIntent", id),
                   [type |-> "RetireComplete", id |-> id, at |-> released.at] >>)

(***************************************************************************)
(* retained_release_tombstones: the tombstones inside the window, and of   *)
(* those the MaxRetained newest.                                           *)
(***************************************************************************)
InWindow(st, id) ==
    /\ st.released[id].at <= st.clock
    /\ st.clock <= st.released[id].at + TombstoneTTL

\* Faulty variant: the oldest tombstones are kept.
NewerRelease(st, left, right) == st.released[left].at > st.released[right].at

OlderRelease(st, left, right) ==
    \/ st.released[left].at < st.released[right].at
    \/ st.released[left].at = st.released[right].at /\ left < right

RetainedReleases(st) ==
    LET inWindow == {id \in Released(st) : InWindow(st, id)}
    IN {id \in inWindow :
            Cardinality({other \in inWindow : OlderRelease(st, id, other)}) < MaxRetained}

InIdOrder(ids) ==
    CHOOSE order \in [1..Cardinality(ids) -> ids] :
        \A i, j \in 1..Cardinality(ids) : i < j => order[i] < order[j]

\* The reservation that is still unresolved is restored last: every other
\* snapshot needs a state without an open transaction or rollback.
UnresolvedIds(st) == OpenTransactions(st) \cup OpenRollbacks(st)

ReservationSnapshots(st, ids) ==
    LET order == InIdOrder(ids)
    IN FlattenSeq([i \in 1..Cardinality(ids) |->
            ReservationSnapshot(order[i], st.reservations[order[i]],
                                st.transactions[order[i]])])

ReleaseSnapshots(st, ids) ==
    LET order == InIdOrder(ids)
    IN FlattenSeq([i \in 1..Cardinality(ids) |->
            ReleaseSnapshot(order[i], st.released[order[i]])])

CompactionEvents(st) ==
    LET retained == RetainedReleases(st)
    IN << [type |-> "CompactionBegin", position |-> 1, generation |-> st.generation + 1,
           clock |-> st.clock, active |-> Cardinality(Active(st)),
           retained |-> Cardinality(retained)] >>
       \o ReservationSnapshots(st, Active(st) \ UnresolvedIds(st))
       \o ReleaseSnapshots(st, retained)
       \o ReservationSnapshots(st, UnresolvedIds(st))
       \o << [type |-> "CompactionComplete", generation |-> st.generation + 1] >>

\* The state a compaction must leave: what validate_compacted_state compares the
\* replayed snapshot with before the new generation replaces the old one.
CompactedState(st) ==
    [st EXCEPT !.released = [id \in Ids |-> IF id \in RetainedReleases(st)
                                            THEN @[id] ELSE NoRelease],
               !.seen = Active(st) \cup RetainedReleases(st),
               !.generation = @ + 1]

\* compaction_due: the journal would pass the trigger, or tombstones are due for
\* removal.
CompactionDue(st, events, required) ==
    \/ events + required > CompactionTrigger
    \/ Cardinality(Released(st)) > MaxRetained
    \/ \E id \in Released(st) :
          st.released[id].at <= st.clock /\ st.clock > st.released[id].at + TombstoneTTL

\* compact_journal succeeds: the snapshot is small enough and replays to exactly
\* the state it stands for.
CompactionValid(st) ==
    /\ Len(CompactionEvents(st)) \in 0..(CompactionTrigger - 1)
    /\ Replay(CompactionEvents(st)) = CompactedState(st)
=============================================================================

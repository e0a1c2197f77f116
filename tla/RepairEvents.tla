--------------------------- MODULE RepairEvents ---------------------------
(***************************************************************************)
(* The event vocabulary of the Repair Vault journal                        *)
(* (crates/rescue-secrets/src/repair_store.rs): the recovered state and    *)
(* the effect of every journal event on it (apply_repair_event).           *)
(*                                                                         *)
(* apply_repair_event rejects an event whose guard fails; a journal that   *)
(* holds such an event can never be replayed again.  Here the rejection    *)
(* sets the field verdict to "corrupt".                                    *)
(*                                                                         *)
(* Maps of the code are total functions: an identifier outside the map is  *)
(* bound to NoReservation, NoRelease or NoTransaction.  Digests that only  *)
(* repeat the fields they are computed from are left out.                  *)
(***************************************************************************)
EXTENDS Naturals, FiniteSets, Sequences, SequencesExt

CONSTANTS
    Ids,                   \* reservation identifiers
    Drafts,                \* backup drafts, one per reservation binding
    Parents,               \* physical parents the Vault can be attached to
    RollbackIds,           \* identifiers of child rollback transactions
    MaxReservations,       \* MAX_RESERVATIONS
    MaxReleaseTombstones,  \* MAX_RELEASE_TOMBSTONES
    MaxRetained,           \* MAX_RETAINED_RELEASE_TOMBSTONES
    TombstoneTTL           \* RELEASE_TOMBSTONE_EVENT_TTL

\* Zero stands for "none" in the fields that hold an identifier, so the
\* identifiers are positive numbers.  Ids are finite: a run creates finitely many.
ASSUME IdAssumption ==
    /\ Ids \subseteq Nat \ {0} /\ IsFiniteSet(Ids)
    /\ Drafts \subseteq Nat \ {0}
    /\ Parents \subseteq Nat \ {0}
    /\ RollbackIds \subseteq Nat \ {0}

\* The constants of repair_store.rs: 64, 2048, 64 and 512.
ASSUME LimitAssumption ==
    /\ MaxReservations \in Nat \ {0}
    /\ MaxRetained \in Nat
    /\ MaxReleaseTombstones \in Nat /\ MaxRetained < MaxReleaseTombstones
    /\ TombstoneTTL \in Nat

NoId == 0

ReservationPhase ==
    {"Absent", "ReservePending", "Reserved", "PersistPending", "Durable",
     "CancelPending", "RetirePending"}

\* Outcomes of a repair and of a rollback.  The two ClosedBefore outcomes differ
\* only in the observation they report, never in what the store does with them.
Outcome == {"CommittedAfter", "ClosedBefore", "Manual"}
RollbackOutcome == {"RolledBackBefore", "Manual"}

NoReservation ==
    [phase |-> "Absent", draft |-> 0, parent |-> 0, resolution |-> "Absent"]
NoRelease == [operation |-> "None", record |-> NoReservation, at |-> 0]
NoRollback ==
    [id |-> NoId, resolution |-> "Absent", pending |-> "None", lease |-> 0]
NoTransaction ==
    [resolution |-> "Absent", pending |-> "None", lease |-> 0, rollback |-> NoRollback]

EmptyState ==
    [reservations |-> [id \in Ids |-> NoReservation],
     released     |-> [id \in Ids |-> NoRelease],
     seen         |-> {},
     pending      |-> NoId,
     transactions |-> [id \in Ids |-> NoTransaction],
     openTransaction |-> NoId,
     openRollback    |-> NoId,
     clock        |-> 0,
     generation   |-> 0,
     restoring    |-> <<>>,
     verdict      |-> "ok"]

Active(st)   == {id \in Ids : st.reservations[id].phase # "Absent"}
Released(st) == {id \in Ids : st.released[id].operation # "None"}
WithTransaction(st) == {id \in Ids : st.transactions[id].resolution # "Absent"}

\* transaction_phase and rollback_transaction_phase: "None" is a transaction
\* without a resolution, and a manual outcome keeps it unresolved.
TransactionPhase(resolution) ==
    CASE resolution = "None"   -> "Pending"
      [] resolution = "Manual" -> "Manual"
      [] OTHER                 -> "Resolved"

Resolved(resolution) == resolution \notin {"Absent", "None", "Manual"}

\* The rollback child of a transaction is absent or resolved.
RollbackClosed(tx) ==
    tx.rollback.id = NoId \/ Resolved(tx.rollback.resolution)

Guarded(st, ok, next) == IF ok THEN next ELSE [st EXCEPT !.verdict = "corrupt"]

\* The logical clock counts the events that are not part of a restored snapshot.
Tick(st) == IF st.restoring = <<>> THEN [st EXCEPT !.clock = @ + 1] ELSE st

(***************************************************************************)
(* apply_repair_event, one operator per event.                             *)
(***************************************************************************)
ReserveIntent(st, id, draft, parent) ==
    Guarded(st,
        /\ st.pending = NoId
        /\ st.openTransaction = NoId /\ st.openRollback = NoId
        /\ Cardinality(Active(st)) < MaxReservations
        /\ id \notin Active(st) /\ id \notin Released(st) /\ id \notin st.seen,
        [st EXCEPT !.seen = @ \cup {id}, !.pending = id,
                   !.reservations[id] = [phase |-> "ReservePending", draft |-> draft,
                                         parent |-> parent, resolution |-> "Absent"]])

ReserveComplete(st, id) ==
    Guarded(st,
        st.pending = id /\ st.reservations[id].phase = "ReservePending",
        [st EXCEPT !.pending = NoId, !.reservations[id].phase = "Reserved"])

ReserveAbort(st, id) ==
    Guarded(st,
        st.pending = id /\ st.reservations[id].phase = "ReservePending",
        [st EXCEPT !.pending = NoId, !.reservations[id] = NoReservation])

PersistIntent(st, id) ==
    Guarded(st,
        /\ st.pending = NoId
        /\ st.openTransaction = NoId /\ st.openRollback = NoId
        /\ st.reservations[id].phase = "Reserved",
        [st EXCEPT !.pending = id, !.reservations[id].phase = "PersistPending"])

PersistComplete(st, id) ==
    Guarded(st,
        /\ st.pending = id /\ st.reservations[id].phase = "PersistPending"
        /\ id \notin WithTransaction(st) /\ st.openTransaction = NoId,
        [st EXCEPT !.pending = NoId, !.reservations[id].phase = "Durable",
                   !.transactions[id] = [NoTransaction EXCEPT !.resolution = "None"],
                   !.openTransaction = id])

PersistAbort(st, id) ==
    Guarded(st,
        st.pending = id /\ st.reservations[id].phase = "PersistPending",
        [st EXCEPT !.pending = NoId, !.reservations[id].phase = "Reserved"])

TransactionWriteLeaseConsume(st, id, boot) ==
    Guarded(st,
        /\ st.pending = NoId /\ st.openTransaction = id
        /\ st.reservations[id].phase = "Durable"
        /\ st.transactions[id].resolution = "None"
        /\ st.transactions[id].pending = "None"
        /\ st.transactions[id].lease # boot,
        [st EXCEPT !.transactions[id].lease = boot])

TransactionResolveIntent(st, id, expectedPhase, resolution) ==
    Guarded(st,
        /\ st.pending = NoId /\ st.openTransaction = id
        /\ st.reservations[id].phase = "Durable"
        /\ id \in WithTransaction(st)
        /\ expectedPhase = TransactionPhase(st.transactions[id].resolution)
        /\ expectedPhase # "Resolved"
        /\ st.transactions[id].resolution # resolution
        /\ st.transactions[id].pending = "None",
        [st EXCEPT !.transactions[id].pending = resolution, !.pending = id])

\* Faulty variant: the completion records an outcome of its own.
RecordsOwnOutcome(st, id) ==
    [st EXCEPT !.pending = NoId, !.openTransaction = NoId,
               !.transactions[id] = [@ EXCEPT !.pending = "None",
                                              !.resolution = "ClosedBefore"]]

TransactionResolveComplete(st, id) ==
    LET resolution == st.transactions[id].pending
    IN Guarded(st,
        /\ st.pending = id /\ st.openTransaction = id
        /\ st.reservations[id].phase = "Durable"
        /\ resolution # "None",
        [st EXCEPT !.pending = NoId,
                   !.transactions[id] = [@ EXCEPT !.pending = "None",
                                                  !.resolution = resolution],
                   !.openTransaction = IF Resolved(resolution) THEN NoId ELSE @])

RollbackBegin(st, id, rollback) ==
    Guarded(st,
        /\ st.pending = NoId
        /\ st.openTransaction = NoId /\ st.openRollback = NoId
        /\ \A other \in Ids : st.transactions[other].rollback.id # rollback
        /\ st.reservations[id].phase = "Durable"
        /\ st.transactions[id].pending = "None"
        /\ st.transactions[id].rollback.id = NoId
        /\ st.transactions[id].resolution = "CommittedAfter",
        [st EXCEPT !.transactions[id].rollback =
                        [NoRollback EXCEPT !.id = rollback, !.resolution = "None"],
                   !.openRollback = id])

RollbackWriteLeaseConsume(st, id, rollback, boot) ==
    Guarded(st,
        /\ st.pending = NoId /\ st.openRollback = id
        /\ st.transactions[id].rollback.id = rollback
        /\ st.transactions[id].rollback.resolution = "None"
        /\ st.transactions[id].rollback.pending = "None"
        /\ st.transactions[id].rollback.lease # boot,
        [st EXCEPT !.transactions[id].rollback.lease = boot])

RollbackResolveIntent(st, id, rollback, expectedPhase, resolution) ==
    Guarded(st,
        /\ st.pending = NoId /\ st.openRollback = id
        /\ st.transactions[id].rollback.id = rollback
        /\ expectedPhase = TransactionPhase(st.transactions[id].rollback.resolution)
        /\ expectedPhase # "Resolved"
        /\ st.transactions[id].rollback.resolution # resolution
        /\ st.transactions[id].rollback.pending = "None",
        [st EXCEPT !.transactions[id].rollback.pending = resolution, !.pending = id])

\* Faulty variant: a finished rollback rewrites the outcome of its source.
RewritesSource(st, id, rollback) ==
    [st EXCEPT !.pending = NoId, !.openRollback = NoId,
               !.transactions[id] = [@ EXCEPT !.resolution = "ClosedBefore",
                                              !.rollback.pending = "None",
                                              !.rollback.resolution = "RolledBackBefore"]]

RollbackResolveComplete(st, id, rollback) ==
    LET resolution == st.transactions[id].rollback.pending
    IN Guarded(st,
        /\ st.pending = id /\ st.openRollback = id
        /\ st.transactions[id].rollback.id = rollback
        /\ resolution # "None",
        [st EXCEPT !.pending = NoId,
                   !.transactions[id].rollback = [@ EXCEPT !.pending = "None",
                                                           !.resolution = resolution],
                   !.openRollback = IF Resolved(resolution) THEN NoId ELSE @])

CancelIntent(st, id) ==
    Guarded(st,
        st.pending = NoId /\ st.reservations[id].phase = "Reserved",
        [st EXCEPT !.pending = id, !.reservations[id].phase = "CancelPending"])

\* The released_at_event an event carries: none in ordinary operation, where the
\* clock is taken, and the original value, still inside its window, in a snapshot.
ReleaseTime(st, at) == IF st.restoring = <<>> THEN st.clock ELSE at
ReleaseTimeOk(st, at) ==
    IF st.restoring = <<>>
    THEN at = 0
    ELSE at <= st.clock /\ st.clock <= at + TombstoneTTL

CancelComplete(st, id, at) ==
    Guarded(st,
        /\ ReleaseTimeOk(st, at)
        /\ st.pending = id
        /\ Cardinality(Released(st)) < MaxReleaseTombstones
        /\ id \notin Released(st)
        /\ st.reservations[id].phase = "CancelPending",
        [st EXCEPT !.pending = NoId, !.reservations[id] = NoReservation,
                   !.released[id] = [operation |-> "Cancel",
                                     record |-> st.reservations[id],
                                     at |-> ReleaseTime(st, at)]])

RetireIntent(st, id) ==
    Guarded(st,
        /\ st.pending = NoId
        /\ st.reservations[id].phase = "Durable"
        /\ Resolved(st.transactions[id].resolution)
        /\ st.openTransaction # id /\ st.openRollback # id
        /\ RollbackClosed(st.transactions[id]),
        [st EXCEPT !.pending = id,
                   !.reservations[id].phase = "RetirePending",
                   !.reservations[id].resolution = st.transactions[id].resolution])

RetireComplete(st, id, at) ==
    Guarded(st,
        /\ ReleaseTimeOk(st, at)
        /\ st.pending = id
        /\ Cardinality(Released(st)) < MaxReleaseTombstones
        /\ id \notin Released(st)
        /\ st.reservations[id].phase = "RetirePending"
        /\ Resolved(st.transactions[id].resolution)
        /\ st.openTransaction # id /\ st.openRollback # id
        /\ RollbackClosed(st.transactions[id]),
        [st EXCEPT !.pending = NoId, !.reservations[id] = NoReservation,
                   !.transactions[id] = NoTransaction,
                   !.released[id] = [operation |-> "Retire",
                                     record |-> st.reservations[id],
                                     at |-> ReleaseTime(st, at)]])

(***************************************************************************)
(* transactions_are_consistent: what open and every compaction demand of a *)
(* state without an operation in progress.                                 *)
(***************************************************************************)
OpenTransactions(st) ==
    {id \in Ids : st.transactions[id].resolution \in {"None", "Manual"}}
OpenRollbacks(st) ==
    {id \in Ids : st.transactions[id].rollback.resolution \in {"None", "Manual"}}

SingletonOf(id) == IF id = NoId THEN {} ELSE {id}

TransactionsConsistent(st) ==
    /\ \A id \in Ids :
        LET tx == st.transactions[id] IN
        /\ st.reservations[id].phase \in {"Absent", "Reserved", "Durable"}
        /\ st.reservations[id].phase = "Durable" <=> id \in WithTransaction(st)
        /\ tx.pending = "None"
        /\ tx.rollback.id # NoId =>
              tx.resolution = "CommittedAfter" /\ tx.rollback.pending = "None"
    /\ OpenTransactions(st) = SingletonOf(st.openTransaction)
    /\ OpenRollbacks(st) = SingletonOf(st.openRollback)
    /\ st.openTransaction = NoId \/ st.openRollback = NoId

CompactionBegin(st, position, generation, clock, active, retained) ==
    Guarded(st,
        /\ position = 1 /\ generation # 0
        /\ active <= MaxReservations /\ retained <= MaxRetained
        /\ st = EmptyState,
        [st EXCEPT !.clock = clock, !.generation = generation,
                   !.restoring = <<active, retained>>])

CompactionComplete(st, generation) ==
    Guarded(st,
        /\ st.restoring # <<>>
        /\ generation = st.generation
        /\ st.pending = NoId
        /\ Cardinality(Active(st)) = st.restoring[1]
        /\ Cardinality(Released(st)) = st.restoring[2]
        /\ Cardinality(st.seen) = st.restoring[1] + st.restoring[2]
        /\ TransactionsConsistent(st),
        [st EXCEPT !.restoring = <<>>])
=============================================================================

------------------------- MODULE RepairStore_proofs -------------------------
(***************************************************************************)
(* Proofs about the Repair Vault store, for every number of identifiers,   *)
(* drafts, boots and faults and all limits that satisfy the assumptions.   *)
(*                                                                         *)
(* An event other than the release events replaces the reservation and the *)
(* transaction of one identifier and the singleton fields (WithRecord).    *)
(* RecordUpdate says when that keeps JournalInv; the lemma of an event     *)
(* shows that its guards hold where the store appends it and that it is    *)
(* such an update.  The second part follows the actions of the store.      *)
(***************************************************************************)
EXTENDS RepairStoreInvariant, FiniteSetTheorems, TLAPS

USE DEF NoId

WithRecord(st, id, r, tx, p, ot, or) ==
    [st EXCEPT !.reservations = [@ EXCEPT ![id] = r],
               !.transactions = [@ EXCEPT ![id] = tx],
               !.pending = p, !.openTransaction = ot, !.openRollback = or]

\* The same, field by field.
Updates(new, st, id, r, tx, p, ot, or) ==
    /\ new \in RecoveredState
    /\ new.verdict = st.verdict
    /\ new.reservations = [st.reservations EXCEPT ![id] = r]
    /\ new.transactions = [st.transactions EXCEPT ![id] = tx]
    /\ new.pending = p /\ new.openTransaction = ot /\ new.openRollback = or
    /\ new.released = st.released /\ new.seen = st.seen

\* WithRecord replaces the two records of one identifier and nothing else.
LEMMA WithRecordUpdates ==
    ASSUME NEW st \in RecoveredState, NEW id \in Ids,
           NEW r \in ReservationRecord, NEW tx \in TransactionRecord,
           NEW p \in Ids \cup {NoId}, NEW ot \in Ids \cup {NoId}, NEW or \in Ids \cup {NoId}
    PROVE  Updates(WithRecord(st, id, r, tx, p, ot, or), st, id, r, tx, p, ot, or)
  BY DEF WithRecord, Updates, RecoveredState

\* A singleton field is left alone or changes between id and none.
Moves(id, old, new) == old = new \/ {old, new} \subseteq {NoId, id}

\* Another identifier is not affected.
LEMMA OtherRecord ==
    ASSUME NEW k \in Ids, NEW id \in Ids, k # id, NEW r, NEW tx,
           NEW p, NEW ot, NEW or, NEW p2, NEW ot2, NEW or2,
           RecordInv(k, r, tx, p, ot, or),
           {p, p2} \subseteq {NoId, id}, Moves(id, ot, ot2), Moves(id, or, or2)
    PROVE  RecordInv(k, r, tx, p2, ot2, or2)
  <1>1. k # NoId
    BY IdAssumption
  <1>2. k # p /\ k # p2 /\ (k = ot <=> k = ot2) /\ (k = or <=> k = or2)
    BY <1>1 DEF Moves
  <1> QED BY <1>2 DEF RecordInv, PendingInv, TransactionInv

\* Replacing the records of id keeps the record invariant of every other identifier,
\* provided the singleton fields change for id only.
LEMMA RecordUpdate ==
    ASSUME NEW st, JournalInv(st), NEW id \in Ids,
           NEW r, NEW tx, NEW p, NEW ot, NEW or,
           NEW new, Updates(new, st, id, r, tx, p, ot, or),
           {st.pending, p} \subseteq {NoId, id},
           Moves(id, st.openTransaction, ot), Moves(id, st.openRollback, or),
           ot = NoId \/ or = NoId,
           RecordInv(id, r, tx, p, ot, or),
           r.phase # "Absent" => id \in st.seen /\ id \notin Released(st),
           p # NoId => Cardinality(Released(st)) <= MaxRetained
    PROVE  JournalInv(new)
  <1>1. st.reservations \in [Ids -> ReservationRecord]
      /\ st.transactions \in [Ids -> TransactionRecord]
    BY DEF JournalInv, RecoveredState
  <1>2. /\ new.reservations[id] = r /\ new.transactions[id] = tx
        /\ \A k \in Ids : k # id => /\ new.reservations[k] = st.reservations[k]
                                    /\ new.transactions[k] = st.transactions[k]
    BY <1>1 DEF Updates
  <1>3. /\ new \in RecoveredState /\ new.verdict = "ok"
        /\ new.pending = p /\ new.openTransaction = ot /\ new.openRollback = or
        /\ new.released = st.released /\ new.seen = st.seen
    BY DEF Updates, JournalInv
  <1>4. ASSUME NEW k \in Ids
        PROVE  RecordInv(k, new.reservations[k], new.transactions[k],
                         new.pending, new.openTransaction, new.openRollback)
    <2>1. CASE k = id
      BY <2>1, <1>2, <1>3
    <2>2. CASE k # id
      <3>1. RecordInv(k, st.reservations[k], st.transactions[k],
                      st.pending, st.openTransaction, st.openRollback)
        BY DEF JournalInv
      <3>2. RecordInv(k, st.reservations[k], st.transactions[k], p, ot, or)
        BY <3>1, <2>2, OtherRecord
      <3> QED BY <3>2, <2>2, <1>2, <1>3
    <2> QED BY <2>1, <2>2
  <1>5. Released(new) = Released(st)
    BY <1>3 DEF Released
  <1>6. ReleaseInv(new)
    <2>1. \A k \in Released(new) : new.reservations[k].phase = "Absent"
      BY <1>5, <1>2 DEF JournalInv, ReleaseInv, Released
    <2>2. Active(new) \cup Released(new) \subseteq new.seen
      BY <1>2, <1>3, <1>5 DEF JournalInv, ReleaseInv, Active
    <2> QED BY <2>1, <2>2, <1>3, <1>5 DEF JournalInv, ReleaseInv
  <1> QED BY <1>3, <1>4, <1>6 DEF JournalInv

\* The clock is not part of JournalInv.
LEMMA TickFacts ==
    ASSUME NEW st, JournalInv(st)
    PROVE  LET new == Tick(st) IN
           /\ JournalInv(new)
           /\ new.reservations = st.reservations /\ new.transactions = st.transactions
           /\ new.pending = st.pending
           /\ new.openTransaction = st.openTransaction /\ new.openRollback = st.openRollback
           /\ new.released = st.released /\ new.seen = st.seen
           /\ Released(new) = Released(st)
  <1> DEFINE new == Tick(st)
  <1>1. st \in RecoveredState
    BY DEF JournalInv
  <1>2. new = [st EXCEPT !.clock = @ + 1]
    BY <1>1 DEF Tick, RecoveredState
  <1>3. /\ new \in RecoveredState /\ new.verdict = st.verdict
        /\ new.reservations = st.reservations /\ new.transactions = st.transactions
        /\ new.pending = st.pending
        /\ new.openTransaction = st.openTransaction /\ new.openRollback = st.openRollback
        /\ new.released = st.released /\ new.seen = st.seen
    BY <1>1, <1>2 DEF RecoveredState
  <1> HIDE DEF new
  <1>4. Released(new) = Released(st) /\ Active(new) = Active(st)
    BY <1>3 DEF Released, Active
  <1>5. ReleaseInv(new)
    BY <1>3, <1>4 DEF JournalInv, ReleaseInv
  <1> QED BY <1>3, <1>4, <1>5 DEF JournalInv, new
(***************************************************************************)
(* The events.  Each lemma assumes what the store has checked, or knows    *)
(* from the step it is at, when it appends the event.                      *)
(***************************************************************************)
\* What JournalInv says of one identifier.
RecordOk(st, id) ==
    /\ st \in RecoveredState
    /\ st.reservations[id] \in ReservationRecord
    /\ st.transactions[id] \in TransactionRecord
    /\ st.transactions[id].rollback \in RollbackRecord
    /\ RecordInv(id, st.reservations[id], st.transactions[id],
                 st.pending, st.openTransaction, st.openRollback)
    /\ st.openTransaction \in Ids \cup {NoId} /\ st.openRollback \in Ids \cup {NoId}
    /\ st.openTransaction = NoId \/ st.openRollback = NoId
    /\ st.reservations[id].phase # "Absent" => id \in st.seen /\ id \notin Released(st)
    /\ id # NoId

\* The record invariant of one identifier, taken out of the journal invariant.
LEMMA RecordFacts ==
    ASSUME NEW st, JournalInv(st), NEW id \in Ids
    PROVE  RecordOk(st, id)
  <1>1. st \in RecoveredState /\ ReleaseInv(st) /\ id # NoId
    BY IdAssumption DEF JournalInv
  <1>2. st.reservations[id] \in ReservationRecord
      /\ st.transactions[id] \in TransactionRecord
    BY <1>1 DEF RecoveredState
  <1>3. st.transactions[id].rollback \in RollbackRecord
    BY <1>2 DEF TransactionRecord
  <1>4. st.reservations[id].phase # "Absent" => id \in st.seen /\ id \notin Released(st)
    BY <1>1 DEF ReleaseInv, Active
  <1>5. st.openTransaction \in Ids \cup {NoId} /\ st.openRollback \in Ids \cup {NoId}
    BY <1>1 DEF RecoveredState
  <1> QED BY <1>1, <1>2, <1>3, <1>4, <1>5 DEF JournalInv, RecordOk

\* What the store's actions use of an event.
Changes(new, st, id, r, tx, p, ot, or) ==
    /\ JournalInv(new)
    /\ new.reservations = [st.reservations EXCEPT ![id] = r]
    /\ new.transactions = [st.transactions EXCEPT ![id] = tx]
    /\ new.pending = p /\ new.openTransaction = ot /\ new.openRollback = or

\* RecordUpdate for the state an event yields.
LEMMA EventUpdate ==
    ASSUME NEW st, JournalInv(st), NEW id \in Ids,
           NEW r \in ReservationRecord, NEW tx \in TransactionRecord,
           NEW p, NEW ot, NEW or, {st.pending, p} \subseteq {NoId, id},
           Moves(id, st.openTransaction, ot), Moves(id, st.openRollback, or),
           ot = NoId \/ or = NoId,
           RecordInv(id, r, tx, p, ot, or),
           st.reservations[id].phase # "Absent",
           p # NoId => Cardinality(Released(st)) <= MaxRetained,
           NEW new, new = WithRecord(st, id, r, tx, p, ot, or)
    PROVE  Changes(new, st, id, r, tx, p, ot, or)
  <1>1. /\ st \in RecoveredState
        /\ ot \in Ids \cup {NoId} /\ or \in Ids \cup {NoId}
        /\ id \in st.seen /\ id \notin Released(st)
    BY RecordFacts DEF RecordOk, Moves
  <1>2. Updates(new, st, id, r, tx, p, ot, or)
    BY <1>1, WithRecordUpdates
  <1>3. JournalInv(new)
    BY <1>1, <1>2, RecordUpdate
  <1> QED BY <1>2, <1>3 DEF Updates, Changes

\* ReserveComplete completes a pending reservation and keeps JournalInv.
LEMMA ReserveCompleteFacts ==
    ASSUME NEW st, JournalInv(st), NEW id \in Ids,
           st.pending = id,
           st.reservations[id].phase = "ReservePending"
    PROVE  LET new == ReserveComplete(st, id)
               r   == [st.reservations[id] EXCEPT !.phase = "Reserved"]
               tx  == st.transactions[id]
           IN Changes(new, st, id, r, tx, NoId, st.openTransaction, st.openRollback)
  <1> DEFINE new == ReserveComplete(st, id)
             r   == [st.reservations[id] EXCEPT !.phase = "Reserved"]
             tx  == st.transactions[id]
  <1>1. RecordOk(st, id)
    BY RecordFacts
  <1>2. new = [st EXCEPT !.pending = NoId, !.reservations[id].phase = "Reserved"]
    BY <1>1 DEF ReserveComplete, Guarded
  <1>3. r \in ReservationRecord /\ tx \in TransactionRecord
    BY <1>1 DEF RecordOk, ReservationRecord, ReservationPhase
  <1>4. RecordInv(id, r, tx, NoId, st.openTransaction, st.openRollback)
    BY <1>1, <1>3 DEF RecordOk, RecordInv, PendingInv, TransactionInv
  <1>5. /\ {st.pending, NoId} \subseteq {NoId, id}
        /\ Moves(id, st.openTransaction, st.openTransaction)
        /\ Moves(id, st.openRollback, st.openRollback)
        /\ st.openTransaction = NoId \/ st.openRollback = NoId
        /\ st.reservations[id].phase # "Absent"
    BY <1>1 DEF RecordOk, Moves
  <1> HIDE DEF new, r, tx
  <1>6. Changes(new, st, id, r, tx, NoId, st.openTransaction, st.openRollback)
    <2>1. new = WithRecord(st, id, r, tx, NoId, st.openTransaction, st.openRollback)
      BY <1>1, <1>2 DEF RecordOk, WithRecord, RecoveredState, r, tx
    <2> QED BY <2>1, <1>3, <1>4, <1>5, EventUpdate
  <1> QED BY <1>6 DEF new, r, tx

\* ReserveAbort withdraws a pending reservation and keeps JournalInv.
LEMMA ReserveAbortFacts ==
    ASSUME NEW st, JournalInv(st), NEW id \in Ids,
           st.pending = id,
           st.reservations[id].phase = "ReservePending"
    PROVE  LET new == ReserveAbort(st, id)
               r   == NoReservation
               tx  == st.transactions[id]
           IN Changes(new, st, id, r, tx, NoId, st.openTransaction, st.openRollback)
  <1> DEFINE new == ReserveAbort(st, id)
             r   == NoReservation
             tx  == st.transactions[id]
  <1>1. RecordOk(st, id)
    BY RecordFacts
  <1>2. new = [st EXCEPT !.pending = NoId, !.reservations[id] = NoReservation]
    BY <1>1 DEF ReserveAbort, Guarded
  <1>3. r \in ReservationRecord /\ tx \in TransactionRecord
    BY <1>1 DEF RecordOk, ReservationRecord, ReservationPhase, NoReservation
  <1>4. RecordInv(id, r, tx, NoId, st.openTransaction, st.openRollback)
    BY <1>1, <1>3 DEF RecordOk, RecordInv, PendingInv, TransactionInv, NoReservation
  <1>5. /\ {st.pending, NoId} \subseteq {NoId, id}
        /\ Moves(id, st.openTransaction, st.openTransaction)
        /\ Moves(id, st.openRollback, st.openRollback)
        /\ st.openTransaction = NoId \/ st.openRollback = NoId
        /\ st.reservations[id].phase # "Absent"
    BY <1>1 DEF RecordOk, Moves
  <1> HIDE DEF new, r, tx
  <1>6. Changes(new, st, id, r, tx, NoId, st.openTransaction, st.openRollback)
    <2>1. new = WithRecord(st, id, r, tx, NoId, st.openTransaction, st.openRollback)
      BY <1>1, <1>2 DEF RecordOk, WithRecord, RecoveredState, r, tx
    <2> QED BY <2>1, <1>3, <1>4, <1>5, EventUpdate
  <1> QED BY <1>6 DEF new, r, tx

\* PersistIntent marks a reservation as being persisted and keeps JournalInv.
LEMMA PersistIntentFacts ==
    ASSUME NEW st, JournalInv(st), NEW id \in Ids,
           st.pending = NoId,
           st.openTransaction = NoId,
           st.openRollback = NoId,
           st.reservations[id].phase = "Reserved",
           Cardinality(Released(st)) <= MaxRetained
    PROVE  LET new == PersistIntent(st, id)
               r   == [st.reservations[id] EXCEPT !.phase = "PersistPending"]
               tx  == st.transactions[id]
           IN Changes(new, st, id, r, tx, id, st.openTransaction, st.openRollback)
  <1> DEFINE new == PersistIntent(st, id)
             r   == [st.reservations[id] EXCEPT !.phase = "PersistPending"]
             tx  == st.transactions[id]
  <1>1. RecordOk(st, id)
    BY RecordFacts
  <1>2. new = [st EXCEPT !.pending = id, !.reservations[id].phase = "PersistPending"]
    BY <1>1 DEF PersistIntent, Guarded
  <1>3. r \in ReservationRecord /\ tx \in TransactionRecord
    BY <1>1 DEF RecordOk, ReservationRecord, ReservationPhase
  <1>4. RecordInv(id, r, tx, id, st.openTransaction, st.openRollback)
    BY <1>1, <1>3 DEF RecordOk, RecordInv, PendingInv, TransactionInv
  <1>5. /\ {st.pending, id} \subseteq {NoId, id}
        /\ Moves(id, st.openTransaction, st.openTransaction)
        /\ Moves(id, st.openRollback, st.openRollback)
        /\ st.openTransaction = NoId \/ st.openRollback = NoId
        /\ st.reservations[id].phase # "Absent"
    BY <1>1 DEF Moves
  <1> HIDE DEF new, r, tx
  <1>6. Changes(new, st, id, r, tx, id, st.openTransaction, st.openRollback)
    <2>1. new = WithRecord(st, id, r, tx, id, st.openTransaction, st.openRollback)
      BY <1>1, <1>2 DEF RecordOk, WithRecord, RecoveredState, r, tx
    <2> QED BY <2>1, <1>3, <1>4, <1>5, EventUpdate
  <1> QED BY <1>6 DEF new, r, tx

\* PersistComplete makes the backup durable and opens its transaction and keeps JournalInv.
LEMMA PersistCompleteFacts ==
    ASSUME NEW st, JournalInv(st), NEW id \in Ids,
           st.pending = id,
           st.reservations[id].phase = "PersistPending"
    PROVE  LET new == PersistComplete(st, id)
               r   == [st.reservations[id] EXCEPT !.phase = "Durable"]
               tx  == [NoTransaction EXCEPT !.resolution = "None"]
           IN Changes(new, st, id, r, tx, NoId, id, st.openRollback)
  <1> DEFINE new == PersistComplete(st, id)
             r   == [st.reservations[id] EXCEPT !.phase = "Durable"]
             tx  == [NoTransaction EXCEPT !.resolution = "None"]
  <1>1. RecordOk(st, id)
    BY RecordFacts
  <1>2. new = [st EXCEPT !.pending = NoId, !.reservations[id].phase = "Durable",
                !.transactions[id] = [NoTransaction EXCEPT !.resolution = "None"],
                !.openTransaction = id]
    BY <1>1 DEF PersistComplete, RecordOk, Guarded, RecordInv, PendingInv, TransactionInv,
        WithTransaction
  <1>3. r \in ReservationRecord /\ tx \in TransactionRecord
    BY <1>1 DEF RecordOk, ReservationRecord, TransactionRecord, RollbackRecord,
        ReservationPhase, NoTransaction, NoRollback
  <1>4. RecordInv(id, r, tx, NoId, id, st.openRollback)
    BY <1>1, <1>3 DEF RecordOk, RecordInv, PendingInv, TransactionInv, NoTransaction,
        NoRollback
  <1>5. /\ {st.pending, NoId} \subseteq {NoId, id}
        /\ Moves(id, st.openTransaction, id) /\ Moves(id, st.openRollback, st.openRollback)
        /\ id = NoId \/ st.openRollback = NoId
        /\ st.reservations[id].phase # "Absent"
    BY <1>1 DEF RecordOk, Moves, RecordInv, PendingInv
  <1> HIDE DEF new, r, tx
  <1>6. Changes(new, st, id, r, tx, NoId, id, st.openRollback)
    <2>1. new = WithRecord(st, id, r, tx, NoId, id, st.openRollback)
      BY <1>1, <1>2 DEF WithRecord, r, tx
    <2> QED BY <2>1, <1>3, <1>4, <1>5, EventUpdate
  <1> QED BY <1>6 DEF new, r, tx

\* PersistAbort returns an unfinished backup to its reservation and keeps JournalInv.
LEMMA PersistAbortFacts ==
    ASSUME NEW st, JournalInv(st), NEW id \in Ids,
           st.pending = id,
           st.reservations[id].phase = "PersistPending"
    PROVE  LET new == PersistAbort(st, id)
               r   == [st.reservations[id] EXCEPT !.phase = "Reserved"]
               tx  == st.transactions[id]
           IN Changes(new, st, id, r, tx, NoId, st.openTransaction, st.openRollback)
  <1> DEFINE new == PersistAbort(st, id)
             r   == [st.reservations[id] EXCEPT !.phase = "Reserved"]
             tx  == st.transactions[id]
  <1>1. RecordOk(st, id)
    BY RecordFacts
  <1>2. new = [st EXCEPT !.pending = NoId, !.reservations[id].phase = "Reserved"]
    BY <1>1 DEF PersistAbort, Guarded
  <1>3. r \in ReservationRecord /\ tx \in TransactionRecord
    BY <1>1 DEF RecordOk, ReservationRecord, ReservationPhase
  <1>4. RecordInv(id, r, tx, NoId, st.openTransaction, st.openRollback)
    BY <1>1, <1>3 DEF RecordOk, RecordInv, PendingInv, TransactionInv
  <1>5. /\ {st.pending, NoId} \subseteq {NoId, id}
        /\ Moves(id, st.openTransaction, st.openTransaction)
        /\ Moves(id, st.openRollback, st.openRollback)
        /\ st.openTransaction = NoId \/ st.openRollback = NoId
        /\ st.reservations[id].phase # "Absent"
    BY <1>1 DEF RecordOk, Moves
  <1> HIDE DEF new, r, tx
  <1>6. Changes(new, st, id, r, tx, NoId, st.openTransaction, st.openRollback)
    <2>1. new = WithRecord(st, id, r, tx, NoId, st.openTransaction, st.openRollback)
      BY <1>1, <1>2 DEF RecordOk, WithRecord, RecoveredState, r, tx
    <2> QED BY <2>1, <1>3, <1>4, <1>5, EventUpdate
  <1> QED BY <1>6 DEF new, r, tx

\* TransactionWriteLeaseConsume records the boot of a write lease and keeps JournalInv.
LEMMA TransactionWriteLeaseConsumeFacts ==
    ASSUME NEW st, JournalInv(st), NEW id \in Ids, NEW epoch \in Nat,
           st.pending = NoId,
           st.reservations[id].phase = "Durable",
           st.transactions[id].resolution = "None",
           st.transactions[id].lease # epoch
    PROVE  LET new == TransactionWriteLeaseConsume(st, id, epoch)
               r   == st.reservations[id]
               tx  == [st.transactions[id] EXCEPT !.lease = epoch]
           IN Changes(new, st, id, r, tx, NoId, st.openTransaction, st.openRollback)
  <1> DEFINE new == TransactionWriteLeaseConsume(st, id, epoch)
             r   == st.reservations[id]
             tx  == [st.transactions[id] EXCEPT !.lease = epoch]
  <1>1. RecordOk(st, id)
    BY RecordFacts
  <1>2. new = [st EXCEPT !.transactions[id].lease = epoch]
    BY <1>1 DEF TransactionWriteLeaseConsume, RecordOk, Guarded, RecordInv, PendingInv,
        TransactionInv
  <1>3. r \in ReservationRecord /\ tx \in TransactionRecord
    BY <1>1 DEF RecordOk, TransactionRecord
  <1>4. RecordInv(id, r, tx, NoId, st.openTransaction, st.openRollback)
    BY <1>1, <1>3 DEF RecordOk, RecordInv, PendingInv, TransactionInv
  <1>5. /\ {st.pending, NoId} \subseteq {NoId, id}
        /\ Moves(id, st.openTransaction, st.openTransaction)
        /\ Moves(id, st.openRollback, st.openRollback)
        /\ st.openTransaction = NoId \/ st.openRollback = NoId
        /\ st.reservations[id].phase # "Absent"
    BY <1>1 DEF RecordOk, Moves
  <1> HIDE DEF new, r, tx
  <1>6. Changes(new, st, id, r, tx, NoId, st.openTransaction, st.openRollback)
    <2>1. new = WithRecord(st, id, r, tx, NoId, st.openTransaction, st.openRollback)
      BY <1>1, <1>2 DEF RecordOk, WithRecord, RecoveredState, r, tx
    <2> QED BY <2>1, <1>3, <1>4, <1>5, EventUpdate
  <1> QED BY <1>6 DEF new, r, tx

\* TransactionResolveIntent records the outcome a transaction is about to get
\* and keeps JournalInv.
LEMMA TransactionResolveIntentFacts ==
    ASSUME NEW st, JournalInv(st), NEW id \in Ids, NEW outcome \in Outcome,
           st.pending = NoId,
           st.reservations[id].phase = "Durable",
           ~Resolved(st.transactions[id].resolution),
           st.transactions[id].resolution # outcome,
           Cardinality(Released(st)) <= MaxRetained
    PROVE  LET new == TransactionResolveIntent(st, id,
       TransactionPhase(st.transactions[id].resolution),
                                          outcome)
               r   == st.reservations[id]
               tx  == [st.transactions[id] EXCEPT !.pending = outcome]
           IN Changes(new, st, id, r, tx, id, st.openTransaction, st.openRollback)
  <1> DEFINE new == TransactionResolveIntent(st, id,
     TransactionPhase(st.transactions[id].resolution),
                                          outcome)
             r   == st.reservations[id]
             tx  == [st.transactions[id] EXCEPT !.pending = outcome]
  <1>1. RecordOk(st, id)
    BY RecordFacts
  <1>2. new = [st EXCEPT !.transactions[id].pending = outcome, !.pending = id]
    BY <1>1 DEF TransactionResolveIntent, RecordOk, Guarded, RecordInv, PendingInv,
        TransactionInv, Resolved, TransactionPhase, WithTransaction
  <1>3. r \in ReservationRecord /\ tx \in TransactionRecord
    BY <1>1 DEF RecordOk, TransactionRecord
  <1>4. RecordInv(id, r, tx, id, st.openTransaction, st.openRollback)
    BY <1>1, <1>3 DEF RecordOk, RecordInv, PendingInv, TransactionInv, Resolved, Outcome
  <1>5. /\ {st.pending, id} \subseteq {NoId, id}
        /\ Moves(id, st.openTransaction, st.openTransaction)
        /\ Moves(id, st.openRollback, st.openRollback)
        /\ st.openTransaction = NoId \/ st.openRollback = NoId
        /\ st.reservations[id].phase # "Absent"
    BY <1>1 DEF RecordOk, Moves
  <1> HIDE DEF new, r, tx
  <1>6. Changes(new, st, id, r, tx, id, st.openTransaction, st.openRollback)
    <2>1. new = WithRecord(st, id, r, tx, id, st.openTransaction, st.openRollback)
      BY <1>1, <1>2 DEF RecordOk, WithRecord, RecoveredState, r, tx
    <2> QED BY <2>1, <1>3, <1>4, <1>5, EventUpdate
  <1> QED BY <1>6 DEF new, r, tx

\* TransactionResolveComplete gives a transaction its intended outcome and keeps JournalInv.
LEMMA TransactionResolveCompleteFacts ==
    ASSUME NEW st, JournalInv(st), NEW id \in Ids,
           st.pending = id,
           st.transactions[id].pending # "None"
    PROVE  LET new == TransactionResolveComplete(st, id)
               r   == st.reservations[id]
               tx  == [st.transactions[id] EXCEPT
                         !.pending = "None", !.resolution = st.transactions[id].pending]
               open == IF Resolved(st.transactions[id].pending)
                       THEN NoId ELSE st.openTransaction
           IN Changes(new, st, id, r, tx, NoId, open, st.openRollback)
  <1> DEFINE new == TransactionResolveComplete(st, id)
             r   == st.reservations[id]
             tx  == [st.transactions[id] EXCEPT
                       !.pending = "None", !.resolution = st.transactions[id].pending]
             open == IF Resolved(st.transactions[id].pending)
                     THEN NoId ELSE st.openTransaction
  <1>1. RecordOk(st, id)
    BY RecordFacts
  <1>2. new = [st EXCEPT !.pending = NoId,
                !.transactions[id] = [@ EXCEPT !.pending = "None",
                !.resolution = st.transactions[id].pending],
                !.openTransaction
                   = IF Resolved(st.transactions[id].pending) THEN NoId ELSE @]
    BY <1>1 DEF TransactionResolveComplete, RecordOk, Guarded, RecordInv, PendingInv
  <1>3. r \in ReservationRecord /\ tx \in TransactionRecord
    BY <1>1 DEF RecordOk, TransactionRecord
  <1>4. RecordInv(id, r, tx, NoId, open, st.openRollback)
    BY <1>1, <1>3 DEF RecordOk, RecordInv, PendingInv, TransactionInv, Resolved,
        TransactionRecord, Outcome
  <1>5. /\ {st.pending, NoId} \subseteq {NoId, id}
        /\ Moves(id, st.openTransaction, open)
        /\ Moves(id, st.openRollback, st.openRollback)
        /\ open = NoId \/ st.openRollback = NoId
        /\ st.reservations[id].phase # "Absent"
    BY <1>1 DEF RecordOk, Moves, RecordInv, PendingInv
  <1> HIDE DEF new, r, tx, open
  <1>6. Changes(new, st, id, r, tx, NoId, open, st.openRollback)
    <2>1. new = WithRecord(st, id, r, tx, NoId, open, st.openRollback)
      <3>1. st.reservations = [st.reservations EXCEPT ![id] = r]
        BY <1>1 DEF RecordOk, RecoveredState, r
      <3>2. [st.transactions EXCEPT ![id] =
                [@ EXCEPT !.pending = "None", !.resolution = st.transactions[id].pending]]
            = [st.transactions EXCEPT ![id] = tx]
        BY <1>1 DEF RecordOk, RecoveredState, tx
      <3>3. new = [st EXCEPT !.pending = NoId, !.openTransaction = open,
                     !.transactions = [st.transactions EXCEPT ![id] =
                        [@ EXCEPT !.pending = "None",
                                  !.resolution = st.transactions[id].pending]]]
        BY <1>1, <1>2 DEF RecordOk, RecoveredState, open
      <3>4. new = [st EXCEPT !.pending = NoId, !.openTransaction = open,
                     !.transactions = [st.transactions EXCEPT ![id] = tx]]
        BY <3>2, <3>3
      <3> QED BY <3>1, <3>4, <1>1 DEF RecordOk, WithRecord, RecoveredState
    <2> QED BY <2>1, <1>3, <1>4, <1>5, EventUpdate
  <1> QED BY <1>6 DEF new, r, tx, open

\* RollbackBegin opens the rollback of a committed repair and keeps JournalInv.
LEMMA RollbackBeginFacts ==
    ASSUME NEW st, JournalInv(st), NEW id \in Ids, NEW rollback \in RollbackIds,
       rollback # NoId,
           st.pending = NoId,
           st.openTransaction = NoId,
           st.openRollback = NoId,
           st.reservations[id].phase = "Durable",
           st.transactions[id].resolution = "CommittedAfter",
           st.transactions[id].rollback.id = NoId,
           \A other \in Ids : st.transactions[other].rollback.id # rollback
    PROVE  LET new == RollbackBegin(st, id, rollback)
               r   == st.reservations[id]
               tx  == [st.transactions[id] EXCEPT !.rollback =
                     [NoRollback EXCEPT !.id = rollback, !.resolution = "None"]]
           IN Changes(new, st, id, r, tx, NoId, st.openTransaction, id)
  <1> DEFINE new == RollbackBegin(st, id, rollback)
             r   == st.reservations[id]
             tx  == [st.transactions[id] EXCEPT !.rollback =
                   [NoRollback EXCEPT !.id = rollback, !.resolution = "None"]]
  <1>1. RecordOk(st, id)
    BY RecordFacts
  <1>2. new = [st EXCEPT !.transactions[id].rollback =
                [NoRollback EXCEPT !.id = rollback, !.resolution = "None"],
                !.openRollback = id]
    BY <1>1 DEF RollbackBegin, RecordOk, Guarded, RecordInv, PendingInv
  <1>3. r \in ReservationRecord /\ tx \in TransactionRecord
    BY <1>1 DEF RecordOk, TransactionRecord, RollbackRecord, NoRollback
  <1>4. RecordInv(id, r, tx, NoId, st.openTransaction, id)
    BY <1>1, <1>3 DEF RecordOk, RecordInv, PendingInv, TransactionInv, Resolved,
       RollbackClosed,
       ReservationRecord, TransactionRecord, RollbackRecord, NoReservation, NoTransaction,
       NoRollback, Outcome, RollbackOutcome
  <1>5. /\ {st.pending, NoId} \subseteq {NoId, id}
        /\ Moves(id, st.openTransaction, st.openTransaction)
        /\ Moves(id, st.openRollback, id)
        /\ st.openTransaction = NoId \/ id = NoId
        /\ st.reservations[id].phase # "Absent"
    BY <1>1 DEF Moves
  <1> HIDE DEF new, r, tx
  <1>6. Changes(new, st, id, r, tx, NoId, st.openTransaction, id)
    <2>1. new = WithRecord(st, id, r, tx, NoId, st.openTransaction, id)
      BY <1>1, <1>2 DEF RecordOk, WithRecord, RecoveredState, r, tx
    <2> QED BY <2>1, <1>3, <1>4, <1>5, EventUpdate
  <1> QED BY <1>6 DEF new, r, tx

\* RollbackWriteLeaseConsume records the boot of a rollback write lease and
\* keeps JournalInv.
LEMMA RollbackWriteLeaseConsumeFacts ==
    ASSUME NEW st, JournalInv(st), NEW id \in Ids, NEW epoch \in Nat,
           st.pending = NoId,
           st.reservations[id].phase = "Durable",
           st.transactions[id].rollback.id # NoId,
           st.transactions[id].rollback.resolution = "None",
           st.transactions[id].rollback.lease # epoch
    PROVE  LET new == RollbackWriteLeaseConsume(st, id, st.transactions[id].rollback.id,
       epoch)
               r   == st.reservations[id]
               tx  == [st.transactions[id] EXCEPT !.rollback = [@ EXCEPT !.lease = epoch]]
           IN Changes(new, st, id, r, tx, NoId, st.openTransaction, st.openRollback)
  <1> DEFINE new == RollbackWriteLeaseConsume(st, id, st.transactions[id].rollback.id,
     epoch)
             r   == st.reservations[id]
             tx  == [st.transactions[id] EXCEPT !.rollback = [@ EXCEPT !.lease = epoch]]
  <1>1. RecordOk(st, id)
    BY RecordFacts
  <1>2. new = [st EXCEPT !.transactions[id].rollback.lease = epoch]
    BY <1>1 DEF RollbackWriteLeaseConsume, RecordOk, Guarded, RecordInv, PendingInv,
        TransactionInv
  <1>3. r \in ReservationRecord /\ tx \in TransactionRecord
    BY <1>1 DEF RecordOk, TransactionRecord, RollbackRecord
  <1>4. RecordInv(id, r, tx, NoId, st.openTransaction, st.openRollback)
    BY <1>1, <1>3 DEF RecordOk, RecordInv, PendingInv, TransactionInv, RollbackRecord
  <1>5. /\ {st.pending, NoId} \subseteq {NoId, id}
        /\ Moves(id, st.openTransaction, st.openTransaction)
        /\ Moves(id, st.openRollback, st.openRollback)
        /\ st.openTransaction = NoId \/ st.openRollback = NoId
        /\ st.reservations[id].phase # "Absent"
    BY <1>1 DEF RecordOk, Moves
  <1> HIDE DEF new, r, tx
  <1>6. Changes(new, st, id, r, tx, NoId, st.openTransaction, st.openRollback)
    <2>1. new = WithRecord(st, id, r, tx, NoId, st.openTransaction, st.openRollback)
      BY <1>1, <1>2 DEF RecordOk, WithRecord, RecoveredState, r, tx
    <2> QED BY <2>1, <1>3, <1>4, <1>5, EventUpdate
  <1> QED BY <1>6 DEF new, r, tx

\* RollbackResolveIntent records the outcome a rollback is about to get
\* and keeps JournalInv.
LEMMA RollbackResolveIntentFacts ==
    ASSUME NEW st, JournalInv(st), NEW id \in Ids, NEW outcome \in RollbackOutcome,
           st.pending = NoId,
           st.reservations[id].phase = "Durable",
           st.transactions[id].rollback.id # NoId,
           ~Resolved(st.transactions[id].rollback.resolution),
           st.transactions[id].rollback.resolution # outcome,
           Cardinality(Released(st)) <= MaxRetained
    PROVE  LET new == RollbackResolveIntent(st, id, st.transactions[id].rollback.id,
                          TransactionPhase(st.transactions[id].rollback.resolution),
                             outcome)
               r   == st.reservations[id]
               tx  == [st.transactions[id] EXCEPT !.rollback =
                     [@ EXCEPT !.pending = outcome]]
           IN Changes(new, st, id, r, tx, id, st.openTransaction, st.openRollback)
  <1> DEFINE new == RollbackResolveIntent(st, id, st.transactions[id].rollback.id,
                          TransactionPhase(st.transactions[id].rollback.resolution),
                             outcome)
             r   == st.reservations[id]
             tx  == [st.transactions[id] EXCEPT !.rollback = [@ EXCEPT !.pending = outcome]]
  <1>1. RecordOk(st, id)
    BY RecordFacts
  <1>2. new = [st EXCEPT !.transactions[id].rollback.pending = outcome, !.pending = id]
    BY <1>1 DEF RollbackResolveIntent, RecordOk, Guarded, RecordInv, PendingInv,
        TransactionInv, Resolved, TransactionPhase
  <1>3. r \in ReservationRecord /\ tx \in TransactionRecord
    BY <1>1 DEF RecordOk, TransactionRecord, RollbackRecord
  <1>4. RecordInv(id, r, tx, id, st.openTransaction, st.openRollback)
    BY <1>1, <1>3 DEF RecordOk, RecordInv, PendingInv, TransactionInv, Resolved,
        RollbackRecord, RollbackOutcome
  <1>5. /\ {st.pending, id} \subseteq {NoId, id}
        /\ Moves(id, st.openTransaction, st.openTransaction)
        /\ Moves(id, st.openRollback, st.openRollback)
        /\ st.openTransaction = NoId \/ st.openRollback = NoId
        /\ st.reservations[id].phase # "Absent"
    BY <1>1 DEF RecordOk, Moves
  <1> HIDE DEF new, r, tx
  <1>6. Changes(new, st, id, r, tx, id, st.openTransaction, st.openRollback)
    <2>1. new = WithRecord(st, id, r, tx, id, st.openTransaction, st.openRollback)
      BY <1>1, <1>2 DEF RecordOk, WithRecord, RecoveredState, r, tx
    <2> QED BY <2>1, <1>3, <1>4, <1>5, EventUpdate
  <1> QED BY <1>6 DEF new, r, tx

\* RollbackResolveComplete gives a rollback its intended outcome and keeps JournalInv.
LEMMA RollbackResolveCompleteFacts ==
    ASSUME NEW st, JournalInv(st), NEW id \in Ids,
           st.pending = id,
           st.transactions[id].rollback.pending # "None"
    PROVE  LET new == RollbackResolveComplete(st, id, st.transactions[id].rollback.id)
               r   == st.reservations[id]
               tx  == [st.transactions[id] EXCEPT !.rollback =
                         [@ EXCEPT !.pending = "None",
                                   !.resolution = st.transactions[id].rollback.pending]]
               open == IF Resolved(st.transactions[id].rollback.pending)
                       THEN NoId ELSE st.openRollback
           IN Changes(new, st, id, r, tx, NoId, st.openTransaction, open)
  <1> DEFINE new == RollbackResolveComplete(st, id, st.transactions[id].rollback.id)
             r   == st.reservations[id]
             tx  == [st.transactions[id] EXCEPT !.rollback =
                       [@ EXCEPT !.pending = "None",
                                 !.resolution = st.transactions[id].rollback.pending]]
             open == IF Resolved(st.transactions[id].rollback.pending)
                     THEN NoId ELSE st.openRollback
  <1>1. RecordOk(st, id)
    BY RecordFacts
  <1>2. new = [st EXCEPT !.pending = NoId,
                !.transactions[id].rollback = [@ EXCEPT !.pending = "None",
                !.resolution = st.transactions[id].rollback.pending],
                !.openRollback
                   = IF Resolved(st.transactions[id].rollback.pending) THEN NoId ELSE @]
    BY <1>1 DEF RollbackResolveComplete, RecordOk, Guarded, RecordInv, PendingInv
  <1>3. r \in ReservationRecord /\ tx \in TransactionRecord
    BY <1>1 DEF RecordOk, ReservationRecord, TransactionRecord, RollbackRecord,
       ReservationPhase,
       Outcome, RollbackOutcome, NoReservation, NoTransaction, NoRollback, Resolved
  <1>4. RecordInv(id, r, tx, NoId, st.openTransaction, open)
    <2>1. /\ tx.resolution = st.transactions[id].resolution
          /\ tx.pending = st.transactions[id].pending
          /\ tx.rollback.id = st.transactions[id].rollback.id
          /\ tx.rollback.pending = "None"
          /\ tx.rollback.resolution = st.transactions[id].rollback.pending
      BY <1>1 DEF RecordOk, TransactionRecord, RollbackRecord
    <2>2. st.transactions[id].rollback.pending \in RollbackOutcome
      BY <1>1 DEF RecordOk, RollbackRecord
    <2> HIDE DEF tx
    <2> QED BY <1>1, <2>1, <2>2 DEF RecordOk, RecordInv, PendingInv, TransactionInv,
        Resolved, RollbackOutcome
  <1>5. /\ {st.pending, NoId} \subseteq {NoId, id}
        /\ Moves(id, st.openTransaction, st.openTransaction)
        /\ Moves(id, st.openRollback, open)
        /\ st.openTransaction = NoId \/ open = NoId
        /\ st.reservations[id].phase # "Absent"
    BY <1>1 DEF RecordOk, Moves, RecordInv, PendingInv
  <1> HIDE DEF new, r, tx, open
  <1>6. Changes(new, st, id, r, tx, NoId, st.openTransaction, open)
    <2>1. new = WithRecord(st, id, r, tx, NoId, st.openTransaction, open)
      <3>1. st.reservations = [st.reservations EXCEPT ![id] = r]
        BY <1>1 DEF RecordOk, RecoveredState, r
      <3>2. [st.transactions EXCEPT ![id].rollback =
                [@ EXCEPT !.pending = "None",
                          !.resolution = st.transactions[id].rollback.pending]]
            = [st.transactions EXCEPT ![id] = tx]
        BY <1>1 DEF RecordOk, RecoveredState, tx
      <3>3. new = [st EXCEPT !.pending = NoId, !.openRollback = open,
                     !.transactions = [st.transactions EXCEPT ![id].rollback =
                        [@ EXCEPT !.pending = "None",
                                  !.resolution = st.transactions[id].rollback.pending]]]
        BY <1>1, <1>2 DEF RecordOk, RecoveredState, open
      <3>4. new = [st EXCEPT !.pending = NoId, !.openRollback = open,
                     !.transactions = [st.transactions EXCEPT ![id] = tx]]
        BY <3>2, <3>3
      <3> QED BY <3>1, <3>4, <1>1 DEF RecordOk, WithRecord, RecoveredState
    <2> QED BY <2>1, <1>3, <1>4, <1>5, EventUpdate
  <1> QED BY <1>6 DEF new, r, tx, open

\* CancelIntent marks a reservation as being cancelled and keeps JournalInv.
LEMMA CancelIntentFacts ==
    ASSUME NEW st, JournalInv(st), NEW id \in Ids,
           st.pending = NoId,
           st.reservations[id].phase = "Reserved",
           Cardinality(Released(st)) <= MaxRetained
    PROVE  LET new == CancelIntent(st, id)
               r   == [st.reservations[id] EXCEPT !.phase = "CancelPending"]
               tx  == st.transactions[id]
           IN Changes(new, st, id, r, tx, id, st.openTransaction, st.openRollback)
  <1> DEFINE new == CancelIntent(st, id)
             r   == [st.reservations[id] EXCEPT !.phase = "CancelPending"]
             tx  == st.transactions[id]
  <1>1. RecordOk(st, id)
    BY RecordFacts
  <1>2. new = [st EXCEPT !.pending = id, !.reservations[id].phase = "CancelPending"]
    BY <1>1 DEF CancelIntent, Guarded
  <1>3. r \in ReservationRecord /\ tx \in TransactionRecord
    BY <1>1 DEF RecordOk, ReservationRecord, ReservationPhase
  <1>4. RecordInv(id, r, tx, id, st.openTransaction, st.openRollback)
    BY <1>1, <1>3 DEF RecordOk, RecordInv, PendingInv, TransactionInv
  <1>5. /\ {st.pending, id} \subseteq {NoId, id}
        /\ Moves(id, st.openTransaction, st.openTransaction)
        /\ Moves(id, st.openRollback, st.openRollback)
        /\ st.openTransaction = NoId \/ st.openRollback = NoId
        /\ st.reservations[id].phase # "Absent"
    BY <1>1 DEF RecordOk, Moves
  <1> HIDE DEF new, r, tx
  <1>6. Changes(new, st, id, r, tx, id, st.openTransaction, st.openRollback)
    <2>1. new = WithRecord(st, id, r, tx, id, st.openTransaction, st.openRollback)
      BY <1>1, <1>2 DEF RecordOk, WithRecord, RecoveredState, r, tx
    <2> QED BY <2>1, <1>3, <1>4, <1>5, EventUpdate
  <1> QED BY <1>6 DEF new, r, tx

\* RetireIntent marks a resolved backup as being retired and keeps JournalInv.
LEMMA RetireIntentFacts ==
    ASSUME NEW st, JournalInv(st), NEW id \in Ids,
           st.pending = NoId,
           st.reservations[id].phase = "Durable",
           Resolved(st.transactions[id].resolution),
           RollbackClosed(st.transactions[id]),
           Cardinality(Released(st)) <= MaxRetained
    PROVE  LET new == RetireIntent(st, id)
               r   == [st.reservations[id] EXCEPT !.phase = "RetirePending",
                                                  !.resolution
                                                     = st.transactions[id].resolution]
               tx  == st.transactions[id]
           IN Changes(new, st, id, r, tx, id, st.openTransaction, st.openRollback)
  <1> DEFINE new == RetireIntent(st, id)
             r   == [st.reservations[id] EXCEPT !.phase = "RetirePending",
                                                !.resolution
                                                   = st.transactions[id].resolution]
             tx  == st.transactions[id]
  <1>1. RecordOk(st, id)
    BY RecordFacts
  <1>2. new = [st EXCEPT !.pending = id,
                !.reservations[id].phase = "RetirePending",
                !.reservations[id].resolution = st.transactions[id].resolution]
    BY <1>1 DEF RetireIntent, RecordOk, Guarded, RecordInv, TransactionInv, Resolved,
        RollbackClosed
  <1>3. r \in ReservationRecord /\ tx \in TransactionRecord
    BY <1>1 DEF RecordOk, ReservationRecord, TransactionRecord, ReservationPhase, Resolved
  <1>4. RecordInv(id, r, tx, id, st.openTransaction, st.openRollback)
    BY <1>1, <1>3 DEF RecordOk, RecordInv, PendingInv, TransactionInv
  <1>5. /\ {st.pending, id} \subseteq {NoId, id}
        /\ Moves(id, st.openTransaction, st.openTransaction)
        /\ Moves(id, st.openRollback, st.openRollback)
        /\ st.openTransaction = NoId \/ st.openRollback = NoId
        /\ st.reservations[id].phase # "Absent"
    BY <1>1 DEF RecordOk, Moves
  <1> HIDE DEF new, r, tx
  <1>6. Changes(new, st, id, r, tx, id, st.openTransaction, st.openRollback)
    <2>1. new = WithRecord(st, id, r, tx, id, st.openTransaction, st.openRollback)
      BY <1>1, <1>2 DEF RecordOk, WithRecord, RecoveredState, r, tx
    <2> QED BY <2>1, <1>3, <1>4, <1>5, EventUpdate
  <1> QED BY <1>6 DEF new, r, tx

\* reserve_backup marks the identifier as seen and adds its reservation.
LEMMA ReserveIntentFacts ==
    ASSUME NEW st, JournalInv(st), NEW id \in Ids, NEW draft \in Drafts,
       NEW par \in Parents,
           st.pending = NoId, st.openTransaction = NoId, st.openRollback = NoId,
           id \notin st.seen,
           Cardinality(Active(st)) < MaxReservations,
           Cardinality(Released(st)) <= MaxRetained
    PROVE  LET new == ReserveIntent(st, id, draft, par)
               r   == [phase |-> "ReservePending", draft |-> draft, parent |-> par,
                       resolution |-> "Absent"]
           IN Changes(new, st, id, r, st.transactions[id], id, NoId, NoId)
  <1> DEFINE new  == ReserveIntent(st, id, draft, par)
             r    == [phase |-> "ReservePending", draft |-> draft, parent |-> par,
                      resolution |-> "Absent"]
             tx   == st.transactions[id]
             seen == [st EXCEPT !.seen = @ \cup {id}]
  <1>1. RecordOk(st, id)
    BY RecordFacts
  <1>2. id \notin Active(st) /\ id \notin Released(st)
    BY DEF JournalInv, ReleaseInv
  <1>3. /\ seen \in RecoveredState /\ seen.verdict = st.verdict
        /\ seen.reservations = st.reservations /\ seen.transactions = st.transactions
        /\ seen.pending = NoId /\ seen.openTransaction = NoId /\ seen.openRollback = NoId
        /\ seen.released = st.released /\ seen.seen = st.seen \cup {id}
    BY <1>1 DEF RecordOk, RecoveredState
  <1>4. new = [st EXCEPT !.seen = @ \cup {id}, !.pending = id, !.reservations[id] = r]
    BY <1>2 DEF ReserveIntent, Guarded
  <1>5. RecordInv(id, r, tx, id, NoId, NoId)
    BY <1>1, <1>2 DEF RecordOk, RecordInv, PendingInv, TransactionInv
  <1>6. r \in ReservationRecord /\ tx \in TransactionRecord
    BY <1>1 DEF RecordOk, ReservationRecord, ReservationPhase
  <1> HIDE DEF new, r, tx, seen
  <1>7. Released(seen) = Released(st) /\ Active(seen) = Active(st)
    BY <1>3 DEF Released, Active
  <1>8. JournalInv(seen)
    <2>1. ReleaseInv(seen)
      BY <1>3, <1>7 DEF JournalInv, ReleaseInv
    <2> QED BY <2>1, <1>3 DEF JournalInv
  <1>9. Updates(new, seen, id, r, tx, id, NoId, NoId)
    <2>1. /\ [st.reservations EXCEPT ![id] = r] \in [Ids -> ReservationRecord]
          /\ st.seen \cup {id} \in SUBSET Ids
          /\ st.transactions = [st.transactions EXCEPT ![id] = tx]
      BY <1>1, <1>6 DEF RecordOk, RecoveredState, tx
    <2>2. new = [st EXCEPT !.seen = st.seen \cup {id}, !.pending = id,
                           !.reservations = [st.reservations EXCEPT ![id] = r]]
      BY <1>1, <1>4 DEF RecordOk, RecoveredState
    <2>3. /\ new \in RecoveredState /\ new.verdict = st.verdict
          /\ new.reservations = [st.reservations EXCEPT ![id] = r]
          /\ new.transactions = st.transactions
          /\ new.pending = id /\ new.openTransaction = NoId /\ new.openRollback = NoId
          /\ new.released = st.released /\ new.seen = st.seen \cup {id}
      BY <2>1, <2>2, <1>1 DEF RecordOk, RecoveredState
    <2> QED BY <2>1, <2>3, <1>3 DEF Updates
  <1>10. JournalInv(new)
    <2>1. {seen.pending, id} \subseteq {NoId, id} /\ id \in seen.seen
        /\ id \notin Released(seen)
      BY <1>2, <1>3, <1>7
    <2>2. Moves(id, seen.openTransaction, NoId) /\ Moves(id, seen.openRollback, NoId)
      BY <1>3 DEF Moves
    <2> QED BY <2>1, <2>2, <1>5, <1>7, <1>8, <1>9, RecordUpdate
  <1>11. Changes(new, st, id, r, tx, id, NoId, NoId)
    BY <1>3, <1>9, <1>10 DEF Updates, Changes
  <1> QED BY <1>11 DEF new, r, tx

\* A tombstone is added for an identifier whose reservation is gone.
LEMMA ReleaseAdded ==
    ASSUME NEW st, JournalInv(st), NEW id \in Ids, NEW release \in ReleaseTombstone,
           st.pending = NoId, st.reservations[id].phase = "Absent", id \in st.seen,
           Cardinality(Released(st)) <= MaxRetained,
           NEW new, new = [st EXCEPT !.released = [@ EXCEPT ![id] = release]]
    PROVE  /\ JournalInv(new)
           /\ new.reservations = st.reservations /\ new.transactions = st.transactions
           /\ new.pending = st.pending /\ new.openTransaction = st.openTransaction
           /\ new.openRollback = st.openRollback
  <1>1. st \in RecoveredState /\ ReleaseInv(st)
    BY DEF JournalInv
  <1>2. /\ new \in RecoveredState /\ new.verdict = st.verdict
        /\ new.reservations = st.reservations /\ new.transactions = st.transactions
        /\ new.pending = NoId /\ new.openTransaction = st.openTransaction
        /\ new.openRollback = st.openRollback /\ new.seen = st.seen
        /\ new.released = [st.released EXCEPT ![id] = release]
    BY <1>1 DEF RecoveredState
  <1>3. Released(new) \subseteq Released(st) \cup {id} /\ Active(new) = Active(st)
    BY <1>1, <1>2 DEF Released, Active, RecoveredState
  <1>4. Cardinality(Released(new)) <= MaxRetained + 1
    <2>1. IsFiniteSet(Released(st))
      BY IdAssumption, FS_Subset DEF Released
    <2>2. /\ IsFiniteSet(Released(st) \cup {id})
          /\ Cardinality(Released(st) \cup {id}) <= Cardinality(Released(st)) + 1
      <3>1. Cardinality(Released(st)) \in Nat
        BY <2>1, FS_CardinalityType
      <3>2. /\ IsFiniteSet(Released(st) \cup {id})
            /\ Cardinality(Released(st) \cup {id}) =
                 IF id \in Released(st) THEN Cardinality(Released(st))
                                        ELSE Cardinality(Released(st)) + 1
        BY <2>1, FS_AddElement
      <3> QED BY <3>1, <3>2
    <2>3. /\ Cardinality(Released(new)) <= Cardinality(Released(st) \cup {id})
          /\ Cardinality(Released(new)) \in Nat
          /\ Cardinality(Released(st) \cup {id}) \in Nat
      BY <2>2, <1>3, FS_Subset, FS_CardinalityType
    <2>4. Cardinality(Released(st)) \in Nat /\ MaxRetained \in Nat
      BY <2>1, FS_CardinalityType, LimitAssumption
    <2> QED BY <2>2, <2>3, <2>4
  <1>5. ReleaseInv(new)
    <2>1. \A k \in Released(new) : new.reservations[k].phase = "Absent"
      BY <1>1, <1>2, <1>3 DEF ReleaseInv
    <2>2. Active(new) \cup Released(new) \subseteq new.seen
      BY <1>1, <1>2, <1>3 DEF ReleaseInv
    <2> QED BY <2>1, <2>2, <1>2, <1>4 DEF ReleaseInv
  <1> QED BY <1>2, <1>5 DEF JournalInv

\* cancel_reserved and retire_backup replace the reservation by a tombstone.
LEMMA ReleaseCompleteFacts ==
    ASSUME NEW st, JournalInv(st), NEW id \in Ids, st.pending = id,
           st.reservations[id].phase \in {"CancelPending", "RetirePending"}
    PROVE  \E tx \in TransactionRecord :
              Changes(ReleaseComplete(st, id), st, id, NoReservation, tx, NoId,
                      st.openTransaction, st.openRollback)
              /\ tx = IF st.reservations[id].phase = "RetirePending" THEN NoTransaction
                                                                  ELSE st.transactions[id]
  <1> DEFINE new     == ReleaseComplete(st, id)
             r       == st.reservations[id]
             retire  == r.phase = "RetirePending"
             tx      == IF retire THEN NoTransaction ELSE st.transactions[id]
             release == [operation |-> IF retire THEN "Retire" ELSE "Cancel",
                         record |-> r, at |-> st.clock]
             gone    == WithRecord(st, id, NoReservation, tx, NoId,
                                   st.openTransaction, st.openRollback)
  <1>1. RecordOk(st, id)
    BY RecordFacts
  <1>2. Cardinality(Released(st)) <= MaxRetained
    BY <1>1 DEF RecordOk, JournalInv, ReleaseInv
  <1>3. Cardinality(Released(st)) < MaxReleaseTombstones /\ id \notin Released(st)
    <2>1. Cardinality(Released(st)) \in Nat
      BY IdAssumption, FS_Subset, FS_CardinalityType DEF Released
    <2> QED BY <2>1, <1>1, <1>2, LimitAssumption DEF RecordOk
  <1>4. NoReservation \in ReservationRecord /\ tx \in TransactionRecord
    BY <1>1 DEF RecordOk, NoReservation, ReservationRecord, ReservationPhase, NoTransaction,
       NoRollback, TransactionRecord, RollbackRecord
  <1>5. release \in ReleaseTombstone
    BY <1>1 DEF RecordOk, RecoveredState, ReleaseTombstone
  <1>6. new = [st EXCEPT !.pending = NoId, !.reservations[id] = NoReservation,
                         !.transactions[id] = tx, !.released[id] = release]
    <2>1. st.restoring = <<>>
      BY <1>1 DEF RecordOk, RecoveredState
    <2>2. CASE retire
      <3>1. /\ Resolved(st.transactions[id].resolution)
            /\ RollbackClosed(st.transactions[id])
            /\ st.openTransaction # id /\ st.openRollback # id
        BY <2>2, <1>1 DEF RecordOk, RecordInv, TransactionInv, Resolved, RollbackClosed
      <3> QED BY <3>1, <2>1, <2>2, <1>3 DEF ReleaseComplete, RetireComplete, Guarded,
              ReleaseTime, ReleaseTimeOk
    <2>3. CASE ~retire
      <3>1. new = [st EXCEPT !.pending = NoId, !.reservations[id] = NoReservation,
                             !.released[id] = release]
        BY <2>1, <2>3, <1>3 DEF ReleaseComplete, CancelComplete, Guarded, ReleaseTime,
           ReleaseTimeOk
      <3>2. st = [st EXCEPT !.transactions[id] = tx]
        BY <2>3, <1>1 DEF RecordOk, RecoveredState
      <3> QED BY <3>1, <3>2, <1>1 DEF RecordOk, RecoveredState
    <2> QED BY <2>2, <2>3
  <1>7. RecordInv(id, NoReservation, tx, NoId, st.openTransaction, st.openRollback)
    BY <1>1 DEF RecordOk, RecordInv, PendingInv, TransactionInv, NoReservation,
       NoTransaction,
       NoRollback, Resolved, RollbackClosed
  <1>8. /\ {st.pending, NoId} \subseteq {NoId, id}
        /\ Moves(id, st.openTransaction, st.openTransaction)
        /\ Moves(id, st.openRollback, st.openRollback)
        /\ r.phase # "Absent"
    BY <1>1 DEF Moves
  <1>9. new = [gone EXCEPT !.released = [@ EXCEPT ![id] = release]]
    <2> HIDE DEF release, tx
    <2> QED BY <1>1, <1>6 DEF RecordOk, WithRecord, RecoveredState
  <1> HIDE DEF new, release, tx, gone
  <1>10.
      /\ Updates(gone, st, id, NoReservation, tx, NoId, st.openTransaction, st.openRollback)
         /\ Changes(gone, st, id, NoReservation, tx, NoId, st.openTransaction,
            st.openRollback)
    <2>1. st.openTransaction \in Ids \cup {NoId} /\ st.openRollback \in Ids \cup {NoId}
          /\ (st.openTransaction = NoId \/ st.openRollback = NoId)
      BY <1>1 DEF RecordOk
    <2> QED BY <2>1, <1>1, <1>4, <1>7, <1>8, WithRecordUpdates, EventUpdate DEF gone,
       RecordOk
  <1>11. /\ JournalInv(gone) /\ gone.pending = NoId
         /\ gone.reservations[id].phase = "Absent" /\ id \in gone.seen
         /\ Cardinality(Released(gone)) <= MaxRetained
    <2>1. Released(gone) = Released(st)
      BY <1>10 DEF Updates, Released
    <2> QED BY <2>1, <1>1, <1>2, <1>8, <1>10
            DEF Changes, Updates, RecordOk, RecoveredState, NoReservation
  <1>12. /\ JournalInv(new)
         /\ new.reservations = gone.reservations /\ new.transactions = gone.transactions
         /\ new.pending = gone.pending /\ new.openTransaction = gone.openTransaction
         /\ new.openRollback = gone.openRollback
    BY <1>5, <1>9, <1>11, ReleaseAdded
  <1>13. Changes(new, st, id, NoReservation, tx, NoId, st.openTransaction, st.openRollback)
    BY <1>10, <1>12 DEF Changes
  <1> QED BY <1>4, <1>13 DEF new, tx

(***************************************************************************)
(* Compaction keeps everything but old tombstones.                         *)
(***************************************************************************)
LEMMA CompactionFacts ==
    ASSUME NEW st, JournalInv(st), st.pending = NoId
    PROVE  LET new == CompactedState(st) IN
           /\ JournalInv(new)
           /\ new.reservations = st.reservations /\ new.transactions = st.transactions
           /\ new.pending = NoId
  <1> DEFINE new  == CompactedState(st)
             kept == RetainedReleases(st)
             seen == Active(st) \cup kept
             released == [id \in Ids |-> IF id \in kept THEN st.released[id] ELSE NoRelease]
  <1>1. st \in RecoveredState /\ ReleaseInv(st)
    BY DEF JournalInv
  <1>2. kept \subseteq Released(st) /\ Released(st) \subseteq Ids
      /\ Active(st) \subseteq Ids
    BY DEF RetainedReleases, Released, Active
  <1>3. NoRelease \in ReleaseTombstone
    BY DEF NoRelease, ReleaseTombstone, NoReservation, ReservationRecord, ReservationPhase
  <1>4. released \in [Ids -> ReleaseTombstone]
    BY <1>1, <1>3 DEF RecoveredState
  <1>5. seen \in SUBSET Ids
    BY <1>2
  <1>6. new = [st EXCEPT !.released = released, !.seen = seen,
                         !.generation = st.generation + 1]
    BY <1>1 DEF CompactedState, RecoveredState
  <1> HIDE DEF new, kept, released, seen
  <1>7. /\ new \in RecoveredState /\ new.verdict = st.verdict
        /\ new.reservations = st.reservations /\ new.transactions = st.transactions
        /\ new.pending = NoId /\ new.openTransaction = st.openTransaction
        /\ new.openRollback = st.openRollback /\ new.seen = seen
        /\ new.released = released
    <2>1. st.generation + 1 \in Nat
      BY <1>1 DEF RecoveredState
    <2>2. ASSUME NEW g \in Nat, new = [st EXCEPT !.released = released, !.seen = seen,
                                                 !.generation = g]
          PROVE  /\ new \in RecoveredState /\ new.verdict = st.verdict
                 /\ new.reservations = st.reservations /\ new.transactions = st.transactions
                 /\ new.pending = NoId /\ new.openTransaction = st.openTransaction
                 /\ new.openRollback = st.openRollback /\ new.seen = seen
                 /\ new.released = released
      BY <2>2, <1>1, <1>4, <1>5 DEF RecoveredState
    <2> QED BY <2>1, <2>2, <1>6
  <1>8. Released(new) = kept /\ Active(new) = Active(st)
    BY <1>2, <1>7 DEF Released, Active, NoRelease, released
  <1>9. Cardinality(kept) <= MaxRetained + 1
    <2>1. IsFiniteSet(Released(st))
      BY <1>2, IdAssumption, FS_Subset
    <2>2. Cardinality(kept) <= Cardinality(Released(st))
          /\ Cardinality(kept) \in Nat /\ Cardinality(Released(st)) \in Nat
      BY <2>1, <1>2, FS_Subset, FS_CardinalityType
    <2> QED BY <2>2, <1>1, LimitAssumption DEF ReleaseInv
  <1>10. ReleaseInv(new)
    BY <1>1, <1>2, <1>7, <1>8, <1>9 DEF ReleaseInv, seen
  <1> QED BY <1>7, <1>10 DEF JournalInv, new

(***************************************************************************)
(* The actions of the store.                                               *)
(***************************************************************************)
\* An event appended by an action: Tick leaves the records alone.
LEMMA ChangesSinceTick ==
    ASSUME JournalInv(disk), NEW new, NEW id \in Ids, NEW r, NEW tx, NEW p, NEW ot, NEW or,
           Changes(new, Tick(disk), id, r, tx, p, ot, or)
    PROVE  Changes(new, disk, id, r, tx, p, ot, or)
  BY TickFacts DEF Changes

\* What a step does to the transactions.
Follows(old, new) == KeepsResolution(old, new) /\ FollowsIntent(old, new)

TransactionsFollow ==
    \A id \in Ids : Follows(disk.transactions[id], disk'.transactions[id])

\* A step that leaves the transactions alone follows them trivially.
LEMMA SameTransactions ==
    ASSUME disk'.transactions = disk.transactions
    PROVE  TransactionsFollow
  BY DEF TransactionsFollow, Follows, KeepsResolution, FollowsIntent

\* An action that appends one event about id and does not touch the files.
LEMMA AppendStep ==
    ASSUME StoreInv, NEW id \in Ids, NEW r, NEW tx, NEW p, NEW ot, NEW or,
           Changes(disk', disk, id, r, tx, p, ot, or),
           events < MaxEvents, events' = events + 1, p # NoId => events + 2 <= MaxEvents,
           Follows(disk.transactions[id], tx),
           FileKept(id, r.phase), UNCHANGED <<files, handle, boot, parent, faults, lost>>,
           step \notin UnsyncedStep,
           LeaseRecorded(r, tx, txLeases'[id], rbLeases'[id], boot),
           txLeases' \in [Ids -> Nat], rbLeases' \in [Ids -> Nat],
           \A k \in Ids \ {id} : txLeases'[k] = txLeases[k] /\ rbLeases'[k] = rbLeases[k],
           issued \subseteq issued', issued' \subseteq Ids, id \in issued',
           checkedOut' \subseteq Ids,
           step' \in HandlerStep \cup OpeningStep \cup {"idle"}, StepInv'
    PROVE  StoreInv' /\ TransactionsFollow
  <1>1. /\ JournalInv(disk') /\ disk'.pending = p
        /\ disk'.reservations = [disk.reservations EXCEPT ![id] = r]
        /\ disk'.transactions = [disk.transactions EXCEPT ![id] = tx]
    BY DEF Changes
  <1>2. /\ disk.reservations \in [Ids -> ReservationRecord]
        /\ disk.transactions \in [Ids -> TransactionRecord]
    BY DEF StoreInv, TypeOK, RecoveredState
  <1>3. /\ disk'.reservations[id] = r /\ disk'.transactions[id] = tx
        /\ \A k \in Ids \ {id} : /\ disk'.reservations[k] = disk.reservations[k]
                                 /\ disk'.transactions[k] = disk.transactions[k]
    BY <1>1, <1>2
  <1>4. TypeOK'
    <2>1. disk' \in RecoveredState
      BY <1>1 DEF JournalInv
    <2>2. events' \in 0..MaxEvents
      BY EventAssumption DEF StoreInv, TypeOK
    <2> QED BY <2>1, <2>2 DEF StoreInv, TypeOK, files
  <1>5. FilesMatchJournal' /\ SyncInv'
    BY <1>3 DEF StoreInv, FilesMatchJournal, FileKept, SyncInv, files
  <1>6. LeaseInv'
    BY <1>3 DEF StoreInv, LeaseInv
  <1>7. ReconciliationHasRoom'
    BY <1>1, EventAssumption DEF ReconciliationHasRoom, StoreInv, TypeOK
  <1>8. TransactionsFollow
    BY <1>3 DEF TransactionsFollow, Follows, KeepsResolution, FollowsIntent
  <1> QED BY <1>1, <1>4, <1>5, <1>6, <1>7, <1>8 DEF StoreInv

\* The same for an event that leaves the leases and the identifiers alone.
LEMMA QuietStep ==
    ASSUME StoreInv, NEW id \in Ids, NEW r, NEW tx, NEW p, NEW ot, NEW or,
           Changes(disk', disk, id, r, tx, p, ot, or),
           events < MaxEvents, events' = events + 1, p # NoId => events + 2 <= MaxEvents,
           Follows(disk.transactions[id], tx),
           FileKept(id, r.phase), UNCHANGED <<files, handle, environment>>,
           step \notin UnsyncedStep,
           LeaseRecorded(r, tx, txLeases[id], rbLeases[id], boot),
           disk.reservations[id].phase # "Absent",
           checkedOut' \subseteq Ids,
           step' \in HandlerStep \cup OpeningStep \cup {"idle"}, StepInv'
    PROVE  StoreInv' /\ TransactionsFollow
  <1>1. /\ txLeases' = txLeases /\ rbLeases' = rbLeases /\ issued' = issued
        /\ UNCHANGED <<files, handle, boot, parent, faults, lost>>
    BY DEF environment
  <1>2. /\ txLeases \in [Ids -> Nat] /\ rbLeases \in [Ids -> Nat]
        /\ issued \subseteq Ids /\ id \in issued
    BY DEF StoreInv, TypeOK, LeaseInv
  <1> QED BY <1>1, <1>2, AppendStep

\* A step that changes what a process sees of the pending file keeps StoreInv.
LEMMA ChangeStep ==
    ASSUME StoreInv, NEW id \in Ids, id = disk.pending, NEW f \in FileState,
           file' = [file EXCEPT ![id] = f],
           disk.reservations[id].phase \notin SettledPhase,
           step' \in UnsyncedStep \/ (step \notin UnsyncedStep /\ f = file[id]),
           UNCHANGED <<disk, events, stable, handle, checkedOut, environment>>,
           step' \in HandlerStep \cup OpeningStep \cup {"idle"}, StepInv'
    PROVE  StoreInv' /\ TransactionsFollow
  <1>1. UNCHANGED <<boot, parent, issued, txLeases, rbLeases, faults, lost>>
    BY DEF environment
  <1>2. TypeOK'
    BY <1>1 DEF StoreInv, TypeOK
  <1>3. FilesMatchJournal'
    BY <1>1 DEF StoreInv, TypeOK, FilesMatchJournal, FileKept, FileMatches, SettledPhase
  <1>4. SyncInv'
    BY <1>1 DEF StoreInv, TypeOK, SyncInv
  <1>5. LeaseInv' /\ ReconciliationHasRoom' /\ JournalInv(disk')
    BY <1>1 DEF StoreInv, LeaseInv, ReconciliationHasRoom
  <1> QED BY <1>2, <1>3, <1>4, <1>5, SameTransactions DEF StoreInv

\* A synchronization of the pending file keeps StoreInv.
LEMMA SyncStep ==
    ASSUME StoreInv, disk.pending \in Ids,
           stable' = [stable EXCEPT ![disk.pending] = file[disk.pending]],
           UNCHANGED <<disk, events, file, handle, checkedOut, environment>>,
           step' \in HandlerStep \cup OpeningStep \cup {"idle"}, StepInv'
    PROVE  StoreInv' /\ TransactionsFollow
  <1>1. UNCHANGED <<boot, parent, issued, txLeases, rbLeases, faults, lost>>
    BY DEF environment
  <1>2. TypeOK'
    BY <1>1 DEF StoreInv, TypeOK
  <1>3. FilesMatchJournal' /\ SyncInv'
    BY <1>1 DEF StoreInv, TypeOK, FilesMatchJournal, FileKept, SyncInv
  <1>4. LeaseInv' /\ ReconciliationHasRoom' /\ JournalInv(disk')
    BY <1>1 DEF StoreInv, LeaseInv, ReconciliationHasRoom
  <1> QED BY <1>2, <1>3, <1>4, SameTransactions DEF StoreInv

\* The pending identifier while an operation is in progress.
LEMMA PendingFacts ==
    ASSUME StoreInv, disk.pending # NoId
    PROVE  /\ disk.pending \in Ids
           /\ RecordOk(disk, disk.pending)
           /\ FileKept(disk.pending, disk.reservations[disk.pending].phase)
           /\ LeaseRecorded(disk.reservations[disk.pending],
              disk.transactions[disk.pending],
                            txLeases[disk.pending], rbLeases[disk.pending], boot)
           /\ disk.reservations[disk.pending].phase # "Absent"
  <1>1. disk.pending \in Ids
    BY DEF StoreInv, TypeOK, RecoveredState
  <1>2. RecordOk(disk, disk.pending)
    BY <1>1, RecordFacts DEF StoreInv
  <1>3. disk.reservations[disk.pending].phase # "Absent"
    BY <1>2 DEF RecordOk, RecordInv, PendingInv
  <1> QED BY <1>1, <1>2, <1>3 DEF StoreInv, FilesMatchJournal, LeaseInv

\* After the last step of an operation or of a reconciliation.
LEMMA IdleStepInv ==
    ASSUME StoreInv, UNCHANGED handle,
           step' = "idle" \/ (step' = "Layout" /\ step # "idle" /\ disk'.pending = NoId)
    PROVE  StepInv'
  BY DEF StoreInv, StepInv

\* What an operation knows once it has made room for its events.
LEMMA RoomFacts ==
    ASSUME StoreInv, NEW n \in {1, 2}, Room(n)
    PROVE  /\ events + n <= MaxEvents /\ events < MaxEvents /\ events \in Nat
           /\ Cardinality(Released(disk)) <= MaxRetained
  <1>1. events \in Nat /\ MaxEvents \in Nat /\ events + n <= MaxEvents
    BY EventAssumption DEF StoreInv, TypeOK, Room
  <1>2. Cardinality(Released(disk)) \in Nat
    BY IdAssumption, FS_Subset, FS_CardinalityType DEF Released
  <1>3. ~(Cardinality(Released(disk)) > MaxRetained)
    BY DEF Room, CompactionDue
  <1> QED BY <1>1, <1>2, <1>3, LimitAssumption

\* The logical clock moves and the event list grows; the records are as before.
LEMMA DiskFacts ==
    ASSUME StoreInv
    PROVE  /\ JournalInv(disk) /\ JournalInv(Tick(disk))
           /\ Tick(disk).reservations = disk.reservations
           /\ Tick(disk).transactions = disk.transactions
           /\ Tick(disk).pending = disk.pending
           /\ Tick(disk).openTransaction = disk.openTransaction
           /\ Tick(disk).openRollback = disk.openRollback
           /\ Tick(disk).seen = disk.seen
           /\ Released(Tick(disk)) = Released(disk) /\ Active(Tick(disk)) = Active(disk)
  BY TickFacts DEF StoreInv, Active

\* The append that completes a reservation, by its handler or at open, keeps StoreInv.
LEMMA ReserveCompleteStep ==
    ASSUME StoreInv, NEW id, id = disk.pending, id # NoId,
           disk.reservations[id].phase = "ReservePending",
           file[id] = "zero",
           AppendEvent(ReserveComplete(Tick(disk), id)),
           UNCHANGED <<files, handle, environment>>, checkedOut' \subseteq Ids,
           step \notin UnsyncedStep,
           step' = "idle" \/ (step' = "Layout" /\ step # "idle")
    PROVE  StoreInv' /\ TransactionsFollow
  <1> DEFINE st == Tick(disk)
             r  == [disk.reservations[id] EXCEPT !.phase = "Reserved"]
             tx == disk.transactions[id]
  <1>1. /\ id \in Ids /\ RecordOk(disk, id)
        /\ FileKept(id, disk.reservations[id].phase)
        /\ LeaseRecorded(disk.reservations[id], disk.transactions[id], txLeases[id],
           rbLeases[id], boot)
        /\ disk.reservations[id].phase # "Absent"
    BY PendingFacts
  <1>2. /\ JournalInv(disk) /\ JournalInv(st)
        /\ st.reservations = disk.reservations /\ st.transactions = disk.transactions
        /\ st.pending = disk.pending
        /\ st.openTransaction = disk.openTransaction /\ st.openRollback = disk.openRollback
    BY DiskFacts
  <1>3. FileKept(id, r.phase)
    BY <1>1 DEF FileKept, FileMatches
  <1>4. LeaseRecorded(r, tx, txLeases[id], rbLeases[id], boot)
    BY <1>1 DEF LeaseRecorded
  <1>5. Follows(disk.transactions[id], tx)
    BY <1>1 DEF Follows, KeepsResolution, FollowsIntent
  <1>6. events < MaxEvents /\ events' = events + 1 /\ disk' = ReserveComplete(st, id)
    BY DEF AppendEvent
  <1> HIDE DEF st
  <1>7. Changes(disk', st, id, r, tx, NoId, disk.openTransaction, disk.openRollback)
    BY <1>1, <1>2, <1>6, ReserveCompleteFacts
  <1> HIDE DEF r, tx
  <1>8. Changes(disk', disk, id, r, tx, NoId, disk.openTransaction, disk.openRollback)
    BY <1>1, <1>2, <1>7, ChangesSinceTick DEF st
  <1>9. StepInv'
    BY <1>8, IdleStepInv DEF Changes
  <1>10. step' \in HandlerStep \cup OpeningStep \cup {"idle"}
    BY DEF OpeningStep
  <1> QED BY <1>1, <1>3, <1>4, <1>5, <1>6, <1>8, <1>9, <1>10, QuietStep

\* The append that aborts a reservation at open keeps StoreInv.
LEMMA ReserveAbortStep ==
    ASSUME StoreInv, NEW id, id = disk.pending, id # NoId,
           disk.reservations[id].phase = "ReservePending",
           file[id] = "absent",
           AppendEvent(ReserveAbort(Tick(disk), id)),
           UNCHANGED <<files, handle, environment>>, checkedOut' \subseteq Ids,
           step \notin UnsyncedStep,
           step' = "idle" \/ (step' = "Layout" /\ step # "idle")
    PROVE  StoreInv' /\ TransactionsFollow
  <1> DEFINE st == Tick(disk)
             r  == NoReservation
             tx == disk.transactions[id]
  <1>1. /\ id \in Ids /\ RecordOk(disk, id)
        /\ FileKept(id, disk.reservations[id].phase)
        /\ LeaseRecorded(disk.reservations[id], disk.transactions[id], txLeases[id],
           rbLeases[id], boot)
        /\ disk.reservations[id].phase # "Absent"
    BY PendingFacts
  <1>2. /\ JournalInv(disk) /\ JournalInv(st)
        /\ st.reservations = disk.reservations /\ st.transactions = disk.transactions
        /\ st.pending = disk.pending
        /\ st.openTransaction = disk.openTransaction /\ st.openRollback = disk.openRollback
    BY DiskFacts
  <1>3. FileKept(id, r.phase)
    BY <1>1 DEF FileKept, FileMatches, NoReservation
  <1>4. LeaseRecorded(r, tx, txLeases[id], rbLeases[id], boot)
    BY <1>1 DEF LeaseRecorded
  <1>5. Follows(disk.transactions[id], tx)
    BY <1>1 DEF Follows, KeepsResolution, FollowsIntent
  <1>6. events < MaxEvents /\ events' = events + 1 /\ disk' = ReserveAbort(st, id)
    BY DEF AppendEvent
  <1> HIDE DEF st
  <1>7. Changes(disk', st, id, r, tx, NoId, disk.openTransaction, disk.openRollback)
    BY <1>1, <1>2, <1>6, ReserveAbortFacts
  <1> HIDE DEF r, tx
  <1>8. Changes(disk', disk, id, r, tx, NoId, disk.openTransaction, disk.openRollback)
    BY <1>1, <1>2, <1>7, ChangesSinceTick DEF st
  <1>9. StepInv'
    BY <1>8, IdleStepInv DEF Changes
  <1>10. step' \in HandlerStep \cup OpeningStep \cup {"idle"}
    BY DEF OpeningStep
  <1> QED BY <1>1, <1>3, <1>4, <1>5, <1>6, <1>8, <1>9, <1>10, QuietStep

\* The append that completes a backup, by its handler or at open, keeps StoreInv.
LEMMA PersistCompleteStep ==
    ASSUME StoreInv, NEW id, id = disk.pending, id # NoId,
           disk.reservations[id].phase = "PersistPending",
           file[id] = "full",
           AppendEvent(PersistComplete(Tick(disk), id)),
           UNCHANGED <<files, handle, environment>>, checkedOut' \subseteq Ids,
           step \notin UnsyncedStep,
           step' = "idle" \/ (step' = "Layout" /\ step # "idle")
    PROVE  StoreInv' /\ TransactionsFollow
  <1> DEFINE st == Tick(disk)
             r  == [disk.reservations[id] EXCEPT !.phase = "Durable"]
             tx == [NoTransaction EXCEPT !.resolution = "None"]
  <1>1. /\ id \in Ids /\ RecordOk(disk, id)
        /\ FileKept(id, disk.reservations[id].phase)
        /\ LeaseRecorded(disk.reservations[id], disk.transactions[id], txLeases[id],
           rbLeases[id], boot)
        /\ disk.reservations[id].phase # "Absent"
    BY PendingFacts
  <1>2. /\ JournalInv(disk) /\ JournalInv(st)
        /\ st.reservations = disk.reservations /\ st.transactions = disk.transactions
        /\ st.pending = disk.pending
        /\ st.openTransaction = disk.openTransaction /\ st.openRollback = disk.openRollback
    BY DiskFacts
  <1>3. FileKept(id, r.phase)
    BY <1>1 DEF FileKept, FileMatches
  <1>4. LeaseRecorded(r, tx, txLeases[id], rbLeases[id], boot)
    BY <1>1 DEF LeaseRecorded
  <1>5. Follows(disk.transactions[id], tx)
    BY <1>1 DEF RecordOk, RecordInv, PendingInv, TransactionInv, Resolved, Follows,
        KeepsResolution, FollowsIntent
  <1>6. events < MaxEvents /\ events' = events + 1 /\ disk' = PersistComplete(st, id)
    BY DEF AppendEvent
  <1> HIDE DEF st
  <1>7. Changes(disk', st, id, r, tx, NoId, id, disk.openRollback)
    BY <1>1, <1>2, <1>6, PersistCompleteFacts
  <1> HIDE DEF r, tx
  <1>8. Changes(disk', disk, id, r, tx, NoId, id, disk.openRollback)
    BY <1>1, <1>2, <1>7, ChangesSinceTick DEF st
  <1>9. StepInv'
    BY <1>8, IdleStepInv DEF Changes
  <1>10. step' \in HandlerStep \cup OpeningStep \cup {"idle"}
    BY DEF OpeningStep
  <1> QED BY <1>1, <1>3, <1>4, <1>5, <1>6, <1>8, <1>9, <1>10, QuietStep

\* The append that aborts a backup at open keeps StoreInv.
LEMMA PersistAbortStep ==
    ASSUME StoreInv, NEW id, id = disk.pending, id # NoId,
           disk.reservations[id].phase = "PersistPending",
           file[id] = "zero",
           AppendEvent(PersistAbort(Tick(disk), id)),
           UNCHANGED <<files, handle, environment>>, checkedOut' \subseteq Ids,
           step \notin UnsyncedStep,
           step' = "idle" \/ (step' = "Layout" /\ step # "idle")
    PROVE  StoreInv' /\ TransactionsFollow
  <1> DEFINE st == Tick(disk)
             r  == [disk.reservations[id] EXCEPT !.phase = "Reserved"]
             tx == disk.transactions[id]
  <1>1. /\ id \in Ids /\ RecordOk(disk, id)
        /\ FileKept(id, disk.reservations[id].phase)
        /\ LeaseRecorded(disk.reservations[id], disk.transactions[id], txLeases[id],
           rbLeases[id], boot)
        /\ disk.reservations[id].phase # "Absent"
    BY PendingFacts
  <1>2. /\ JournalInv(disk) /\ JournalInv(st)
        /\ st.reservations = disk.reservations /\ st.transactions = disk.transactions
        /\ st.pending = disk.pending
        /\ st.openTransaction = disk.openTransaction /\ st.openRollback = disk.openRollback
    BY DiskFacts
  <1>3. FileKept(id, r.phase)
    BY <1>1 DEF FileKept, FileMatches
  <1>4. LeaseRecorded(r, tx, txLeases[id], rbLeases[id], boot)
    BY <1>1 DEF LeaseRecorded
  <1>5. Follows(disk.transactions[id], tx)
    BY <1>1 DEF Follows, KeepsResolution, FollowsIntent
  <1>6. events < MaxEvents /\ events' = events + 1 /\ disk' = PersistAbort(st, id)
    BY DEF AppendEvent
  <1> HIDE DEF st
  <1>7. Changes(disk', st, id, r, tx, NoId, disk.openTransaction, disk.openRollback)
    BY <1>1, <1>2, <1>6, PersistAbortFacts
  <1> HIDE DEF r, tx
  <1>8. Changes(disk', disk, id, r, tx, NoId, disk.openTransaction, disk.openRollback)
    BY <1>1, <1>2, <1>7, ChangesSinceTick DEF st
  <1>9. StepInv'
    BY <1>8, IdleStepInv DEF Changes
  <1>10. step' \in HandlerStep \cup OpeningStep \cup {"idle"}
    BY DEF OpeningStep
  <1> QED BY <1>1, <1>3, <1>4, <1>5, <1>6, <1>8, <1>9, <1>10, QuietStep

\* The append that completes a resolution keeps StoreInv.
LEMMA TransactionResolveCompleteStep ==
    ASSUME StoreInv, NEW id, id = disk.pending, id # NoId,
           disk.transactions[id].pending # "None",
           AppendEvent(TransactionResolveComplete(Tick(disk), id)),
           UNCHANGED <<files, handle, environment>>, checkedOut' \subseteq Ids,
           step \notin UnsyncedStep,
           step' = "idle" \/ (step' = "Layout" /\ step # "idle")
    PROVE  StoreInv' /\ TransactionsFollow
  <1> DEFINE st == Tick(disk)
             r  == disk.reservations[id]
             tx  == [disk.transactions[id] EXCEPT
                       !.pending = "None", !.resolution = disk.transactions[id].pending]
             open == IF Resolved(disk.transactions[id].pending)
                     THEN NoId ELSE disk.openTransaction
  <1>1. /\ id \in Ids /\ RecordOk(disk, id)
        /\ FileKept(id, disk.reservations[id].phase)
        /\ LeaseRecorded(disk.reservations[id], disk.transactions[id], txLeases[id],
           rbLeases[id], boot)
        /\ disk.reservations[id].phase # "Absent"
    BY PendingFacts
  <1>2. /\ JournalInv(disk) /\ JournalInv(st)
        /\ st.reservations = disk.reservations /\ st.transactions = disk.transactions
        /\ st.pending = disk.pending
        /\ st.openTransaction = disk.openTransaction /\ st.openRollback = disk.openRollback
    BY DiskFacts
  <1>3. FileKept(id, r.phase)
    BY <1>1 DEF NoReservation
  <1>4. LeaseRecorded(r, tx, txLeases[id], rbLeases[id], boot)
    BY <1>1 DEF LeaseRecorded
  <1>5. Follows(disk.transactions[id], tx)
    BY <1>1 DEF RecordOk, RecordInv, PendingInv, TransactionInv, TransactionRecord, Outcome,
        Resolved, Follows, KeepsResolution, FollowsIntent
  <1>6. events < MaxEvents /\ events' = events + 1
      /\ disk' = TransactionResolveComplete(st, id)
    BY DEF AppendEvent
  <1> HIDE DEF st
  <1>7. Changes(disk', st, id, r, tx, NoId, open, disk.openRollback)
    BY <1>1, <1>2, <1>6, TransactionResolveCompleteFacts
  <1> HIDE DEF r, tx, open
  <1>8. Changes(disk', disk, id, r, tx, NoId, open, disk.openRollback)
    BY <1>1, <1>2, <1>7, ChangesSinceTick DEF st
  <1>9. StepInv'
    BY <1>8, IdleStepInv DEF Changes
  <1>10. step' \in HandlerStep \cup OpeningStep \cup {"idle"}
    BY DEF OpeningStep
  <1> QED BY <1>1, <1>3, <1>4, <1>5, <1>6, <1>8, <1>9, <1>10, QuietStep

\* The append that completes the resolution of a rollback keeps StoreInv.
LEMMA RollbackResolveCompleteStep ==
    ASSUME StoreInv, NEW id, id = disk.pending, id # NoId,
           disk.transactions[id].rollback.pending # "None",
           AppendEvent(RollbackResolveComplete(Tick(disk), id,
              disk.transactions[id].rollback.id)),
           UNCHANGED <<files, handle, environment>>, checkedOut' \subseteq Ids,
           step \notin UnsyncedStep,
           step' = "idle" \/ (step' = "Layout" /\ step # "idle")
    PROVE  StoreInv' /\ TransactionsFollow
  <1> DEFINE st == Tick(disk)
             r  == disk.reservations[id]
             tx  == [disk.transactions[id] EXCEPT !.rollback =
                       [@ EXCEPT !.pending = "None",
                                 !.resolution = disk.transactions[id].rollback.pending]]
             open == IF Resolved(disk.transactions[id].rollback.pending)
                     THEN NoId ELSE disk.openRollback
  <1>1. /\ id \in Ids /\ RecordOk(disk, id)
        /\ FileKept(id, disk.reservations[id].phase)
        /\ LeaseRecorded(disk.reservations[id], disk.transactions[id], txLeases[id],
           rbLeases[id], boot)
        /\ disk.reservations[id].phase # "Absent"
    BY PendingFacts
  <1>2. /\ JournalInv(disk) /\ JournalInv(st)
        /\ st.reservations = disk.reservations /\ st.transactions = disk.transactions
        /\ st.pending = disk.pending
        /\ st.openTransaction = disk.openTransaction /\ st.openRollback = disk.openRollback
    BY DiskFacts
  <1>3. FileKept(id, r.phase)
    BY <1>1 DEF NoReservation
  <1>4. LeaseRecorded(r, tx, txLeases[id], rbLeases[id], boot)
    BY <1>1 DEF RecordOk, RecordInv, PendingInv, TransactionInv, ReservationRecord,
       TransactionRecord, RollbackRecord, LeaseRecorded, NoReservation, NoTransaction,
          NoRollback
  <1>5. Follows(disk.transactions[id], tx)
    BY <1>1 DEF RecordOk, RecordInv, PendingInv, TransactionInv, TransactionRecord,
       RollbackRecord, Outcome, Resolved, RollbackClosed, NoTransaction, NoRollback,
          Follows,
       KeepsResolution, FollowsIntent
  <1>6. events < MaxEvents /\ events' = events + 1
      /\ disk' = RollbackResolveComplete(st, id, disk.transactions[id].rollback.id)
    BY DEF AppendEvent
  <1> HIDE DEF st
  <1>7. Changes(disk', st, id, r, tx, NoId, disk.openTransaction, open)
    BY <1>1, <1>2, <1>6, RollbackResolveCompleteFacts
  <1> HIDE DEF r, tx, open
  <1>8. Changes(disk', disk, id, r, tx, NoId, disk.openTransaction, open)
    BY <1>1, <1>2, <1>7, ChangesSinceTick DEF st
  <1>9. StepInv'
    BY <1>8, IdleStepInv DEF Changes
  <1>10. step' \in HandlerStep \cup OpeningStep \cup {"idle"}
    BY DEF OpeningStep
  <1> QED BY <1>1, <1>3, <1>4, <1>5, <1>6, <1>8, <1>9, <1>10, QuietStep

\* The append that completes a cancellation or a retirement keeps StoreInv.
LEMMA ReleaseCompleteStep ==
    ASSUME StoreInv, NEW id, id = disk.pending, id # NoId,
           disk.reservations[id].phase \in {"CancelPending", "RetirePending"},
           file[id] = "absent",
           AppendEvent(ReleaseComplete(Tick(disk), id)),
           UNCHANGED <<files, handle, environment>>, checkedOut' \subseteq Ids,
           step \notin UnsyncedStep,
           step' = "idle" \/ (step' = "Layout" /\ step # "idle")
    PROVE  StoreInv' /\ TransactionsFollow
  <1> DEFINE st == Tick(disk)
             r  == NoReservation
             tx == IF disk.reservations[id].phase
                = "RetirePending" THEN NoTransaction ELSE disk.transactions[id]
  <1>1. /\ id \in Ids /\ RecordOk(disk, id)
        /\ FileKept(id, disk.reservations[id].phase)
        /\ LeaseRecorded(disk.reservations[id], disk.transactions[id], txLeases[id],
           rbLeases[id], boot)
        /\ disk.reservations[id].phase # "Absent"
    BY PendingFacts
  <1>2. /\ JournalInv(disk) /\ JournalInv(st)
        /\ st.reservations = disk.reservations /\ st.transactions = disk.transactions
        /\ st.pending = disk.pending
        /\ st.openTransaction = disk.openTransaction /\ st.openRollback = disk.openRollback
    BY DiskFacts
  <1>3. FileKept(id, r.phase)
    BY <1>1 DEF FileKept, FileMatches, NoReservation
  <1>4. LeaseRecorded(r, tx, txLeases[id], rbLeases[id], boot)
    BY <1>1 DEF LeaseRecorded, NoReservation
  <1>5. Follows(disk.transactions[id], tx)
    BY <1>1 DEF RecordOk, RecordInv, PendingInv, TransactionInv, TransactionRecord,
       RollbackRecord, Outcome, Resolved, RollbackClosed, NoTransaction, NoRollback,
          Follows,
       KeepsResolution, FollowsIntent
  <1>6. events < MaxEvents /\ events' = events + 1 /\ disk' = ReleaseComplete(st, id)
    BY DEF AppendEvent
  <1> HIDE DEF st
  <1>7. Changes(disk', st, id, r, tx, NoId, disk.openTransaction, disk.openRollback)
    BY <1>1, <1>2, <1>6, ReleaseCompleteFacts
  <1> HIDE DEF r, tx
  <1>8. Changes(disk', disk, id, r, tx, NoId, disk.openTransaction, disk.openRollback)
    BY <1>1, <1>2, <1>7, ChangesSinceTick DEF st
  <1>9. StepInv'
    BY <1>8, IdleStepInv DEF Changes
  <1>10. step' \in HandlerStep \cup OpeningStep \cup {"idle"}
    BY DEF OpeningStep
  <1> QED BY <1>1, <1>3, <1>4, <1>5, <1>6, <1>8, <1>9, <1>10, QuietStep

\* persist_backup keeps StoreInv.
LEMMA PersistBackupStep ==
    ASSUME StoreInv, NEW id \in Ids, PersistBackup(id)
    PROVE  StoreInv' /\ TransactionsFollow
  <1> DEFINE st == Tick(disk)
             r  == [disk.reservations[id] EXCEPT !.phase = "PersistPending"]
             tx == disk.transactions[id]
  <1>1. /\ RecordOk(disk, id) /\ FileKept(id, disk.reservations[id].phase)
        /\ LeaseRecorded(disk.reservations[id], disk.transactions[id], txLeases[id],
           rbLeases[id], boot)
        /\ boot \in Nat
    BY RecordFacts, BoundAssumption DEF StoreInv, FilesMatchJournal, LeaseInv, TypeOK
  <1>2. /\ JournalInv(disk) /\ JournalInv(st)
        /\ st.reservations = disk.reservations /\ st.transactions = disk.transactions
        /\ st.pending = disk.pending /\ Released(st) = Released(disk)
        /\ st.openTransaction = disk.openTransaction /\ st.openRollback = disk.openRollback
    BY DiskFacts
  <1>3. /\ events + 2 <= MaxEvents /\ events < MaxEvents /\ events \in Nat
        /\ Cardinality(Released(disk)) <= MaxRetained
    BY RoomFacts DEF PersistBackup
  <1>4. FileKept(id, r.phase)
    BY <1>1 DEF PersistBackup, FileKept, FileMatches
  <1>5. Follows(disk.transactions[id], tx)
    BY <1>1 DEF Follows, KeepsResolution, FollowsIntent
  <1>6. events' = events + 1 /\ disk' = PersistIntent(st, id)
    BY DEF PersistBackup, AppendEvent
  <1>7. LeaseRecorded(r, tx, txLeases[id], rbLeases[id], boot)
    BY <1>1 DEF PersistBackup, LeaseRecorded
  <1>8. /\ disk.pending = NoId /\ disk.reservations[id].phase # "Absent"
        /\ UNCHANGED <<files, handle>> /\ step \notin UnsyncedStep
        /\ checkedOut' \subseteq Ids /\ step' = "PersistWrite"
    BY DEF PersistBackup, Mutable, UnsyncedStep, StoreInv, TypeOK
  <1> HIDE DEF st
  <1>9. Changes(disk', st, id, r, tx, id, disk.openTransaction, disk.openRollback)
    BY <1>1, <1>2, <1>3, <1>6, <1>8, PersistIntentFacts DEF PersistBackup, NothingUnresolved
  <1> HIDE DEF r, tx
  <1>10. Changes(disk', disk, id, r, tx, id, disk.openTransaction, disk.openRollback)
    BY <1>2, <1>9, ChangesSinceTick DEF st
  <1>11. StepInv' /\ step' \in HandlerStep \cup OpeningStep \cup {"idle"}
    <2>1. disk'.pending = id /\ disk'.reservations[id] = r /\ disk'.transactions[id] = tx
      BY <1>1, <1>10 DEF Changes, RecordOk, RecoveredState
    <2>2. handle' \notin {"closed", "failed"}
      BY DEF PersistBackup, Mutable
    <2> QED BY <2>1, <2>2, <1>1, <1>8 DEF StepInv, HandlerStep, r, RecordOk
  <1>12. UNCHANGED environment
    BY DEF PersistBackup
  <1> QED BY <1>3, <1>4, <1>5, <1>6, <1>7, <1>8, <1>10, <1>11, <1>12, QuietStep

\* cancel_reserved keeps StoreInv.
LEMMA CancelReservedStep ==
    ASSUME StoreInv, NEW id \in Ids, CancelReserved(id)
    PROVE  StoreInv' /\ TransactionsFollow
  <1> DEFINE st == Tick(disk)
             r  == [disk.reservations[id] EXCEPT !.phase = "CancelPending"]
             tx == disk.transactions[id]
  <1>1. /\ RecordOk(disk, id) /\ FileKept(id, disk.reservations[id].phase)
        /\ LeaseRecorded(disk.reservations[id], disk.transactions[id], txLeases[id],
           rbLeases[id], boot)
        /\ boot \in Nat
    BY RecordFacts, BoundAssumption DEF StoreInv, FilesMatchJournal, LeaseInv, TypeOK
  <1>2. /\ JournalInv(disk) /\ JournalInv(st)
        /\ st.reservations = disk.reservations /\ st.transactions = disk.transactions
        /\ st.pending = disk.pending /\ Released(st) = Released(disk)
        /\ st.openTransaction = disk.openTransaction /\ st.openRollback = disk.openRollback
    BY DiskFacts
  <1>3. /\ events + 2 <= MaxEvents /\ events < MaxEvents /\ events \in Nat
        /\ Cardinality(Released(disk)) <= MaxRetained
    BY RoomFacts DEF CancelReserved
  <1>4. FileKept(id, r.phase)
    BY <1>1 DEF CancelReserved, FileKept, FileMatches
  <1>5. Follows(disk.transactions[id], tx)
    BY <1>1 DEF Follows, KeepsResolution, FollowsIntent
  <1>6. events' = events + 1 /\ disk' = CancelIntent(st, id)
    BY DEF CancelReserved, AppendEvent
  <1>7. LeaseRecorded(r, tx, txLeases[id], rbLeases[id], boot)
    BY <1>1 DEF CancelReserved, LeaseRecorded
  <1>8. /\ disk.pending = NoId /\ disk.reservations[id].phase # "Absent"
        /\ UNCHANGED <<files, handle>> /\ step \notin UnsyncedStep
        /\ checkedOut' \subseteq Ids /\ step' = "ReleaseRemove"
    BY DEF CancelReserved, Mutable, UnsyncedStep, StoreInv, TypeOK
  <1> HIDE DEF st
  <1>9. Changes(disk', st, id, r, tx, id, disk.openTransaction, disk.openRollback)
    BY <1>1, <1>2, <1>3, <1>6, <1>8, CancelIntentFacts DEF CancelReserved, NothingUnresolved
  <1> HIDE DEF r, tx
  <1>10. Changes(disk', disk, id, r, tx, id, disk.openTransaction, disk.openRollback)
    BY <1>2, <1>9, ChangesSinceTick DEF st
  <1>11. StepInv' /\ step' \in HandlerStep \cup OpeningStep \cup {"idle"}
    <2>1. disk'.pending = id /\ disk'.reservations[id] = r /\ disk'.transactions[id] = tx
      BY <1>1, <1>10 DEF Changes, RecordOk, RecoveredState
    <2>2. handle' \notin {"closed", "failed"}
      BY DEF CancelReserved, Mutable
    <2> QED BY <2>1, <2>2, <1>1, <1>8 DEF StepInv, HandlerStep, r, RecordOk
  <1>12. UNCHANGED environment
    BY DEF CancelReserved
  <1> QED BY <1>3, <1>4, <1>5, <1>6, <1>7, <1>8, <1>10, <1>11, <1>12, QuietStep

\* retire_backup keeps StoreInv.
LEMMA RetireBackupStep ==
    ASSUME StoreInv, NEW id \in Ids, RetireBackup(id)
    PROVE  StoreInv' /\ TransactionsFollow
  <1> DEFINE st == Tick(disk)
             r  == [disk.reservations[id] EXCEPT !.phase = "RetirePending",
                         !.resolution = disk.transactions[id].resolution]
             tx == disk.transactions[id]
  <1>1. /\ RecordOk(disk, id) /\ FileKept(id, disk.reservations[id].phase)
        /\ LeaseRecorded(disk.reservations[id], disk.transactions[id], txLeases[id],
           rbLeases[id], boot)
        /\ boot \in Nat
    BY RecordFacts, BoundAssumption DEF StoreInv, FilesMatchJournal, LeaseInv, TypeOK
  <1>2. /\ JournalInv(disk) /\ JournalInv(st)
        /\ st.reservations = disk.reservations /\ st.transactions = disk.transactions
        /\ st.pending = disk.pending /\ Released(st) = Released(disk)
        /\ st.openTransaction = disk.openTransaction /\ st.openRollback = disk.openRollback
    BY DiskFacts
  <1>3. /\ events + 2 <= MaxEvents /\ events < MaxEvents /\ events \in Nat
        /\ Cardinality(Released(disk)) <= MaxRetained
    BY RoomFacts DEF RetireBackup
  <1>4. FileKept(id, r.phase)
    BY <1>1 DEF RetireBackup, FileKept, FileMatches
  <1>5. Follows(disk.transactions[id], tx)
    BY <1>1 DEF Follows, KeepsResolution, FollowsIntent
  <1>6. events' = events + 1 /\ disk' = RetireIntent(st, id)
    BY DEF RetireBackup, AppendEvent
  <1>7. LeaseRecorded(r, tx, txLeases[id], rbLeases[id], boot)
    BY <1>1 DEF RetireBackup, LeaseRecorded
  <1>8. /\ disk.pending = NoId /\ disk.reservations[id].phase # "Absent"
        /\ UNCHANGED <<files, handle>> /\ step \notin UnsyncedStep
        /\ checkedOut' \subseteq Ids /\ step' = "ReleaseRemove"
    BY DEF RetireBackup, Mutable, UnsyncedStep, StoreInv, TypeOK
  <1> HIDE DEF st
  <1>9. Changes(disk', st, id, r, tx, id, disk.openTransaction, disk.openRollback)
    BY <1>1, <1>2, <1>3, <1>6, <1>8, RetireIntentFacts DEF RetireBackup, NothingUnresolved
  <1> HIDE DEF r, tx
  <1>10. Changes(disk', disk, id, r, tx, id, disk.openTransaction, disk.openRollback)
    BY <1>2, <1>9, ChangesSinceTick DEF st
  <1>11. StepInv' /\ step' \in HandlerStep \cup OpeningStep \cup {"idle"}
    <2>1. disk'.pending = id /\ disk'.reservations[id] = r /\ disk'.transactions[id] = tx
      BY <1>1, <1>10 DEF Changes, RecordOk, RecoveredState
    <2>2. handle' \notin {"closed", "failed"}
      BY DEF RetireBackup, Mutable
    <2> QED BY <2>1, <2>2, <1>1, <1>8 DEF StepInv, HandlerStep, r, RecordOk
  <1>12. UNCHANGED environment
    BY DEF RetireBackup
  <1> QED BY <1>3, <1>4, <1>5, <1>6, <1>7, <1>8, <1>10, <1>11, <1>12, QuietStep

\* resolve_transaction keeps StoreInv.
LEMMA ResolveTransactionStep ==
    ASSUME StoreInv, NEW id \in Ids, NEW outcome \in Outcome, ResolveTransaction(id,
       outcome)
    PROVE  StoreInv' /\ TransactionsFollow
  <1> DEFINE st == Tick(disk)
             r  == disk.reservations[id]
             tx == [disk.transactions[id] EXCEPT !.pending = outcome]
  <1>1. /\ RecordOk(disk, id) /\ FileKept(id, disk.reservations[id].phase)
        /\ LeaseRecorded(disk.reservations[id], disk.transactions[id], txLeases[id],
           rbLeases[id], boot)
        /\ boot \in Nat
    BY RecordFacts, BoundAssumption DEF StoreInv, FilesMatchJournal, LeaseInv, TypeOK
  <1>2. /\ JournalInv(disk) /\ JournalInv(st)
        /\ st.reservations = disk.reservations /\ st.transactions = disk.transactions
        /\ st.pending = disk.pending /\ Released(st) = Released(disk)
        /\ st.openTransaction = disk.openTransaction /\ st.openRollback = disk.openRollback
    BY DiskFacts
  <1>3. /\ events + 2 <= MaxEvents /\ events < MaxEvents /\ events \in Nat
        /\ Cardinality(Released(disk)) <= MaxRetained
    BY RoomFacts DEF ResolveTransaction
  <1>4. FileKept(id, r.phase)
    BY <1>1 DEF FileKept, FileMatches
  <1>5. Follows(disk.transactions[id], tx)
    BY <1>1 DEF ResolveTransaction, Mutable, RecordOk, RecordInv, PendingInv, Follows,
        KeepsResolution, FollowsIntent
  <1>6. events' = events + 1
      /\ disk' = TransactionResolveIntent(st, id,
         TransactionPhase(disk.transactions[id].resolution), outcome)
    BY DEF ResolveTransaction, AppendEvent
  <1>7. LeaseRecorded(r, tx, txLeases[id], rbLeases[id], boot)
    BY <1>1 DEF LeaseRecorded
  <1>8. /\ disk.pending = NoId /\ disk.reservations[id].phase # "Absent"
        /\ UNCHANGED <<files, handle>> /\ step \notin UnsyncedStep
        /\ checkedOut' \subseteq Ids /\ step' = "ResolveFinish"
    BY DEF ResolveTransaction, Mutable, UnsyncedStep, StoreInv, TypeOK
  <1> HIDE DEF st
  <1>9. Changes(disk', st, id, r, tx, id, disk.openTransaction, disk.openRollback)
    BY <1>1, <1>2, <1>3, <1>6, <1>8, TransactionResolveIntentFacts DEF ResolveTransaction,
       NothingUnresolved
  <1> HIDE DEF r, tx
  <1>10. Changes(disk', disk, id, r, tx, id, disk.openTransaction, disk.openRollback)
    BY <1>2, <1>9, ChangesSinceTick DEF st
  <1>11. StepInv' /\ step' \in HandlerStep \cup OpeningStep \cup {"idle"}
    <2>1. disk'.pending = id /\ disk'.reservations[id] = r /\ disk'.transactions[id] = tx
      BY <1>1, <1>10 DEF Changes, RecordOk, RecoveredState
    <2>2. handle' \notin {"closed", "failed"}
      BY DEF ResolveTransaction, Mutable
    <2> QED BY <2>1, <2>2, <1>1, <1>8 DEF StepInv, HandlerStep, tx, RecordOk, Outcome
  <1>12. UNCHANGED environment
    BY DEF ResolveTransaction
  <1> QED BY <1>3, <1>4, <1>5, <1>6, <1>7, <1>8, <1>10, <1>11, <1>12, QuietStep

\* begin_rollback_transaction keeps StoreInv.
LEMMA BeginRollbackStep ==
    ASSUME StoreInv, NEW id \in Ids, NEW rollback \in RollbackIds, BeginRollback(id,
       rollback)
    PROVE  StoreInv' /\ TransactionsFollow
  <1> DEFINE st == Tick(disk)
             r  == disk.reservations[id]
             tx == [disk.transactions[id] EXCEPT !.rollback =
                   [NoRollback EXCEPT !.id = rollback, !.resolution = "None"]]
  <1>1. /\ RecordOk(disk, id) /\ FileKept(id, disk.reservations[id].phase)
        /\ LeaseRecorded(disk.reservations[id], disk.transactions[id], txLeases[id],
           rbLeases[id], boot)
        /\ boot \in Nat
    BY RecordFacts, BoundAssumption DEF StoreInv, FilesMatchJournal, LeaseInv, TypeOK
  <1>2. /\ JournalInv(disk) /\ JournalInv(st)
        /\ st.reservations = disk.reservations /\ st.transactions = disk.transactions
        /\ st.pending = disk.pending /\ Released(st) = Released(disk)
        /\ st.openTransaction = disk.openTransaction /\ st.openRollback = disk.openRollback
    BY DiskFacts
  <1>3. /\ events + 1 <= MaxEvents /\ events < MaxEvents /\ events \in Nat
        /\ Cardinality(Released(disk)) <= MaxRetained
    BY RoomFacts DEF BeginRollback
  <1>4. FileKept(id, r.phase)
    BY <1>1 DEF FileKept, FileMatches
  <1>5. Follows(disk.transactions[id], tx)
    BY <1>1 DEF BeginRollback, RecordOk, RecordInv, PendingInv, TransactionInv, Resolved,
        Follows, KeepsResolution, FollowsIntent
  <1>6. events' = events + 1 /\ disk' = RollbackBegin(st, id, rollback)
    BY DEF BeginRollback, AppendEvent
  <1>7. LeaseRecorded(r, tx, txLeases[id], rbLeases[id], boot)
    BY <1>1 DEF BeginRollback, LeaseRecorded
  <1>8. /\ disk.pending = NoId /\ disk.reservations[id].phase # "Absent"
        /\ UNCHANGED <<files, handle>> /\ step \notin UnsyncedStep
        /\ checkedOut' \subseteq Ids /\ step' = step
    BY DEF BeginRollback, Mutable, UnsyncedStep, StoreInv, TypeOK
  <1> HIDE DEF st
  <1>9. Changes(disk', st, id, r, tx, NoId, disk.openTransaction, id)
    BY <1>1, <1>2, <1>3, <1>6, <1>8, RollbackBeginFacts, IdAssumption DEF BeginRollback,
       NothingUnresolved
  <1> HIDE DEF r, tx
  <1>10. Changes(disk', disk, id, r, tx, NoId, disk.openTransaction, id)
    BY <1>2, <1>9, ChangesSinceTick DEF st
  <1>11. StepInv' /\ step' \in HandlerStep \cup OpeningStep \cup {"idle"}
    BY <1>8, IdleStepInv DEF BeginRollback, Mutable
  <1>12. UNCHANGED environment
    BY DEF BeginRollback
  <1> QED BY <1>3, <1>4, <1>5, <1>6, <1>7, <1>8, <1>10, <1>11, <1>12, QuietStep

\* resolve_rollback_transaction keeps StoreInv.
LEMMA ResolveRollbackStep ==
    ASSUME StoreInv, NEW id \in Ids, NEW outcome \in RollbackOutcome, ResolveRollback(id,
       outcome)
    PROVE  StoreInv' /\ TransactionsFollow
  <1> DEFINE st == Tick(disk)
             r  == disk.reservations[id]
             tx == [disk.transactions[id] EXCEPT !.rollback =
                   [@ EXCEPT !.pending = outcome]]
  <1>1. /\ RecordOk(disk, id) /\ FileKept(id, disk.reservations[id].phase)
        /\ LeaseRecorded(disk.reservations[id], disk.transactions[id], txLeases[id],
           rbLeases[id], boot)
        /\ boot \in Nat
    BY RecordFacts, BoundAssumption DEF StoreInv, FilesMatchJournal, LeaseInv, TypeOK
  <1>2. /\ JournalInv(disk) /\ JournalInv(st)
        /\ st.reservations = disk.reservations /\ st.transactions = disk.transactions
        /\ st.pending = disk.pending /\ Released(st) = Released(disk)
        /\ st.openTransaction = disk.openTransaction /\ st.openRollback = disk.openRollback
    BY DiskFacts
  <1>3. /\ events + 2 <= MaxEvents /\ events < MaxEvents /\ events \in Nat
        /\ Cardinality(Released(disk)) <= MaxRetained
    BY RoomFacts DEF ResolveRollback
  <1>4. FileKept(id, r.phase)
    BY <1>1 DEF FileKept, FileMatches
  <1>5. Follows(disk.transactions[id], tx)
    BY <1>1 DEF ResolveRollback, Mutable, RecordOk, RecordInv, PendingInv, Follows,
        KeepsResolution, FollowsIntent
  <1>6. events' = events + 1
      /\ disk' = RollbackResolveIntent(st, id, disk.transactions[id].rollback.id,
         TransactionPhase(disk.transactions[id].rollback.resolution), outcome)
    BY DEF ResolveRollback, AppendEvent
  <1>7. LeaseRecorded(r, tx, txLeases[id], rbLeases[id], boot)
    BY <1>1 DEF RecordOk, RollbackRecord, LeaseRecorded
  <1>8. /\ disk.pending = NoId /\ disk.reservations[id].phase # "Absent"
        /\ UNCHANGED <<files, handle>> /\ step \notin UnsyncedStep
        /\ checkedOut' \subseteq Ids /\ step' = "RollbackResolveFinish"
    BY DEF ResolveRollback, Mutable, UnsyncedStep, StoreInv, TypeOK
  <1> HIDE DEF st
  <1>9. Changes(disk', st, id, r, tx, id, disk.openTransaction, disk.openRollback)
    BY <1>1, <1>2, <1>3, <1>6, <1>8, RollbackResolveIntentFacts DEF ResolveRollback,
       NothingUnresolved
  <1> HIDE DEF r, tx
  <1>10. Changes(disk', disk, id, r, tx, id, disk.openTransaction, disk.openRollback)
    BY <1>2, <1>9, ChangesSinceTick DEF st
  <1>11. StepInv' /\ step' \in HandlerStep \cup OpeningStep \cup {"idle"}
    <2>1. disk'.pending = id /\ disk'.reservations[id] = r /\ disk'.transactions[id] = tx
      BY <1>1, <1>10 DEF Changes, RecordOk, RecoveredState
    <2>2. handle' \notin {"closed", "failed"}
      BY DEF ResolveRollback, Mutable
    <2> QED BY <2>1, <2>2, <1>1, <1>8 DEF StepInv, HandlerStep, tx, RecordOk,
        RollbackRecord, RollbackOutcome
  <1>12. UNCHANGED environment
    BY DEF ResolveRollback
  <1> QED BY <1>3, <1>4, <1>5, <1>6, <1>7, <1>8, <1>10, <1>11, <1>12, QuietStep

\* consume_write_lease keeps StoreInv.
LEMMA ConsumeWriteLeaseStep ==
    ASSUME StoreInv, NEW id \in Ids, ConsumeWriteLease(id)
    PROVE  StoreInv' /\ TransactionsFollow
  <1> DEFINE st == Tick(disk)
             r  == disk.reservations[id]
             tx == [disk.transactions[id] EXCEPT !.lease = boot]
  <1>1. /\ RecordOk(disk, id) /\ FileKept(id, disk.reservations[id].phase)
        /\ LeaseRecorded(disk.reservations[id], disk.transactions[id], txLeases[id],
           rbLeases[id], boot)
        /\ boot \in Nat
    BY RecordFacts, BoundAssumption DEF StoreInv, FilesMatchJournal, LeaseInv, TypeOK
  <1>2. /\ JournalInv(disk) /\ JournalInv(st)
        /\ st.reservations = disk.reservations /\ st.transactions = disk.transactions
        /\ st.pending = disk.pending /\ Released(st) = Released(disk)
        /\ st.openTransaction = disk.openTransaction /\ st.openRollback = disk.openRollback
    BY DiskFacts
  <1>3. /\ events + 1 <= MaxEvents /\ events < MaxEvents /\ events \in Nat
        /\ Cardinality(Released(disk)) <= MaxRetained
    BY RoomFacts DEF ConsumeWriteLease
  <1>4. FileKept(id, r.phase)
    BY <1>1 DEF FileKept, FileMatches
  <1>5. Follows(disk.transactions[id], tx)
    BY <1>1 DEF Follows, KeepsResolution, FollowsIntent
  <1>6. events' = events + 1 /\ disk' = TransactionWriteLeaseConsume(st, id, boot)
    BY DEF ConsumeWriteLease, AppendEvent
  <1>7. LeaseRecorded(r, tx, txLeases'[id], rbLeases'[id], boot)
    <2>1. txLeases[id] = 0 /\ txLeases'[id] = 1
      BY <1>1 DEF ConsumeWriteLease, LeaseRecorded, StoreInv, TypeOK
    <2> QED BY <2>1, <1>1 DEF ConsumeWriteLease, LeaseRecorded
  <1>8. /\ disk.pending = NoId /\ disk.reservations[id].phase # "Absent"
        /\ UNCHANGED <<files, handle>> /\ step \notin UnsyncedStep
        /\ checkedOut' \subseteq Ids /\ step' = step
    BY DEF ConsumeWriteLease, Mutable, UnsyncedStep, StoreInv, TypeOK
  <1> HIDE DEF st
  <1>9. Changes(disk', st, id, r, tx, NoId, disk.openTransaction, disk.openRollback)
    BY <1>1, <1>2, <1>3, <1>6, <1>8,
       TransactionWriteLeaseConsumeFacts DEF ConsumeWriteLease, NothingUnresolved
  <1> HIDE DEF r, tx
  <1>10. Changes(disk', disk, id, r, tx, NoId, disk.openTransaction, disk.openRollback)
    BY <1>2, <1>9, ChangesSinceTick DEF st
  <1>11. StepInv' /\ step' \in HandlerStep \cup OpeningStep \cup {"idle"}
    BY <1>8, IdleStepInv DEF ConsumeWriteLease, Mutable
  <1>12. /\ UNCHANGED <<boot, parent, faults, lost>> /\ issued' = issued
         /\ issued \subseteq Ids /\ id \in issued
         /\ txLeases' \in [Ids -> Nat] /\ rbLeases' \in [Ids -> Nat]
         /\ \A k \in Ids \ {id} : txLeases'[k] = txLeases[k] /\ rbLeases'[k] = rbLeases[k]
    BY <1>8 DEF ConsumeWriteLease, StoreInv, TypeOK, LeaseInv
  <1> QED BY <1>3, <1>4, <1>5, <1>6, <1>7, <1>8, <1>10, <1>11, <1>12, AppendStep

\* consume_rollback_write_lease keeps StoreInv.
LEMMA ConsumeRollbackWriteLeaseStep ==
    ASSUME StoreInv, NEW id \in Ids, ConsumeRollbackWriteLease(id)
    PROVE  StoreInv' /\ TransactionsFollow
  <1> DEFINE st == Tick(disk)
             r  == disk.reservations[id]
             tx == [disk.transactions[id] EXCEPT !.rollback = [@ EXCEPT !.lease = boot]]
  <1>1. /\ RecordOk(disk, id) /\ FileKept(id, disk.reservations[id].phase)
        /\ LeaseRecorded(disk.reservations[id], disk.transactions[id], txLeases[id],
           rbLeases[id], boot)
        /\ boot \in Nat
    BY RecordFacts, BoundAssumption DEF StoreInv, FilesMatchJournal, LeaseInv, TypeOK
  <1>2. /\ JournalInv(disk) /\ JournalInv(st)
        /\ st.reservations = disk.reservations /\ st.transactions = disk.transactions
        /\ st.pending = disk.pending /\ Released(st) = Released(disk)
        /\ st.openTransaction = disk.openTransaction /\ st.openRollback = disk.openRollback
    BY DiskFacts
  <1>3. /\ events + 1 <= MaxEvents /\ events < MaxEvents /\ events \in Nat
        /\ Cardinality(Released(disk)) <= MaxRetained
    BY RoomFacts DEF ConsumeRollbackWriteLease
  <1>4. FileKept(id, r.phase)
    BY <1>1 DEF FileKept, FileMatches
  <1>5. Follows(disk.transactions[id], tx)
    BY <1>1 DEF ConsumeRollbackWriteLease, Resolved, Follows, KeepsResolution, FollowsIntent
  <1>6. events' = events + 1
      /\ disk' = RollbackWriteLeaseConsume(st, id, disk.transactions[id].rollback.id, boot)
    BY DEF ConsumeRollbackWriteLease, AppendEvent
  <1>7. LeaseRecorded(r, tx, txLeases'[id], rbLeases'[id], boot)
    <2>1. rbLeases[id] = 0 /\ rbLeases'[id] = 1
      BY <1>1 DEF ConsumeRollbackWriteLease, LeaseRecorded, StoreInv, TypeOK
    <2> QED BY <2>1, <1>1 DEF ConsumeRollbackWriteLease, RecordOk, RollbackRecord,
        LeaseRecorded
  <1>8. /\ disk.pending = NoId /\ disk.reservations[id].phase # "Absent"
        /\ UNCHANGED <<files, handle>> /\ step \notin UnsyncedStep
        /\ checkedOut' \subseteq Ids /\ step' = step
    BY DEF ConsumeRollbackWriteLease, Mutable, UnsyncedStep, StoreInv, TypeOK
  <1> HIDE DEF st
  <1>9. Changes(disk', st, id, r, tx, NoId, disk.openTransaction, disk.openRollback)
    BY <1>1, <1>2, <1>3, <1>6, <1>8,
       RollbackWriteLeaseConsumeFacts DEF ConsumeRollbackWriteLease, NothingUnresolved
  <1> HIDE DEF r, tx
  <1>10. Changes(disk', disk, id, r, tx, NoId, disk.openTransaction, disk.openRollback)
    BY <1>2, <1>9, ChangesSinceTick DEF st
  <1>11. StepInv' /\ step' \in HandlerStep \cup OpeningStep \cup {"idle"}
    BY <1>8, IdleStepInv DEF ConsumeRollbackWriteLease, Mutable
  <1>12. /\ UNCHANGED <<boot, parent, faults, lost>> /\ issued' = issued
         /\ issued \subseteq Ids /\ id \in issued
         /\ txLeases' \in [Ids -> Nat] /\ rbLeases' \in [Ids -> Nat]
         /\ \A k \in Ids \ {id} : txLeases'[k] = txLeases[k] /\ rbLeases'[k] = rbLeases[k]
    BY <1>8 DEF ConsumeRollbackWriteLease, StoreInv, TypeOK, LeaseInv
  <1> QED BY <1>3, <1>4, <1>5, <1>6, <1>7, <1>8, <1>10, <1>11, <1>12, AppendStep

\* reserve_backup keeps StoreInv: the identifier is new, so no lease refers to it.
LEMMA ReserveBackupStep ==
    ASSUME StoreInv, NEW id \in Ids, NEW draft \in Drafts, ReserveBackup(id, draft)
    PROVE  StoreInv' /\ TransactionsFollow
  <1> DEFINE st == Tick(disk)
             r  == [phase |-> "ReservePending", draft |-> draft, parent |-> parent,
                    resolution |-> "Absent"]
             tx == disk.transactions[id]
  <1>1. disk.reservations[id].phase = "Absent" /\ txLeases[id] = 0 /\ rbLeases[id] = 0
    BY DEF ReserveBackup, StoreInv, LeaseInv
  <1>2. /\ JournalInv(disk) /\ JournalInv(st)
        /\ st.reservations = disk.reservations /\ st.transactions = disk.transactions
        /\ st.pending = NoId /\ st.openTransaction = NoId /\ st.openRollback = NoId
        /\ st.seen = disk.seen /\ Released(st) = Released(disk) /\ Active(st) = Active(disk)
    BY DiskFacts DEF ReserveBackup, Mutable, NothingUnresolved
  <1>3. /\ events + 2 <= MaxEvents /\ events < MaxEvents /\ events \in Nat
        /\ Cardinality(Released(disk)) <= MaxRetained
    BY RoomFacts DEF ReserveBackup
  <1>4. FileKept(id, r.phase)
    BY DEF ReserveBackup, FileKept, FileMatches
  <1>5. Follows(disk.transactions[id], tx)
    BY DEF Follows, KeepsResolution, FollowsIntent
  <1>6. events' = events + 1 /\ disk' = ReserveIntent(st, id, draft, parent)
    BY DEF ReserveBackup, AppendEvent
  <1>7. LeaseRecorded(r, tx, txLeases'[id], rbLeases'[id], boot)
    BY <1>1 DEF ReserveBackup, LeaseRecorded
  <1>8. parent \in Parents /\ id \notin disk.seen
      /\ Cardinality(Active(disk)) < MaxReservations
    BY DEF ReserveBackup, StoreInv, TypeOK
  <1> HIDE DEF st
  <1>9. Changes(disk', st, id, r, tx, id, NoId, NoId)
    BY <1>2, <1>3, <1>6, <1>8, ReserveIntentFacts
  <1> HIDE DEF r, tx
  <1>10. Changes(disk', disk, id, r, tx, id, NoId, NoId)
    BY <1>2, <1>9, ChangesSinceTick DEF st
  <1>11. StepInv' /\ step' \in HandlerStep \cup OpeningStep \cup {"idle"}
    <2>1. disk'.pending = id /\ disk'.reservations[id] = r
      BY <1>10 DEF Changes, StoreInv, TypeOK, RecoveredState
    <2>2. id # NoId
      BY IdAssumption
    <2> QED BY <2>1, <2>2 DEF ReserveBackup, Mutable, StepInv, HandlerStep, r
  <1>12. /\ UNCHANGED <<files, handle, boot, parent, faults, lost>>
         /\ issued \subseteq issued' /\ issued' \subseteq Ids /\ id \in issued'
         /\ checkedOut' \subseteq Ids
         /\ txLeases' \in [Ids -> Nat] /\ rbLeases' \in [Ids -> Nat]
         /\ \A k \in Ids \ {id} : txLeases'[k] = txLeases[k] /\ rbLeases'[k] = rbLeases[k]
         /\ step \notin UnsyncedStep
    BY DEF ReserveBackup, Mutable, UnsyncedStep, StoreInv, TypeOK
  <1> QED BY <1>3, <1>4, <1>5, <1>6, <1>7, <1>10, <1>11, <1>12, AppendStep

\* The steps of an operation in progress.
LEMMA OperationStepInv ==
    ASSUME StoreInv, OperationStep
    PROVE  StoreInv' /\ TransactionsFollow
  <1> DEFINE id    == disk.pending
             phase == disk.reservations[id].phase
  <1>1. step \in HandlerStep
    BY DEF OperationStep, ReserveCreate, ReserveAllocate, ReserveSync, ReserveFinish,
       PersistWrite, PersistFlush, PersistSync, PersistFinish, ReleaseRemove, ReleaseSync,
       ReleaseFinish, ResolveFinish, RollbackResolveFinish, ChangeFile, SyncFile, HandlerStep
  <1>2. id # NoId /\ id \in Ids
    BY <1>1, PendingFacts DEF StoreInv, StepInv, HandlerStep
  <1>3. handle \notin {"closed", "failed"} /\ checkedOut \subseteq Ids
    BY <1>1 DEF StoreInv, StepInv, HandlerStep, TypeOK
  <1>4. CASE ReserveCreate
    <2>1. phase = "ReservePending"
      BY <1>4 DEF ReserveCreate, ChangeFile, StoreInv, StepInv
    <2>2. StepInv' /\ step' \in HandlerStep /\ step' \in UnsyncedStep
      BY <1>2, <1>3, <1>4, <2>1
         DEF ReserveCreate, ChangeFile, StepInv, HandlerStep, UnsyncedStep, StoreInv, TypeOK
    <2> QED BY <1>2, <1>4, <2>1, <2>2, ChangeStep
            DEF ReserveCreate, ChangeFile, FileState, SettledPhase
  <1>5. CASE ReserveAllocate
    <2>1. phase = "ReservePending"
      BY <1>5 DEF ReserveAllocate, ChangeFile, StoreInv, StepInv
    <2>2. StepInv' /\ step' \in HandlerStep /\ step' \in UnsyncedStep
      BY <1>2, <1>3, <1>5, <2>1
         DEF ReserveAllocate, ChangeFile, StepInv, HandlerStep, UnsyncedStep, StoreInv, TypeOK
    <2> QED BY <1>2, <1>5, <2>1, <2>2, ChangeStep
            DEF ReserveAllocate, ChangeFile, FileState, SettledPhase
  <1>6. CASE ReserveSync
    <2>1. phase = "ReservePending" /\ file[id] = "zero"
      BY <1>6 DEF ReserveSync, SyncFile, StoreInv, StepInv
    <2>2. StepInv' /\ step' \in HandlerStep
      BY <1>2, <1>3, <1>6, <2>1 DEF ReserveSync, SyncFile, StepInv, HandlerStep
    <2> QED BY <1>2, <1>6, <2>2, SyncStep DEF ReserveSync, SyncFile
  <1>7. CASE ReserveFinish
    <2>1. phase = "ReservePending" /\ file[id] = "zero"
      BY <1>7 DEF ReserveFinish, StoreInv, StepInv
    <2>2. checkedOut' \subseteq Ids
      BY <1>2, <1>3, <1>7 DEF ReserveFinish
    <2> QED BY <1>2, <1>7, <2>1, <2>2, ReserveCompleteStep DEF ReserveFinish, UnsyncedStep
  <1>8. CASE PersistWrite
    <2>1. phase = "PersistPending"
      BY <1>8 DEF PersistWrite, ChangeFile, StoreInv, StepInv
    <2>2. StepInv' /\ step' \in HandlerStep /\ step' \in UnsyncedStep
      BY <1>2, <1>3, <1>8, <2>1
         DEF PersistWrite, ChangeFile, StepInv, HandlerStep, UnsyncedStep, StoreInv, TypeOK
    <2> QED BY <1>2, <1>8, <2>1, <2>2, ChangeStep
            DEF PersistWrite, ChangeFile, FileState, SettledPhase
  <1>9. CASE PersistFlush
    <2>1. phase = "PersistPending"
      BY <1>9 DEF PersistFlush, ChangeFile, StoreInv, StepInv
    <2>2. StepInv' /\ step' \in HandlerStep /\ step' \in UnsyncedStep
      BY <1>2, <1>3, <1>9, <2>1
         DEF PersistFlush, ChangeFile, StepInv, HandlerStep, UnsyncedStep, StoreInv, TypeOK
    <2> QED BY <1>2, <1>9, <2>1, <2>2, ChangeStep
            DEF PersistFlush, ChangeFile, FileState, SettledPhase
  <1>10. CASE PersistSync
    <2>1. phase = "PersistPending" /\ file[id] = "full"
      BY <1>10 DEF PersistSync, SyncFile, StoreInv, StepInv
    <2>2. StepInv' /\ step' \in HandlerStep
      BY <1>2, <1>3, <1>10, <2>1 DEF PersistSync, SyncFile, StepInv, HandlerStep
    <2> QED BY <1>2, <1>10, <2>2, SyncStep DEF PersistSync, SyncFile
  <1>11. CASE PersistFinish
    <2>1. phase = "PersistPending" /\ file[id] = "full"
      BY <1>11 DEF PersistFinish, StoreInv, StepInv
    <2> QED BY <1>2, <1>3, <1>11, <2>1, PersistCompleteStep DEF PersistFinish, UnsyncedStep
  <1>12. CASE ReleaseRemove
    <2>1. phase \in {"CancelPending", "RetirePending"}
      BY <1>12 DEF ReleaseRemove, ChangeFile, StoreInv, StepInv
    <2>2. StepInv' /\ step' \in HandlerStep /\ step' \in UnsyncedStep
      BY <1>2, <1>3, <1>12, <2>1
         DEF ReleaseRemove, ChangeFile, StepInv, HandlerStep, UnsyncedStep, StoreInv, TypeOK
    <2> QED BY <1>2, <1>12, <2>1, <2>2, ChangeStep
            DEF ReleaseRemove, ChangeFile, FileState, SettledPhase
  <1>13. CASE ReleaseSync
    <2>1. phase \in {"CancelPending", "RetirePending"} /\ file[id] = "absent"
      BY <1>13 DEF ReleaseSync, SyncFile, StoreInv, StepInv
    <2>2. StepInv' /\ step' \in HandlerStep
      BY <1>2, <1>3, <1>13, <2>1 DEF ReleaseSync, SyncFile, StepInv, HandlerStep
    <2> QED BY <1>2, <1>13, <2>2, SyncStep DEF ReleaseSync, SyncFile
  <1>14. CASE ReleaseFinish
    <2>1. phase \in {"CancelPending", "RetirePending"} /\ file[id] = "absent"
      BY <1>14 DEF ReleaseFinish, StoreInv, StepInv
    <2> QED BY <1>2, <1>3, <1>14, <2>1, ReleaseCompleteStep DEF ReleaseFinish, UnsyncedStep
  <1>15. CASE ResolveFinish
    <2>1. disk.transactions[id].pending # "None"
      BY <1>15 DEF ResolveFinish, StoreInv, StepInv
    <2> QED BY <1>2, <1>3, <1>15, <2>1, TransactionResolveCompleteStep
            DEF ResolveFinish, UnsyncedStep
  <1>16. CASE RollbackResolveFinish
    <2>1. disk.transactions[id].rollback.pending # "None"
      BY <1>16 DEF RollbackResolveFinish, StoreInv, StepInv
    <2> QED BY <1>2, <1>3, <1>16, <2>1,
               RollbackResolveCompleteStep DEF RollbackResolveFinish, UnsyncedStep
  <1> QED BY <1>4, <1>5, <1>6, <1>7, <1>8, <1>9, <1>10, <1>11, <1>12, <1>13, <1>14, <1>15,
     <1>16 DEF OperationStep

\* compact_journal, successful or not.
LEMMA CompactionStep ==
    ASSUME StoreInv, disk.pending = NoId, NEW no \in {"closed", "failed"},
           Compaction("open", no)
    PROVE  StoreInv' /\ TransactionsFollow
  <1>1. /\ UNCHANGED <<file, stable, boot, parent, issued, txLeases, rbLeases, faults, lost>>
        /\ checkedOut' = checkedOut
        /\ step' = "idle" /\ handle' \in {"open", "closed", "failed"}
    BY DEF Compaction, environment, files
  <1>2. /\ JournalInv(disk') /\ disk'.pending = NoId
        /\ disk'.reservations = disk.reservations /\ disk'.transactions = disk.transactions
        /\ events' \in 0..MaxEvents
    <2>1. CASE LayoutOk /\ CompactionValid(disk)
      <3>1. disk' = CompactedState(disk) /\ events' = Len(CompactionEvents(disk))
        BY <2>1 DEF Compaction
      <3>2. events' \in 0..(CompactionTrigger - 1)
        BY <2>1, <3>1 DEF CompactionValid
      <3>3. events' \in 0..MaxEvents
        BY <3>2, TriggerAssumption, EventAssumption
      <3> QED BY <3>1, <3>3, CompactionFacts DEF StoreInv
    <2>2. CASE ~(LayoutOk /\ CompactionValid(disk))
      BY <2>2 DEF Compaction, StoreInv, TypeOK
    <2> QED BY <2>1, <2>2
  <1>3. TypeOK'
    BY <1>1, <1>2 DEF StoreInv, TypeOK, JournalInv
  <1>4. FilesMatchJournal' /\ LeaseInv' /\ ReconciliationHasRoom' /\ StepInv'
    BY <1>1, <1>2
       DEF StoreInv, FilesMatchJournal, FileKept, LeaseInv, ReconciliationHasRoom, StepInv
  <1>5. SyncInv'
    BY <1>1, <1>2, IdAssumption DEF StoreInv, SyncInv
  <1> QED BY <1>2, <1>3, <1>4, <1>5, SameTransactions DEF StoreInv

\* The steps of open.
LEMMA OpenStepInv ==
    ASSUME StoreInv, OpenStep
    PROVE  StoreInv' /\ TransactionsFollow
  <1> DEFINE id    == disk.pending
             phase == disk.reservations[id].phase
  <1>1. checkedOut \subseteq Ids /\ file \in [Ids -> FileState]
    BY DEF StoreInv, TypeOK
  <1>2. ASSUME step \in OpeningStep \ {"Layout"}
        PROVE  /\ id # NoId /\ id \in Ids /\ step # "idle"
               /\ handle \notin {"closed", "failed"}
    BY <1>2, PendingFacts DEF StoreInv, StepInv, OpeningStep
  <1>3. CASE ReconcileResolve
    BY <1>1, <1>2, <1>3, TransactionResolveCompleteStep
       DEF ReconcileResolve, OpeningStep, UnsyncedStep, PendingResolution
  <1>4. CASE ReconcileRollback
    BY <1>1, <1>2, <1>4, RollbackResolveCompleteStep
       DEF ReconcileRollback, OpeningStep, UnsyncedStep, PendingRollbackResolution
  <1>5. CASE ReconcileReserve
    <2>1. /\ step = "Reconcile" /\ phase = "ReservePending"
          /\ UNCHANGED <<stable, handle, checkedOut, environment>>
      BY <1>5 DEF ReconcileReserve, PendingPhase
    <2>2. CASE file[id] = "zero"
      BY <2>1, <2>2, <1>1, <1>2, <1>5, ReserveCompleteStep
         DEF ReconcileReserve, OpeningStep, UnsyncedStep, files
    <2>3. CASE file[id] # "zero"
      <3>1. /\ file' = [file EXCEPT ![id] = "absent"]
            /\ step' = IF file[id] = "absent" THEN "AbortReserve" ELSE "AbortSync"
            /\ UNCHANGED <<disk, events>>
        BY <2>3, <1>5 DEF ReconcileReserve
      <3>2. StepInv'
        BY <3>1, <2>1, <1>1, <1>2 DEF StepInv, OpeningStep
      <3>3. \/ step' \in UnsyncedStep
            \/ step \notin UnsyncedStep /\ file[id] = "absent"
        BY <2>1, <3>1 DEF UnsyncedStep
      <3> QED BY <3>1, <3>2, <3>3, <2>1, <1>2, ChangeStep
              DEF FileState, SettledPhase, OpeningStep
    <2> QED BY <2>2, <2>3
  <1>6. CASE AbortSync
    <2>1. step = "AbortSync" /\ phase = "ReservePending" /\ file[id] = "absent"
      BY <1>6 DEF AbortSync, SyncFile, StoreInv, StepInv
    <2>2. StepInv' /\ step' \in OpeningStep
      BY <2>1, <1>2, <1>6 DEF AbortSync, SyncFile, StepInv, OpeningStep
    <2> QED BY <2>1, <2>2, <1>2, <1>6, SyncStep DEF AbortSync, SyncFile, OpeningStep
  <1>7. CASE AbortReserve
    <2>1. phase = "ReservePending" /\ file[id] = "absent"
      BY <1>7 DEF AbortReserve, StoreInv, StepInv
    <2> QED BY <2>1, <1>1, <1>2, <1>7, ReserveAbortStep
            DEF AbortReserve, OpeningStep, UnsyncedStep
  <1>8. CASE ReconcilePersist
    <2>1. /\ step = "Reconcile" /\ phase = "PersistPending"
          /\ UNCHANGED <<stable, handle, checkedOut, environment>>
      BY <1>8 DEF ReconcilePersist, PendingPhase
    <2>2. CASE file[id] = "full"
      BY <2>1, <2>2, <1>1, <1>2, <1>8, PersistCompleteStep
         DEF ReconcilePersist, OpeningStep, UnsyncedStep, files
    <2>3. CASE file[id] # "full"
      <3>1. /\ file' = [file EXCEPT ![id] = "truncated"] /\ step' = "ResetAllocate"
            /\ UNCHANGED <<disk, events>>
        BY <2>3, <1>8 DEF ReconcilePersist
      <3>2. StepInv' /\ step' \in UnsyncedStep
        BY <3>1, <2>1, <1>1, <1>2 DEF StepInv, OpeningStep, UnsyncedStep
      <3> QED BY <3>1, <3>2, <2>1, <1>2, ChangeStep DEF FileState, SettledPhase, OpeningStep
    <2> QED BY <2>2, <2>3
  <1>9. CASE ResetAllocate
    <2>1. step = "ResetAllocate" /\ phase = "PersistPending"
      BY <1>9 DEF ResetAllocate, ChangeFile, StoreInv, StepInv
    <2>2. StepInv' /\ step' \in UnsyncedStep
      BY <2>1, <1>1, <1>2, <1>9
         DEF ResetAllocate, ChangeFile, StepInv, OpeningStep, UnsyncedStep
    <2> QED BY <2>1, <2>2, <1>2, <1>9, ChangeStep
            DEF ResetAllocate, ChangeFile, FileState, SettledPhase, OpeningStep
  <1>10. CASE ResetSync
    <2>1. step = "ResetSync" /\ phase = "PersistPending" /\ file[id] = "zero"
      BY <1>10 DEF ResetSync, SyncFile, StoreInv, StepInv
    <2>2. StepInv' /\ step' \in OpeningStep
      BY <2>1, <1>2, <1>10 DEF ResetSync, SyncFile, StepInv, OpeningStep
    <2> QED BY <2>1, <2>2, <1>2, <1>10, SyncStep DEF ResetSync, SyncFile, OpeningStep
  <1>11. CASE AbortPersist
    <2>1. phase = "PersistPending" /\ file[id] = "zero"
      BY <1>11 DEF AbortPersist, StoreInv, StepInv
    <2> QED BY <2>1, <1>1, <1>2, <1>11, PersistAbortStep
            DEF AbortPersist, OpeningStep, UnsyncedStep
  <1>12. CASE ReconcileRelease
    <2>1. step = "Reconcile" /\ phase \in {"CancelPending", "RetirePending"}
      BY <1>12 DEF ReconcileRelease, PendingPhase
    <2>2. StepInv'
      BY <2>1, <1>1, <1>2, <1>12 DEF ReconcileRelease, StepInv, OpeningStep
    <2>3. \/ step' \in UnsyncedStep
          \/ step \notin UnsyncedStep /\ file[id] = "absent"
      BY <2>1, <1>12 DEF ReconcileRelease, UnsyncedStep
    <2> QED BY <2>1, <2>2, <2>3, <1>2, <1>12, ChangeStep
            DEF ReconcileRelease, FileState, SettledPhase, OpeningStep
  <1>13. CASE RemoveSync
    <2>1. /\ step = "RemoveSync" /\ phase \in {"CancelPending", "RetirePending"}
          /\ file[id] = "absent"
      BY <1>13 DEF RemoveSync, SyncFile, StoreInv, StepInv
    <2>2. StepInv' /\ step' \in OpeningStep
      BY <2>1, <1>2, <1>13 DEF RemoveSync, SyncFile, StepInv, OpeningStep
    <2> QED BY <2>1, <2>2, <1>2, <1>13, SyncStep DEF RemoveSync, SyncFile, OpeningStep
  <1>14. CASE FinishRelease
    <2>1. phase \in {"CancelPending", "RetirePending"} /\ file[id] = "absent"
      BY <1>14 DEF FinishRelease, StoreInv, StepInv
    <2> QED BY <2>1, <1>1, <1>2, <1>14, ReleaseCompleteStep
            DEF FinishRelease, OpeningStep, UnsyncedStep
  <1>15. CASE OpenRefused \/ OpenReady
    <2>1. /\ UNCHANGED <<disk, events, file, stable, checkedOut, boot, parent, issued,
                         txLeases, rbLeases, faults, lost>>
          /\ handle' \in {"closed", "open"} /\ step = "Layout" /\ step' = "idle"
      BY <1>15 DEF OpenRefused, OpenReady, environment, files
    <2>2. StepInv' /\ SyncInv'
      BY <2>1 DEF StoreInv, StepInv, SyncInv, UnsyncedStep
    <2>3. TypeOK'
      BY <2>1 DEF StoreInv, TypeOK
    <2>4. JournalInv(disk') /\ FilesMatchJournal' /\ LeaseInv' /\ ReconciliationHasRoom'
      BY <2>1 DEF StoreInv, FilesMatchJournal, FileKept, LeaseInv, ReconciliationHasRoom
    <2> QED BY <2>1, <2>2, <2>3, <2>4, SameTransactions DEF StoreInv
  <1>16. CASE OpenCompact
    <2>1. disk.pending = NoId /\ Compaction("open", "closed")
      BY <1>16 DEF OpenCompact, StoreInv, StepInv
    <2> QED BY <2>1, CompactionStep
  <1> QED BY <1>3, <1>4, <1>5, <1>6, <1>7, <1>8, <1>9, <1>10, <1>11, <1>12, <1>13, <1>14,
             <1>15, <1>16
          DEF OpenStep

\* Opening, closing, faults and the requests that change no durable state.
LEMMA OtherStepInv ==
    ASSUME StoreInv,
           \/ \E id \in Ids : ResumeReserved(id) \/ PersistRefused(id)
           \/ Open \/ OperationFails \/ Close \/ Crash \/ Reboot \/ UNCHANGED vars
    PROVE  StoreInv' /\ TransactionsFollow
  <1>1. disk' = disk /\ events' = events /\ issued' = issued
    BY DEF ResumeReserved, PersistRefused, Open, OperationFails, Close, Crash, Reboot,
        environment, vars
  <1>2. StepInv'
    BY <1>1 DEF ResumeReserved, PersistRefused, Open, OperationFails, Close, Crash, Reboot,
        Dropped, files, vars, StoreInv, StepInv
  <1>3. CASE Reboot
    <2>1. /\ boot' \in 1..MaxBoots /\ parent' \in Parents
          /\ file' \in [Ids -> FileState] /\ stable' = file'
          /\ handle' = "closed" /\ step' = "idle" /\ checkedOut' = {} /\ faults' = faults
          /\ txLeases' = [id \in Ids |-> 0] /\ rbLeases' = [id \in Ids |-> 0]
          /\ \A id \in Ids : file'[id] \in AfterPowerLoss(file[id], stable[id])
          /\ lost' = lost \cup {id \in Ids : /\ disk.reservations[id].phase \in SettledPhase
                                            /\ file[id] # stable[id]}
      BY <1>3, BoundAssumption DEF Reboot, Dropped, StoreInv, TypeOK
    <2>2. TypeOK'
      BY <1>1, <2>1 DEF StoreInv, TypeOK
    <2>3. FilesMatchJournal'
      <3> SUFFICES ASSUME NEW id \in Ids, id \notin lost'
                   PROVE  FileMatches(disk.reservations[id].phase, file'[id])
        BY <1>1 DEF FilesMatchJournal, FileKept
      <3>1. /\ file'[id] \in AfterPowerLoss(file[id], stable[id])
            /\ FileMatches(disk.reservations[id].phase, file[id])
        BY <2>1 DEF StoreInv, FilesMatchJournal, FileKept
      <3>2. CASE file[id] = stable[id]
        BY <3>1, <3>2 DEF AfterPowerLoss
      <3>3. CASE file[id] # stable[id]
        BY <2>1, <3>3 DEF FileMatches, SettledPhase
      <3> QED BY <3>2, <3>3
    <2>4. SyncInv'
      <3> SUFFICES ASSUME faults = 0 PROVE lost' = {} /\ stable' = file'
        BY <2>1 DEF SyncInv
      <3>1. step \in UnsyncedStep => disk.reservations[disk.pending].phase \notin SettledPhase
        BY DEF StoreInv, StepInv, UnsyncedStep, SettledPhase
      <3>2. /\ lost = {}
            /\ \A id \in Ids : file[id] = stable[id]
                               \/ disk.reservations[id].phase \notin SettledPhase
        BY <3>1 DEF StoreInv, SyncInv
      <3> QED BY <2>1, <3>2
    <2>5. LeaseInv'
      BY <1>1, <2>1 DEF StoreInv, LeaseInv, LeaseRecorded
    <2>6. ReconciliationHasRoom' /\ JournalInv(disk')
      BY <1>1 DEF StoreInv, ReconciliationHasRoom
    <2> QED BY <1>1, <1>2, <2>2, <2>3, <2>4, <2>5, <2>6, SameTransactions DEF StoreInv
  <1>4. CASE ~Reboot
    <2>1. UNCHANGED <<file, stable, boot, parent, txLeases, rbLeases, lost>>
      BY <1>4 DEF ResumeReserved, PersistRefused, Open, OperationFails, Close, Crash,
         environment, files, vars
    <2>2. /\ checkedOut' \subseteq Ids /\ faults' \in 0..MaxFaults
          /\ handle' \in {"closed", "opening", "open", "failed"}
          /\ step' \in HandlerStep \cup OpeningStep \cup {"idle"}
      BY <1>4, BoundAssumption
         DEF ResumeReserved, PersistRefused, Open, OperationFails, Close, Crash, Dropped,
             environment, vars, StoreInv, TypeOK, OpeningStep
    <2>3. TypeOK'
      BY <1>1, <2>1, <2>2 DEF StoreInv, TypeOK
    <2>4. FilesMatchJournal' /\ LeaseInv' /\ ReconciliationHasRoom' /\ JournalInv(disk')
      BY <1>1, <2>1
         DEF StoreInv, FilesMatchJournal, FileKept, LeaseInv, ReconciliationHasRoom
    <2>5. SyncInv'
      <3>1. \/ faults' = faults + 1
            \/ faults' = faults /\ (step' = step \/ step = "idle")
        BY <1>4 DEF ResumeReserved, PersistRefused, Open, OperationFails, Close, Crash,
           environment, vars, StoreInv, StepInv
      <3>2. faults \in Nat
        BY DEF StoreInv, TypeOK
      <3> QED BY <1>1, <2>1, <3>1, <3>2 DEF StoreInv, SyncInv, UnsyncedStep
    <2> QED BY <1>1, <1>2, <2>3, <2>4, <2>5, SameTransactions DEF StoreInv
  <1> QED BY <1>3, <1>4

\* The empty store: no journal entry, no backup file.
LEMMA InitStoreInv == ASSUME Init PROVE StoreInv
  <1>1. EmptyState \in RecoveredState /\ disk = EmptyState
    BY DEF Init, EmptyState, RecoveredState, ReservationRecord, ReleaseTombstone,
       TransactionRecord, RollbackRecord, NoReservation, NoRelease, NoTransaction,
          NoRollback,
       ReservationPhase
  <1>2. /\ \A id \in Ids : /\ disk.reservations[id] = NoReservation
                           /\ disk.transactions[id] = NoTransaction
        /\ disk.pending = NoId /\ disk.openTransaction = NoId /\ disk.openRollback = NoId
        /\ disk.verdict = "ok"
    BY <1>1 DEF EmptyState
  <1>3. TypeOK
    BY <1>1, EventAssumption, BoundAssumption DEF Init, TypeOK, FileState
  <1>4. ReleaseInv(disk)
    <2>1. Released(disk) = {} /\ Active(disk) = {}
      BY <1>1 DEF EmptyState, Released, Active, NoRelease, NoReservation
    <2>2. Cardinality(Released(disk)) = 0
      BY <2>1, FS_EmptySet
    <2> QED BY <2>1, <2>2, LimitAssumption DEF ReleaseInv
  <1>5. ASSUME NEW id \in Ids
        PROVE  RecordInv(id, disk.reservations[id], disk.transactions[id], disk.pending,
                         disk.openTransaction, disk.openRollback)
    BY <1>2, IdAssumption DEF RecordInv, PendingInv, TransactionInv, NoReservation,
        NoTransaction, NoRollback
  <1>6. JournalInv(disk)
    BY <1>1, <1>2, <1>4, <1>5 DEF JournalInv
  <1>7. FilesMatchJournal /\ SyncInv /\ LeaseInv /\ ReconciliationHasRoom /\ StepInv
    BY <1>2 DEF Init, FilesMatchJournal, FileKept, FileMatches, SyncInv, LeaseInv,
       LeaseRecorded, StepInv, ReconciliationHasRoom, NoReservation
  <1> QED BY <1>3, <1>6, <1>7 DEF StoreInv

\* The induction step: every action of the store keeps the invariant.
LEMMA NextStoreInv ==
    ASSUME StoreInv, [Next]_vars
    PROVE  StoreInv' /\ TransactionsFollow
  <1>1. CASE Request
    <2>1. ASSUME NEW id \in Ids, NEW draft \in Drafts, ReserveBackup(id, draft)
          PROVE  StoreInv' /\ TransactionsFollow
      BY <2>1, ReserveBackupStep
    <2>2. ASSUME NEW id \in Ids, PersistBackup(id)  PROVE StoreInv' /\ TransactionsFollow
      BY <2>2, PersistBackupStep
    <2>3. ASSUME NEW id \in Ids, CancelReserved(id) PROVE StoreInv' /\ TransactionsFollow
      BY <2>3, CancelReservedStep
    <2>4. ASSUME NEW id \in Ids, RetireBackup(id)   PROVE StoreInv' /\ TransactionsFollow
      BY <2>4, RetireBackupStep
    <2>5. ASSUME NEW id \in Ids, ConsumeWriteLease(id) PROVE StoreInv' /\ TransactionsFollow
      BY <2>5, ConsumeWriteLeaseStep
    <2>6. ASSUME NEW id \in Ids, NEW outcome \in Outcome, ResolveTransaction(id, outcome)
          PROVE  StoreInv' /\ TransactionsFollow
      BY <2>6, ResolveTransactionStep
    <2>7. ASSUME NEW id \in Ids, NEW rollback \in RollbackIds, BeginRollback(id, rollback)
          PROVE  StoreInv' /\ TransactionsFollow
      BY <2>7, BeginRollbackStep
    <2>8. ASSUME NEW id \in Ids, ConsumeRollbackWriteLease(id)
          PROVE  StoreInv' /\ TransactionsFollow
      BY <2>8, ConsumeRollbackWriteLeaseStep
    <2>9. ASSUME NEW id \in Ids, NEW outcome \in RollbackOutcome, ResolveRollback(id,
       outcome)
          PROVE  StoreInv' /\ TransactionsFollow
      BY <2>9, ResolveRollbackStep
    <2>10. CASE CompactForRoom
      BY <2>10, CompactionStep DEF CompactForRoom, Mutable
    <2>11. CASE \E id \in Ids : ResumeReserved(id) \/ PersistRefused(id)
      BY <2>11, OtherStepInv
    <2> QED BY <1>1, <2>1, <2>2, <2>3, <2>4, <2>5, <2>6, <2>7, <2>8, <2>9, <2>10, <2>11
            DEF Request
  <1>2. CASE OperationStep
    BY <1>2, OperationStepInv
  <1>3. CASE OpenStep
    BY <1>3, OpenStepInv
  <1>4. CASE Open \/ OperationFails \/ Close \/ Crash \/ Reboot \/ UNCHANGED vars
    BY <1>4, OtherStepInv
  <1> QED BY <1>1, <1>2, <1>3, <1>4 DEF Next

(***************************************************************************)
(* The theorems.                                                           *)
(***************************************************************************)
\* StoreInv is an invariant of the store: repair_store.rs keeps its journal, its
\* backup files, the step in progress and its leases in agreement through every
\* request, crash, power loss, reconciliation and compaction.
THEOREM StoreInvariance == Spec => []StoreInv
  <1>1. Init => StoreInv
    BY InitStoreInv
  <1>2. StoreInv /\ [Next]_vars => StoreInv'
    BY NextStoreInv
  <1> QED BY <1>1, <1>2, PTL DEF Spec

\* Type correctness of the recovered state and of the handle.
THEOREM TypeCorrect == Spec => []TypeOK
  <1>1. StoreInv => TypeOK
    BY DEF StoreInv
  <1> QED BY <1>1, StoreInvariance, PTL

\* apply_repair_event never rejects an event the store has appended.
THEOREM JournalNeverCorrupt == Spec => []NeverCorrupt
  <1>1. StoreInv => NeverCorrupt
    BY DEF StoreInv, JournalInv, NeverCorrupt
  <1> QED BY <1>1, StoreInvariance, PTL

\* The backup files are what the journal says: a durable backup is complete until
\* its retirement has been decided.
THEOREM FilesFollowJournal == Spec => []FilesMatchJournal
  <1>1. StoreInv => FilesMatchJournal
    BY DEF StoreInv
  <1> QED BY <1>1, StoreInvariance, PTL

\* Power loss without a crashed process or a failed file operation before it costs
\* no completed operation its file.
THEOREM PowerLossSafe == Spec => []PowerLossAloneHarmless
  <1>1. StoreInv => PowerLossAloneHarmless
    BY DEF StoreInv, SyncInv, PowerLossAloneHarmless
  <1> QED BY <1>1, StoreInvariance, PTL

\* At most one repair or rollback is unresolved, and it has its backup.
THEOREM SingleRepair == Spec => []OneUnresolvedRepair
  <1>1. StoreInv => OneUnresolvedRepair
    <2> SUFFICES ASSUME StoreInv PROVE OneUnresolvedRepair
      OBVIOUS
    <2>1. ASSUME NEW id \in Ids
          PROVE  /\ RecordOk(disk, id) /\ FileKept(id, disk.reservations[id].phase)
                 /\ disk.openTransaction = id <=> id \in OpenTransactions(disk)
                 /\ disk.openRollback = id <=> id \in OpenRollbacks(disk)
                 /\ id \in OpenTransactions(disk) \cup OpenRollbacks(disk)
                      => disk.reservations[id].phase = "Durable"
      <3>1. RecordOk(disk, id) /\ FileKept(id, disk.reservations[id].phase)
        BY RecordFacts DEF StoreInv, FilesMatchJournal
      <3>2. /\ disk.openTransaction = id <=> id \in OpenTransactions(disk)
            /\ disk.openRollback = id <=> id \in OpenRollbacks(disk)
        BY <3>1 DEF RecordOk, RecordInv, TransactionInv, OpenTransactions, OpenRollbacks
      <3>3. id \in OpenTransactions(disk) \cup OpenRollbacks(disk)
              => disk.reservations[id].phase = "Durable"
        BY <3>1 DEF RecordOk, RecordInv, TransactionInv, OpenTransactions, OpenRollbacks,
           Resolved, RollbackClosed
      <3> QED BY <3>1, <3>2, <3>3
    <2>2. /\ disk.openTransaction \in Ids \cup {NoId}
          /\ disk.openRollback \in Ids \cup {NoId}
          /\ disk.openTransaction = NoId \/ disk.openRollback = NoId
      BY DEF StoreInv, RecoveredState, JournalInv
    <2>3. OpenTransactions(disk) \subseteq Ids /\ OpenRollbacks(disk) \subseteq Ids
      BY DEF OpenTransactions, OpenRollbacks
    <2>4. OpenTransactions(disk) = SingletonOf(disk.openTransaction)
      BY <2>1, <2>2, <2>3, IdAssumption DEF SingletonOf
    <2>5. OpenRollbacks(disk) = SingletonOf(disk.openRollback)
      BY <2>1, <2>2, <2>3, IdAssumption DEF SingletonOf
    <2>6. \A id \in OpenTransactions(disk) \cup OpenRollbacks(disk) :
             disk.reservations[id].phase = "Durable" /\ (id \in lost \/ file[id] = "full")
      BY <2>1, <2>3 DEF FileKept, FileMatches
    <2> QED BY <2>2, <2>4, <2>5, <2>6 DEF OneUnresolvedRepair
  <1> QED BY <1>1, StoreInvariance, PTL

\* One write lease per transaction, one per rollback, in any boot.
THEOREM LeaseUniqueness == Spec => []LeaseOncePerBoot
  <1>1. StoreInv => LeaseOncePerBoot
    BY DEF StoreInv, LeaseInv, LeaseRecorded, LeaseOncePerBoot
  <1> QED BY <1>1, StoreInvariance, PTL

\* The completing event of a durable intent always fits into the journal.
THEOREM RoomForReconciliation == Spec => []ReconciliationHasRoom
  <1>1. StoreInv => ReconciliationHasRoom
    BY DEF StoreInv
  <1> QED BY <1>1, StoreInvariance, PTL

\* A final outcome is never rewritten.
THEOREM FinalResolutions == Spec => ResolutionFinal
  <1>1. StoreInv /\ [Next]_vars =>
          [\A id \in Ids : KeepsResolution(disk.transactions[id],
             disk'.transactions[id])]_vars
    BY NextStoreInv DEF TransactionsFollow, Follows
  <1> QED BY <1>1, StoreInvariance, PTL DEF Spec, ResolutionFinal

\* The intent that is durable decides the outcome.
THEOREM IntentsDecide == Spec => IntentDecides
  <1>1. StoreInv /\ [Next]_vars =>
          [\A id \in Ids : FollowsIntent(disk.transactions[id],
             disk'.transactions[id])]_vars
    BY NextStoreInv DEF TransactionsFollow, Follows
  <1> QED BY <1>1, StoreInvariance, PTL DEF Spec, IntentDecides
=============================================================================

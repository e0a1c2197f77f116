------------------------ MODULE RepairStoreInvariant ------------------------
(***************************************************************************)
(* The inductive invariant behind the safety properties of RepairStore:    *)
(* what relates the fields of the replayed journal to each other, to the   *)
(* operation in progress, to the backup files and to the leases handed     *)
(* out.                                                                    *)
(***************************************************************************)
EXTENDS RepairStore

\* What relates the reservation r and the transaction tx of one identifier to the
\* singleton fields of the state: p is pending, ot and or are the unresolved
\* transaction and rollback.  Only the pending reservation is in an intermediate
\* phase; transactions belong to persisted backups and rollbacks to committed
\* repairs; ot and or name exactly the unresolved ones.
PendingInv(id, r, tx, p, ot, or) ==
    /\ id # p => /\ r.phase \in {"Absent", "Reserved", "Durable"}
                 /\ tx.pending = "None" /\ tx.rollback.pending = "None"
    /\ id = p =>
        \/ /\ r.phase \in {"ReservePending", "PersistPending"}
           /\ tx.pending = "None" /\ tx.rollback.pending = "None"
           /\ ot = NoId /\ or = NoId
        \/ /\ r.phase \in {"CancelPending", "RetirePending"}
           /\ tx.pending = "None" /\ tx.rollback.pending = "None"
        \/ /\ r.phase = "Durable" /\ ot = id
           /\ tx.pending # "None" /\ tx.rollback.pending = "None"
        \/ /\ r.phase = "Durable" /\ or = id
           /\ tx.pending = "None" /\ tx.rollback.pending # "None"

TransactionInv(id, r, tx, ot, or) ==
    /\ r.phase \in {"Durable", "RetirePending"} <=> tx.resolution # "Absent"
    /\ tx.rollback.id = NoId <=> tx.rollback.resolution = "Absent"
    /\ tx.rollback.id # NoId => tx.resolution = "CommittedAfter"
    /\ r.phase = "RetirePending" => Resolved(tx.resolution) /\ RollbackClosed(tx)
    /\ ot = id <=> tx.resolution \in {"None", "Manual"}
    /\ or = id <=> tx.rollback.resolution \in {"None", "Manual"}

RecordInv(id, r, tx, p, ot, or) ==
    PendingInv(id, r, tx, p, ot, or) /\ TransactionInv(id, r, tx, ot, or)

\* A released identifier is no longer reserved, every identifier in use has been
\* seen, and an operation starts only with a tombstone slot to spare.
ReleaseInv(st) ==
    /\ \A id \in Released(st) : st.reservations[id].phase = "Absent"
    /\ Active(st) \cup Released(st) \subseteq st.seen
    /\ Cardinality(Released(st)) <= MaxRetained + 1
    /\ st.pending # NoId => Cardinality(Released(st)) <= MaxRetained

JournalInv(st) ==
    /\ st \in RecoveredState
    /\ st.verdict = "ok"
    /\ \A id \in Ids : RecordInv(id, st.reservations[id], st.transactions[id],
                                 st.pending, st.openTransaction, st.openRollback)
    /\ st.openTransaction = NoId \/ st.openRollback = NoId
    /\ ReleaseInv(st)

\* The next step of the operation in progress fits the pending reservation and
\* the file it is about to change.
StepInv ==
    LET p     == disk.pending
        phase == disk.reservations[p].phase
        tx    == disk.transactions[p]
    IN /\ handle \in {"closed", "failed"} => step = "idle"
       /\ step \notin {"idle", "Layout"} => p # NoId
       /\ step = "Layout" => p = NoId
       /\ step \in {"ReserveCreate", "ReserveAllocate", "ReserveSync", "ReserveFinish",
                    "AbortSync", "AbortReserve"}
            => phase = "ReservePending"
       /\ step \in {"PersistWrite", "PersistFlush", "PersistSync", "PersistFinish",
                    "ResetAllocate", "ResetSync", "AbortPersist"}
            => phase = "PersistPending"
       /\ step \in {"ReleaseRemove", "ReleaseSync", "ReleaseFinish", "RemoveSync",
                    "FinishRelease"}
            => phase \in {"CancelPending", "RetirePending"}
       /\ step = "ResolveFinish" => tx.pending # "None"
       /\ step = "RollbackResolveFinish" => tx.rollback.pending # "None"
       /\ step \in {"AbortSync", "AbortReserve", "ReleaseSync", "ReleaseFinish",
                    "RemoveSync", "FinishRelease"}
            => file[p] = "absent"
       /\ step \in {"ReserveSync", "ReserveFinish", "ResetSync", "AbortPersist"}
            => file[p] = "zero"
       /\ step \in {"PersistSync", "PersistFinish"} => file[p] = "full"

\* As long as nothing crashed or failed, a file differs from its copy on stable
\* storage only between the change and the synchronization of one operation.
UnsyncedStep ==
    {"ReserveAllocate", "ReserveSync", "PersistFlush", "PersistSync", "ReleaseSync",
     "AbortSync", "ResetAllocate", "ResetSync", "RemoveSync"}

SyncInv ==
    faults = 0 =>
        /\ lost = {}
        /\ \A id \in Ids : \/ file[id] = stable[id]
                           \/ id = disk.pending /\ step \in UnsyncedStep

\* A lease handed out in this boot is recorded in the transaction for as long as
\* the transaction exists, and its identifier is never issued again.
LeaseRecorded(r, tx, txCount, rbCount, epoch) ==
    /\ txCount # 0 => /\ txCount = 1
                      /\ r.phase \in {"Absent", "Durable", "RetirePending"}
                      /\ r.phase # "Absent" => tx.lease = epoch
    /\ rbCount # 0 => /\ rbCount = 1
                      /\ r.phase \in {"Absent", "Durable", "RetirePending"}
                      /\ r.phase # "Absent" => tx.rollback.id # NoId
                                               /\ tx.rollback.lease = epoch

LeaseInv ==
    \A id \in Ids :
        /\ LeaseRecorded(disk.reservations[id], disk.transactions[id],
                         txLeases[id], rbLeases[id], boot)
        /\ id \notin issued => /\ disk.reservations[id].phase = "Absent"
                               /\ txLeases[id] = 0 /\ rbLeases[id] = 0

StoreInv ==
    /\ TypeOK
    /\ JournalInv(disk)
    /\ FilesMatchJournal
    /\ StepInv
    /\ SyncInv
    /\ LeaseInv
    /\ ReconciliationHasRoom

(***************************************************************************)
(* What the records remember beyond StoreInv: which releases are recent,   *)
(* which drafts were used and what a transaction that has not begun looks  *)
(* like.                                                                   *)
(***************************************************************************)
\* No release is dated ahead of the clock, and every release has an event of its
\* own: the dates order the tombstones.
ReleaseOrder(st) ==
    /\ \A id \in Released(st) : st.released[id].at <= st.clock
    /\ \A a, b \in Released(st) : st.released[a].at = st.released[b].at => a = b

\* A transaction or rollback that is not there holds no lease and no intent, and
\* an intent is always for another outcome than the recorded one.
TransactionShape(tx) ==
    /\ tx.resolution = "Absent" => tx = NoTransaction
    /\ tx.rollback.resolution = "Absent" => tx.rollback = NoRollback
    /\ tx.pending # "None" => tx.pending # tx.resolution
    /\ tx.rollback.pending # "None" => tx.rollback.pending # tx.rollback.resolution

\* A reservation carries a resolution exactly while it is being retired, and one
\* that is not there carries nothing.
ReservationShape(r) ==
    /\ r.phase = "Absent" => r = NoReservation
    /\ r.phase = "RetirePending" => Resolved(r.resolution)
    /\ r.phase # "RetirePending" => r.resolution = "Absent"

\* A tombstone remembers the reservation as its release found it.
ReleaseShape(release) ==
    /\ release.operation = "Cancel" => release.record.phase = "CancelPending"
    /\ release.operation = "Retire" => release.record.phase = "RetirePending"
    /\ ReservationShape(release.record)

\* No two rollbacks share an identifier.
RollbacksDiffer(st) ==
    \A a, b \in Ids : /\ st.transactions[a].rollback.id = st.transactions[b].rollback.id
                      /\ st.transactions[a].rollback.id # NoId
                      => a = b

HistoryInv ==
    /\ ReleaseOrder(disk)
    /\ DraftReservedOnce
    /\ \A id \in Ids : /\ TransactionShape(disk.transactions[id])
                       /\ ReservationShape(disk.reservations[id])
                       /\ ReleaseShape(disk.released[id])
    /\ RollbacksDiffer(disk)
    /\ Cardinality(Active(disk)) <= MaxReservations
=============================================================================

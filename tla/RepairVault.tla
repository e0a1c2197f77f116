---------------------------- MODULE RepairVault ----------------------------
(***************************************************************************)
(* What the Repair Vault promises to the repair service: one atomic record *)
(* per reservation, at most one unresolved repair or rollback, outcomes    *)
(* that are final, and one write lease per transaction and boot.  The      *)
(* store with its journal, files, crashes and compactions (RepairStore)    *)
(* implements this module; the repair service (RepairExecution) is built   *)
(* on it.                                                                  *)
(***************************************************************************)
EXTENDS Naturals

CONSTANT Ids   \* reservation identifiers

VARIABLES
    tx,        \* the record of every reservation and its transaction
    boot       \* the boot epoch, which write leases are bound to

vaultVars == <<tx, boot>>

\* phase of the repair and of its child rollback, with the boot each was last given
\* a write lease in.
Phase == {"free", "reserved", "pending", "committed", "closed", "manual"}
ChildPhase == {"none", "pending", "rolledBack", "manual"}
TransactionStatus ==
    [phase : Phase, lease : Nat, child : ChildPhase, childLease : Nat]
FreeSlot == [phase |-> "free", lease |-> 0, child |-> "none", childLease |-> 0]

Unresolved == {"pending", "manual"}
UnresolvedRepairs == {id \in Ids : tx[id].phase \in Unresolved}
UnresolvedRollbacks == {id \in Ids : tx[id].child \in Unresolved}
NothingOpen == UnresolvedRepairs = {} /\ UnresolvedRollbacks = {}

VaultTypeOK == tx \in [Ids -> TransactionStatus] /\ boot \in Nat

VaultInit == tx = [id \in Ids |-> FreeSlot] /\ boot = 1

\* Reserve: capacity for the backup of a draft.
Reserve(id) ==
    /\ tx[id].phase = "free" /\ NothingOpen
    /\ tx' = [tx EXCEPT ![id].phase = "reserved"]
    /\ UNCHANGED boot

\* Persist: backup and transaction become durable together.
Persist(id) ==
    /\ tx[id].phase = "reserved" /\ NothingOpen
    /\ tx' = [tx EXCEPT ![id].phase = "pending"]
    /\ UNCHANGED boot

CancelReservation(id) ==
    /\ tx[id].phase = "reserved"
    /\ tx' = [tx EXCEPT ![id] = FreeSlot]
    /\ UNCHANGED boot

\* consume_write_lease: once for a pending transaction and boot.
Lease(id) ==
    /\ tx[id].phase = "pending" /\ tx[id].lease # boot
    /\ tx' = [tx EXCEPT ![id].lease = boot]
    /\ UNCHANGED boot

\* resolve_transaction: from pending, and from manual to something else.
Resolve(id, outcome) ==
    /\ tx[id].phase \in Unresolved /\ tx[id].phase # outcome
    /\ outcome \in {"committed", "closed", "manual"}
    /\ tx' = [tx EXCEPT ![id].phase = outcome]
    /\ UNCHANGED boot

\* begin_rollback_transaction: one child of a committed repair.
BeginChild(id) ==
    /\ tx[id].phase = "committed" /\ tx[id].child = "none" /\ NothingOpen
    /\ tx' = [tx EXCEPT ![id].child = "pending"]
    /\ UNCHANGED boot

LeaseChild(id) ==
    /\ tx[id].child = "pending" /\ tx[id].childLease # boot
    /\ tx' = [tx EXCEPT ![id].childLease = boot]
    /\ UNCHANGED boot

ResolveChild(id, outcome) ==
    /\ tx[id].child \in Unresolved /\ tx[id].child # outcome
    /\ outcome \in {"rolledBack", "manual"}
    /\ tx' = [tx EXCEPT ![id].child = outcome]
    /\ UNCHANGED boot

\* Retire: a settled repair whose child, if any, is settled too.
Retire(id) ==
    /\ tx[id].phase \in {"committed", "closed"} /\ tx[id].child \notin Unresolved
    /\ tx' = [tx EXCEPT ![id] = FreeSlot]
    /\ UNCHANGED boot

NextBoot == boot' = boot + 1 /\ UNCHANGED tx

VaultNext ==
    \/ \E id \in Ids :
        \/ Reserve(id) \/ Persist(id) \/ CancelReservation(id)
        \/ Lease(id) \/ \E outcome \in Phase : Resolve(id, outcome)
        \/ BeginChild(id) \/ LeaseChild(id)
        \/ \E outcome \in ChildPhase : ResolveChild(id, outcome)
        \/ Retire(id)
    \/ NextBoot

VaultSpec == VaultInit /\ [][VaultNext]_vaultVars
=============================================================================

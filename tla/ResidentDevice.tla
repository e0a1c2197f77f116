---------------------------- MODULE ResidentDevice ----------------------------
(***************************************************************************)
(* The durable state of a Resident device that installs signed A/B         *)
(* updates: the two system slots, the boot selection kept by the firmware, *)
(* the files of the staging and activation journals, and the two           *)
(* executables that work on them, the stager (UpdateStager) and the boot   *)
(* activator (BootActivator).                                              *)
(*                                                                         *)
(* A release is named by its signed sequence number: one sequence, one     *)
(* manifest, one artifact.  A binding [sequence, target] is what the       *)
(* staging checkpoint, the staging receipt and the activation candidate    *)
(* all carry; the known-good slot is the inactive one of its target.       *)
(* Every file is written by a temporary file, a sync and a rename, so a    *)
(* write is one step and a crash falls between two of them.                *)
(***************************************************************************)
EXTENDS Naturals

CONSTANTS
    MaxSequence,    \* bound: releases 1..MaxSequence are offered
    Broken,         \* the releases that never come up when booted
    Once,           \* the stager runs one cycle (--once) or stays resident
    MaxSigned,      \* bound: updates staged to the end
    MaxRollbacks,   \* bound: local break-glass rollbacks
    MaxFaults,      \* bound: power losses and failing processes
    StartLimitBurst \* starts systemd allows the activator's unit in one window

ASSUME DeviceAssumption ==
    /\ MaxSequence \in Nat \ {0}
    /\ Broken \subseteq 1..MaxSequence
    /\ Once \in BOOLEAN
    /\ {MaxSigned, MaxRollbacks, MaxFaults} \subseteq Nat
    /\ StartLimitBurst \in Nat \ {0}

VARIABLES
    current,        \* the slot that is running, NoSlot when neither came up
    boot,           \* the kernel's boot identifier
    default,        \* firmware: the persistent entry
    oneshot,        \* firmware: the entry of the next boot only, or NoSlot
    image,          \* what each slot holds
    proven,         \* history: slots that have come up with what they hold now
    checkpoint,     \* the anti-rollback sequence, 0 before the first update
    pending,        \* staging: the interrupted binding, or NoBinding
    staged,         \* staging: the receipt of the completed one, or NoBinding
    candidate,      \* boot-activation-candidate, or NoBinding
    audit,          \* update-audit-receipt, or NoAudit
    audits,         \* the archived audit receipts
    activation,     \* boot-activation-state, or NoState
    receipts,       \* the archived terminal receipts
    lastReceipt,    \* boot-activation-last-receipt, or NoReceipt
    stager,         \* [pc, offered]: the staging process
    activator,      \* where the activator process is
    unit,           \* [starts, state]: the activator's unit as systemd keeps it
    signed, rollbacks, faults       \* what the bounds count

machine  == <<current, boot, proven>>
firmware == <<default, oneshot>>
staging  == <<pending, staged>>
archive  == <<audits, receipts, lastReceipt>>
limits   == <<signed, rollbacks, faults>>
budget   == <<limits, unit>>
platform == <<machine, firmware, image>>
records  == <<checkpoint, staging, candidate, audit, archive>>
disk     == <<records, activation>>
vars == <<platform, disk, stager, activator, budget>>

-----------------------------------------------------------------------------
Slots == {"A", "B"}
NoSlot == "none"
Inactive(slot) == IF slot = "A" THEN "B" ELSE "A"

Releases == 1..MaxSequence
Factory  == 0                       \* what both slots hold when provisioned
Torn     == MaxSequence + 1         \* a slot that is being written
Images   == 0..Torn

Binding   == [sequence : Releases, target : Slots]
NoBinding == [sequence |-> 0, target |-> NoSlot]
KnownGood(binding) == Inactive(binding.target)

\* Two audit receipts of one release differ in the time they were signed at.
AuditReceipt == [staged : Binding, stagedAt : 1..MaxSigned]
NoAudit      == [staged |-> NoBinding, stagedAt |-> 0]

FinalPhase == {"FinalizeSucceeded", "FinalizeFallback", "FinalizeRolledBack"}
ActivationPhase == {"Prepared", "Armed", "PromotePrepared", "RollbackPrepared",
                    "RollbackArmed"} \cup FinalPhase
DurableActivationState == [candidate : Binding, phase : ActivationPhase, boot : Nat]
NoState == [candidate |-> NoBinding, phase |-> "None", boot |-> 0]

ActivationOutcome == {"Succeeded", "FellBack", "RolledBack"}
ActivationReceipt == [candidate : Binding, outcome : ActivationOutcome, boot : Nat]
NoReceipt == [candidate |-> NoBinding, outcome |-> "None", boot |-> 0]

\* ArtifactStager::recovery_status.
Clean == pending = NoBinding /\ staged = NoBinding
Completed(binding) == staged = binding /\ pending \in {NoBinding, binding}

\* Both executables hold .resident-update-v1.lock for as long as they run.
LockFree == stager.pc = "stopped" /\ activator = "stopped"

StagerStep == {"stopped", "cycle", "sleeping", "stage", "stream", "streaming",
               "receipt", "unpend", "candidate", "audit"}
ActivatorStep == {"stopped", "rollback", "reconcile", "trial", "arm", "promoted",
                  "revert", "rearm", "last", "audits", "unaudit", "clear", "release",
                  "uncandidate", "unstate"}

\* What systemd does next with the activator: it starts it, as after a boot and
\* after a failure; it waits for the path unit, after a run of the activator or
\* of the rollback; or the rollback that ended its restarts failed itself.
UnitState == {"due", "activator", "rollback", "abandoned"}
FreshUnit == [starts |-> 0, state |-> "due"]

Init ==
    /\ current = "A" /\ boot = 1 /\ proven = Slots
    /\ default = "A" /\ oneshot = NoSlot
    /\ image = [slot \in Slots |-> Factory]
    /\ checkpoint = 0 /\ pending = NoBinding /\ staged = NoBinding
    /\ candidate = NoBinding /\ audit = NoAudit /\ activation = NoState
    /\ audits = {} /\ receipts = {} /\ lastReceipt = NoReceipt
    /\ stager = [pc |-> "stopped", offered |-> 0] /\ activator = "stopped"
    /\ unit = FreshUnit
    /\ signed = 0 /\ rollbacks = 0 /\ faults = 0
=============================================================================

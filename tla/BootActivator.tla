----------------------------- MODULE BootActivator ----------------------------
(***************************************************************************)
(* kernaid-fleet-resident-activator: BootActivationEngine over the         *)
(* systemd-boot selector.  reconcile moves the durable activation state    *)
(* from a staged candidate through one trial boot to a terminal receipt;   *)
(* rollback starts the local break-glass return to the known-good slot.    *)
(* Each durable write and each bootctl call is a step of its own.          *)
(***************************************************************************)
EXTENDS ResidentDevice

ActivatorAt(pc) == activator' = pc
ActivatorExit   == ActivatorAt("stopped")

\* Restart=on-failure, for the activator and not for the rollback.
ActivatorFails ==
    /\ ActivatorExit
    /\ unit' = [unit EXCEPT !.state = IF @ = "rollback" THEN "abandoned" ELSE "due"]

\* persist_state: the retained state is replaced by its next phase, bound to
\* the boot that makes the transition.
Persist(binding, phase) ==
    activation' = [candidate |-> binding, phase |-> phase, boot |-> boot]
MoveTo(phase) == Persist(activation.candidate, phase)

SameBoot == boot = activation.boot
InTarget == current = activation.candidate.target
InKnownGood == current = KnownGood(activation.candidate)

\* systemd starts the unit as long as StartLimitBurst is not used up.
Startable == current # NoSlot /\ activator = "stopped" /\ unit.starts < StartLimitBurst
Started(state) == unit' = [starts |-> unit.starts + 1, state |-> state]

ActivatorStart ==
    /\ Startable /\ LockFree
    /\ ActivatorAt("reconcile")
    /\ Started("activator")
    /\ UNCHANGED <<platform, disk, stager, limits>>

\* The lock is only tried: against a stager, awake or asleep, the start fails.
StartBusy ==
    /\ Startable /\ ~LockFree
    /\ Started("due")
    /\ UNCHANGED <<platform, disk, stager, activator, limits>>

\* StartLimitIntervalSec passes, or the operator resets the counter.  Restarts
\* are 15 s apart, too close for it.
WindowPasses ==
    /\ unit.starts > 0 /\ unit.state # "due"
    /\ unit' = [unit EXCEPT !.starts = 0]
    /\ UNCHANGED <<platform, disk, stager, activator, limits>>

\* The operator starts the rollback service.  Conflicts= ends the restarts of
\* the activator; the rollback has none of its own.
RollbackStart ==
    /\ activator = "stopped" /\ current # NoSlot /\ rollbacks < MaxRollbacks
    /\ rollbacks' = rollbacks + 1
    /\ \/ LockFree /\ ActivatorAt("rollback") /\ unit' = [unit EXCEPT !.state = "rollback"]
       \/ ~LockFree /\ UNCHANGED activator /\ unit' = [unit EXCEPT !.state = "abandoned"]
    /\ UNCHANGED <<platform, disk, stager, signed, faults>>

-----------------------------------------------------------------------------
\* reconcile without a recorded state.
ReconcileIdle ==
    /\ activator = "reconcile" /\ activation = NoState /\ candidate = NoBinding
    /\ ActivatorExit
    /\ UNCHANGED <<platform, disk, stager, budget>>

Prepare ==
    /\ activator = "reconcile" /\ activation = NoState /\ candidate # NoBinding
    /\ Completed(candidate) /\ current = KnownGood(candidate)
    /\ Persist(candidate, "Prepared")
    /\ UNCHANGED <<platform, records, stager, activator, budget>>

\* Mutant of TrialDefault: the target becomes the persistent entry.
TrialByDefault ==
    /\ activator = "reconcile" /\ activation.phase = "Prepared"
    /\ Completed(activation.candidate) /\ SameBoot /\ InKnownGood
    /\ default' = activation.candidate.target
    /\ ActivatorAt("trial")
    /\ UNCHANGED <<machine, oneshot, image, disk, stager, budget>>

\* Prepared, in the boot that prepared: arm_trial keeps the known-good entry
\* as default and selects the target for one boot.
TrialDefault ==
    /\ activator = "reconcile" /\ activation.phase = "Prepared"
    /\ Completed(activation.candidate) /\ SameBoot /\ InKnownGood
    /\ default' = KnownGood(activation.candidate)
    /\ ActivatorAt("trial")
    /\ UNCHANGED <<machine, oneshot, image, disk, stager, budget>>

TrialOneshot ==
    /\ activator = "trial"
    /\ oneshot' = activation.candidate.target
    /\ ActivatorAt("arm")
    /\ UNCHANGED <<machine, default, image, disk, stager, budget>>

TrialArmed ==
    /\ activator = "arm"
    /\ MoveTo("Armed")
    /\ ActivatorExit
    /\ UNCHANGED <<platform, records, stager, budget>>

\* Mutant of ObserveTrial: a second run in the arming boot counts as a return.
ObserveAnyBoot ==
    /\ activator = "reconcile" /\ activation.phase \in {"Prepared", "Armed"}
    /\ Completed(activation.candidate)
    /\ MoveTo(IF InTarget THEN "PromotePrepared" ELSE "FinalizeFallback")
    /\ UNCHANGED <<platform, records, stager, activator, budget>>

\* A later boot tells how the trial went.  Prepared is ambiguous, since the
\* selector may have been written: it is decided the same way.
ObserveTrial ==
    /\ activator = "reconcile" /\ activation.phase \in {"Prepared", "Armed"}
    /\ Completed(activation.candidate) /\ ~SameBoot
    /\ MoveTo(IF InTarget THEN "PromotePrepared" ELSE "FinalizeFallback")
    /\ UNCHANGED <<platform, records, stager, activator, budget>>

WaitForReboot ==
    /\ activator = "reconcile" /\ SameBoot
    /\ \/ activation.phase = "Armed" /\ Completed(activation.candidate)
       \/ activation.phase = "RollbackArmed" /\ InTarget
    /\ ActivatorExit
    /\ UNCHANGED <<platform, disk, stager, budget>>

\* Mutant of Promote: the success is recorded without bootctl set-default.
PromoteOnPaper ==
    /\ activator = "reconcile" /\ activation.phase = "PromotePrepared"
    /\ Completed(activation.candidate) /\ InTarget
    /\ ActivatorAt("promoted")
    /\ UNCHANGED <<platform, disk, stager, budget>>

Promote ==
    /\ activator = "reconcile" /\ activation.phase = "PromotePrepared"
    /\ Completed(activation.candidate) /\ InTarget
    /\ default' = activation.candidate.target
    /\ ActivatorAt("promoted")
    /\ UNCHANGED <<machine, oneshot, image, disk, stager, budget>>

Promoted ==
    /\ activator = "promoted"
    /\ MoveTo("FinalizeSucceeded")
    /\ ActivatorAt("reconcile")
    /\ UNCHANGED <<platform, records, stager, budget>>

-----------------------------------------------------------------------------
\* rollback: the binding of the recorded activation, or that of the last
\* receipt when it records a success.
RollbackBinding ==
    IF activation # NoState THEN activation.candidate
    ELSE IF lastReceipt.outcome = "Succeeded" THEN lastReceipt.candidate ELSE NoBinding

RollbackPrepare ==
    /\ activator = "rollback" /\ RollbackBinding # NoBinding
    /\ Persist(RollbackBinding, "RollbackPrepared")
    /\ ActivatorAt("reconcile")
    /\ UNCHANGED <<platform, records, stager, budget>>

NothingToRollback ==
    /\ activator = "rollback" /\ RollbackBinding = NoBinding
    /\ ActivatorFails
    /\ UNCHANGED <<platform, disk, stager, limits>>

\* arm_rollback selects the known-good entry for good and for the next boot.
RevertDefault ==
    /\ activator = "reconcile" /\ activation.phase = "RollbackPrepared"
    /\ default' = KnownGood(activation.candidate)
    /\ ActivatorAt("revert")
    /\ UNCHANGED <<machine, oneshot, image, disk, stager, budget>>

RevertOneshot ==
    /\ activator = "revert"
    /\ oneshot' = KnownGood(activation.candidate)
    /\ ActivatorAt("rearm")
    /\ UNCHANGED <<machine, default, image, disk, stager, budget>>

RollbackArmed ==
    /\ activator = "rearm"
    /\ MoveTo("RollbackArmed")
    /\ ActivatorAt(IF InKnownGood THEN "reconcile" ELSE "stopped")
    /\ UNCHANGED <<platform, records, stager, budget>>

ObserveRollback ==
    /\ activator = "reconcile" /\ activation.phase = "RollbackArmed" /\ InKnownGood
    /\ MoveTo("FinalizeRolledBack")
    /\ UNCHANGED <<platform, records, stager, activator, budget>>

-----------------------------------------------------------------------------
\* finalize: the terminal receipt, bound to the boot that writes it.
Outcome(phase) == CASE phase = "FinalizeSucceeded"  -> "Succeeded"
                    [] phase = "FinalizeFallback"   -> "FellBack"
                    [] phase = "FinalizeRolledBack" -> "RolledBack"
                    [] OTHER -> "None"
Receipt == [candidate |-> activation.candidate, outcome |-> Outcome(activation.phase),
            boot |-> boot]

\* One archive file per release and outcome; other bytes are a conflict.
ArchiveAccepts(receipt) ==
    \A old \in receipts :
        old.candidate.sequence = receipt.candidate.sequence /\ old.outcome = receipt.outcome
            => old = receipt

ArchiveReceipt ==
    /\ activator = "reconcile" /\ activation.phase \in FinalPhase
    /\ ArchiveAccepts(Receipt)
    /\ receipts' = receipts \cup {Receipt}
    /\ ActivatorAt("last")
    /\ UNCHANGED <<platform, checkpoint, staging, candidate, audit, audits, lastReceipt,
                   activation, stager, budget>>

KeepLastReceipt ==
    /\ activator = "last"
    /\ lastReceipt' = Receipt
    /\ ActivatorAt("audits")
    /\ UNCHANGED <<platform, checkpoint, staging, candidate, audit, audits, receipts,
                   activation, stager, budget>>

\* archive_staging_audit: one archive file per release, then the removal.
ArchiveAudit ==
    LET kept == [sequence |-> activation.candidate.sequence, audit |-> audit] IN
    /\ activator = "audits"
    /\ \/ /\ audit = NoAudit
          /\ UNCHANGED audits
          /\ ActivatorAt("clear") /\ UNCHANGED unit
       \/ /\ audit # NoAudit
          /\ \A old \in audits : old.sequence = kept.sequence => old = kept
          /\ audits' = audits \cup {kept}
          /\ ActivatorAt("unaudit") /\ UNCHANGED unit
       \/ /\ audit # NoAudit
          /\ \E old \in audits : old.sequence = kept.sequence /\ old # kept
          /\ UNCHANGED audits
          /\ ActivatorFails
    /\ UNCHANGED <<platform, checkpoint, staging, candidate, audit, receipts,
                   lastReceipt, activation, stager, limits>>

RemoveAudit ==
    /\ activator = "unaudit"
    /\ audit' = NoAudit
    /\ ActivatorAt("clear")
    /\ UNCHANGED <<platform, checkpoint, staging, candidate, archive, activation,
                   stager, budget>>

\* Mutant of ClearStaging: a rollback needs a staging receipt too.
ClearNeedsReceipt ==
    /\ activator = "clear"
    /\ \/ /\ Completed(activation.candidate)
          /\ pending' = NoBinding
          /\ ActivatorAt("release") /\ UNCHANGED unit
       \/ /\ ~Completed(activation.candidate)
          /\ UNCHANGED pending
          /\ ActivatorFails
    /\ UNCHANGED <<platform, checkpoint, staged, candidate, audit, archive, activation,
                   stager, limits>>

\* The staging receipt is released only when it is the candidate's; with none
\* left an earlier finalization must have kept this very receipt.
ClearStaging ==
    /\ activator = "clear"
    /\ \/ /\ Completed(activation.candidate)
          /\ pending' = NoBinding
          /\ ActivatorAt("release") /\ UNCHANGED unit
       \/ /\ Clean
          /\ activation.phase = "FinalizeRolledBack" \/ lastReceipt = Receipt
          /\ UNCHANGED pending
          /\ ActivatorAt("uncandidate") /\ UNCHANGED unit
       \/ /\ ~Completed(activation.candidate) /\ ~Clean
          /\ UNCHANGED pending
          /\ ActivatorFails
    /\ UNCHANGED <<platform, checkpoint, staged, candidate, audit, archive, activation,
                   stager, limits>>

ReleaseStaging ==
    /\ activator = "release"
    /\ staged' = NoBinding
    /\ ActivatorAt("uncandidate")
    /\ UNCHANGED <<platform, checkpoint, pending, candidate, audit, archive, activation,
                   stager, budget>>

RemoveCandidate ==
    /\ activator = "uncandidate"
    /\ candidate' = NoBinding
    /\ ActivatorAt("unstate")
    /\ UNCHANGED <<platform, checkpoint, staging, audit, archive, activation, stager,
                   budget>>

RemoveState ==
    /\ activator = "unstate"
    /\ activation' = NoState
    /\ ActivatorExit
    /\ UNCHANGED <<platform, records, stager, budget>>

-----------------------------------------------------------------------------
\* The closed failures of reconcile: the staged bytes are not the recorded
\* ones, the running slot is not one the phase expects, or the archive
\* already holds another receipt under the same name.
Refused ==
    \/ /\ activation = NoState /\ candidate # NoBinding
       /\ ~(Completed(candidate) /\ current = KnownGood(candidate))
    \/ /\ activation.phase \in {"Prepared", "Armed", "PromotePrepared"}
       /\ ~Completed(activation.candidate)
    \/ activation.phase = "Prepared" /\ SameBoot /\ ~InKnownGood
    \/ activation.phase = "PromotePrepared" /\ ~InTarget
    \/ activation.phase = "RollbackArmed" /\ ~InKnownGood /\ ~SameBoot
    \/ activation.phase \in FinalPhase /\ ~ArchiveAccepts(Receipt)

ReconcileRefused ==
    /\ activator = "reconcile" /\ Refused
    /\ ActivatorFails
    /\ UNCHANGED <<platform, disk, stager, limits>>

\* What a started activator does until it exits.
ActivatorSteps ==
    \/ ReconcileIdle \/ Prepare \/ TrialDefault \/ TrialOneshot \/ TrialArmed
    \/ ObserveTrial \/ WaitForReboot \/ Promote \/ Promoted
    \/ RollbackPrepare \/ NothingToRollback \/ RevertDefault \/ RevertOneshot
    \/ RollbackArmed \/ ObserveRollback
    \/ ArchiveReceipt \/ KeepLastReceipt \/ ArchiveAudit \/ RemoveAudit
    \/ ClearStaging \/ ReleaseStaging \/ RemoveCandidate \/ RemoveState
    \/ ReconcileRefused

ActivatorNext ==
    ActivatorStart \/ StartBusy \/ WindowPasses \/ RollbackStart \/ ActivatorSteps
=============================================================================

---------------------------- MODULE ResidentUpdate ----------------------------
(***************************************************************************)
(* A Resident device as a whole: the stager and the activator, which take  *)
(* turns under one lock, the firmware that picks the slot of the next      *)
(* boot, and the restarts, power losses and process failures between any   *)
(* two of their writes.                                                    *)
(***************************************************************************)
EXTENDS UpdateStager, BootActivator

-----------------------------------------------------------------------------
\* systemd-boot starts the one-shot entry if there is one and forgets it.  A
\* trial that does not come up ends in the default entry.
Boots(slot) == image[slot] \notin Broken \cup {Torn}
Selected == IF oneshot # NoSlot /\ Boots(oneshot) THEN oneshot
            ELSE IF Boots(default) THEN default ELSE NoSlot

Boot ==
    /\ current # NoSlot
    /\ current' = Selected
    /\ boot' = boot + 1
    /\ proven' = proven \cup ({Selected} \cap Slots)
    /\ oneshot' = NoSlot
    /\ StagerExit /\ ActivatorExit
    /\ unit' = FreshUnit
    /\ UNCHANGED <<default, image, disk, signed, rollbacks>>

\* The restart an armed trial or rollback waits for.
AwaitedRestart ==
    /\ activation.phase \in {"Armed", "RollbackArmed"} /\ SameBoot
    /\ activator = "stopped" /\ stager.pc \in {"stopped", "sleeping"}
    /\ Boot
    /\ UNCHANGED faults

\* Any other restart, at any point of either process.
PowerLoss ==
    /\ faults < MaxFaults
    /\ Boot
    /\ faults' = faults + 1

\* An input/output error, a failing or timed-out bootctl, or a kill ends a
\* process between two steps; the lock goes with it.
ProcessFails ==
    /\ faults < MaxFaults /\ ~LockFree
    /\ StagerExit
    /\ IF activator = "stopped" THEN UNCHANGED <<activator, unit>> ELSE ActivatorFails
    /\ faults' = faults + 1
    /\ UNCHANGED <<platform, disk, signed, rollbacks>>

Next == StagerNext \/ ActivatorNext \/ AwaitedRestart \/ PowerLoss \/ ProcessFails

Spec == Init /\ [][Next]_vars

\* systemd starts the activator at the boot (WantedBy), 15 s after a start that
\* failed (Restart), and while the candidate's file is there (the path unit), up
\* to StartLimitBurst times: then it gives up until the next boot.
Due ==
    /\ unit.starts < StartLimitBurst
    /\ unit.state = "due" \/ candidate # NoBinding

\* A running process takes its next step, a start that is due is made whether or
\* not the lock is free, and an armed device is restarted some day.
FairSpec ==
    /\ Spec
    /\ WF_vars(ActivatorSteps)
    /\ WF_vars(StagerNext /\ stager.pc # "stopped")
    /\ WF_vars(Due /\ (ActivatorStart \/ StartBusy))
    /\ SF_vars(AwaitedRestart)

-----------------------------------------------------------------------------
(***************************************************************************)
(* Safety.                                                                 *)
(***************************************************************************)

DeviceType ==
    /\ current \in Slots \cup {NoSlot} /\ boot \in Nat /\ proven \subseteq Slots
    /\ default \in Slots /\ oneshot \in Slots \cup {NoSlot}
    /\ image \in [Slots -> Images]

JournalType ==
    /\ checkpoint \in 0..MaxSequence
    /\ {pending, staged, candidate} \subseteq Binding \cup {NoBinding}
    /\ audit \in AuditReceipt \cup {NoAudit}
    /\ audits \subseteq [sequence : Releases, audit : AuditReceipt]
    /\ activation \in DurableActivationState \cup {NoState}
    /\ receipts \subseteq ActivationReceipt
    /\ lastReceipt \in ActivationReceipt \cup {NoReceipt}

ProcessType ==
    /\ stager \in [pc : StagerStep, offered : 0..MaxSequence]
    /\ activator \in ActivatorStep
    /\ signed \in 0..MaxSigned /\ rollbacks \in 0..MaxRollbacks /\ faults \in 0..MaxFaults

UnitType == unit \in [starts : 0..StartLimitBurst, state : UnitState]

\* Every variable holds a value of the type its file or process has.
StateType == DeviceType /\ JournalType /\ ProcessType
TypeOK == StateType /\ UnitType

\* ArtifactStager: as long as a staging receipt is kept, the slot it names
\* holds exactly the release it names, whatever was interrupted since.
StagedIntact == staged # NoBinding => image[staged.target] = staged.sequence

\* arm_trial, promote: as long as no local rollback was asked for, the
\* persistent entry names a slot that has come up with the release it holds
\* now, so that a failed trial, or a power loss during staging, has somewhere
\* to return to.
DefaultProven == rollbacks = 0 => default \in proven

\* reconcile: the firmware tries a slot once only while the activation
\* journal records that trial, and the slot holds the recorded release.
TrialRecorded ==
    oneshot \notin {NoSlot, default} =>
        /\ activation.phase \in {"Prepared", "Armed", "RollbackPrepared"}
        /\ oneshot = activation.candidate.target
        /\ image[oneshot] = activation.candidate.sequence

\* finalize: when an outcome is recorded, the persistent entry is the slot
\* that outcome names.
OutcomeTruthful ==
    activation.phase \in FinalPhase =>
        default = IF activation.phase = "FinalizeSucceeded"
                  THEN activation.candidate.target ELSE KnownGood(activation.candidate)

\* From the durable Prepared until the trial is decided nothing writes the
\* slot to fall back to.
FallbackKept ==
    [][activation.phase \in {"Prepared", "Armed", "PromotePrepared"} =>
          image'[KnownGood(activation.candidate)] = image[KnownGood(activation.candidate)]]_vars

\* admit_update: no slot is ever written with a release older than one that
\* has been activated, not even after a crash between any two writes.
NoDowngrade ==
    [][\A slot \in Slots : image'[slot] # image[slot] /\ image'[slot] \in Releases =>
          \A receipt \in receipts : receipt.candidate.sequence <= image'[slot]]_vars

-----------------------------------------------------------------------------
(***************************************************************************)
(* Liveness.                                                               *)
(***************************************************************************)

\* The states reconcile cannot leave: neither slot comes up after a rollback,
\* the target was to be promoted and the known-good slot came up instead, the
\* archive holds another receipt or audit under the same name, or a
\* finalization meets the staging of another release.
Halted ==
    \/ current = NoSlot
    \/ activation.phase = "PromotePrepared" /\ InKnownGood
    \/ activation.phase \in FinalPhase /\ ~ArchiveAccepts(Receipt)
    \/ activation.phase \in FinalPhase /\ audit # NoAudit
       /\ \E old \in audits : old.sequence = activation.candidate.sequence /\ old.audit # audit
    \/ activation.phase \in FinalPhase /\ ~Completed(activation.candidate) /\ ~Clean

\* The last start found the lock held or did not get to its end, and systemd makes
\* no other before the next boot.
Starved == activator = "stopped" /\ unit.state \in {"due", "abandoned"} /\ ~Due

\* reconcile, finalize: through faults, failed trials and rollbacks a recorded
\* activation ends, unless it has come to one of those states or systemd has
\* given up on the unit.  An activator that got the lock and ran to its end never
\* leaves an activation behind that only another start would take further.
ActivationEnds ==
    (activation # NoState) ~> (activation = NoState \/ Halted \/ Starved)

-----------------------------------------------------------------------------
(***************************************************************************)
(* What comments and documents say and the code does not do.               *)
(***************************************************************************)

\* activation.rs, finalize: "A prior finalization may already have released
\* this exact receipt; the durable terminal receipt makes the retry safe."
FinalizeRetries ==
    activation.phase \in FinalPhase /\ current # NoSlot => ArchiveAccepts(Receipt)

=============================================================================

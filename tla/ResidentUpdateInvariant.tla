----------------------- MODULE ResidentUpdateInvariant ------------------------
(***************************************************************************)
(* The inductive invariant behind the safety of ResidentUpdate: what the   *)
(* position of each process, the phase of the activation journal and the   *)
(* boot entries of the firmware tell about each other.                     *)
(***************************************************************************)
EXTENDS ResidentUpdate

Phase  == activation.phase
Target == activation.candidate.target

Staging   == {"stage", "stream", "streaming", "receipt", "unpend", "candidate", "audit"}
Trial     == {"Prepared", "Armed", "PromotePrepared"}
Reverting == {"RollbackPrepared", "RollbackArmed"}
Closing   == {"last", "audits", "unaudit", "clear", "release", "uncandidate", "unstate"}

\* One lock, and nothing runs on a machine that did not come up.
LockInv ==
    /\ stager.pc = "stopped" \/ activator = "stopped"
    /\ current = NoSlot => LockFree

\* How far the stager has come with the release it was offered.
StagerInv ==
    /\ stager.pc \in Staging =>
          stager.offered \in Releases /\ checkpoint = stager.offered /\ signed < MaxSigned
    /\ stager.pc \in {"stream", "streaming", "receipt"} => staged = NoBinding
    /\ stager.pc = "receipt" => image[Inactive(current)] = stager.offered
    /\ stager.pc \in {"unpend", "candidate", "audit"} => staged = Expected

\* What the activator has established before its next step.
ActivatorInv ==
    /\ activator \in {"trial", "arm"} => Phase = "Prepared" /\ SameBoot /\ InKnownGood
    /\ activator = "promoted" => Phase = "PromotePrepared" /\ InTarget /\ default = Target
    /\ activator \in {"revert", "rearm"} =>
          Phase = "RollbackPrepared" /\ default = KnownGood(activation.candidate)
    /\ activator = "rearm" => oneshot = KnownGood(activation.candidate)
    /\ activator \in Closing => Phase \in FinalPhase
    /\ activator \in Closing \ {"last"} => lastReceipt = Receipt
    /\ activator = "rollback" => rollbacks > 0

\* Until a trial is decided its staging receipt is kept, and the one-shot
\* entry does not outlive the boot that armed it.
TrialInv ==
    /\ Phase \in Trial => staged = activation.candidate
    /\ Phase \in {"Prepared", "Armed"} =>
          /\ default = KnownGood(activation.candidate)
          /\ IF SameBoot THEN InKnownGood ELSE oneshot = NoSlot
    /\ Phase = "PromotePrepared" => oneshot = NoSlot
    /\ activation.boot <= boot

\* A rollback that finds its target still armed finds it still staged.
RollbackInv ==
    /\ Phase \in Reverting \cup {"FinalizeRolledBack"} => rollbacks > 0
    /\ Phase = "RollbackPrepared" /\ oneshot = Target => staged = activation.candidate
    /\ Phase = "RollbackArmed" => default = KnownGood(activation.candidate)
    /\ Phase \in FinalPhase \cup {"RollbackArmed"} => oneshot # Target
    /\ activation = NoState /\ lastReceipt.outcome = "Succeeded" =>
          oneshot # lastReceipt.candidate.target

\* The running slot has come up, and is the default one except in a trial or
\* a rollback.
SlotInv ==
    /\ current \in Slots => current \in proven
    /\ current \in Slots \ {default} => Phase \in Trial \cup Reverting

\* The anti-rollback checkpoint is ahead of everything that was admitted.
SequenceInv ==
    /\ candidate.sequence <= checkpoint
    /\ activation.candidate.sequence <= checkpoint
    /\ lastReceipt.candidate.sequence <= checkpoint
    /\ \A receipt \in receipts : receipt.candidate.sequence <= checkpoint

\* BootActivationEngine and ArtifactStager: the journals, the firmware and the
\* slots agree between any two steps of either executable.
UpdateInv ==
    /\ StateType /\ LockInv /\ StagerInv /\ ActivatorInv /\ TrialInv /\ RollbackInv
    /\ SlotInv /\ SequenceInv
    /\ StagedIntact /\ DefaultProven /\ TrialRecorded /\ OutcomeTruthful
=============================================================================

------------------------ MODULE ResidentUpdate_proofs -------------------------
(***************************************************************************)
(* Proofs that UpdateInv is an invariant of ResidentUpdate for any number  *)
(* of releases, broken or not, any number of updates, rollbacks and faults *)
(* and either kind of stager, and of what follows from it.                 *)
(***************************************************************************)
EXTENDS ResidentUpdateInvariant, TLAPS

USE DEF Phase, Target, KnownGood, Inactive, Slots, NoSlot, SameBoot, InTarget, InKnownGood,
        Trial, Reverting, FinalPhase, Staging, Closing, StagerAt, StagerExit, ActivatorAt,
        ActivatorExit, MoveTo, Persist, LockFree

\* What a process step leaves alone, spelled out.
LEMMA Frames ==
    /\ UNCHANGED platform <=> UNCHANGED <<current, boot, proven, default, oneshot, image>>
    /\ UNCHANGED disk <=> UNCHANGED <<checkpoint, pending, staged, candidate, audit, audits,
                                      receipts, lastReceipt, activation>>
BY DEF platform, machine, firmware, disk, records, staging, archive

\* The provisioned device.
LEMMA InitialInv == Init => UpdateInv
<1> SUFFICES ASSUME Init PROVE UpdateInv
    OBVIOUS
<1> USE DeviceAssumption DEF Init
<1>1. StateType
  BY DEF StateType, DeviceType, JournalType, ProcessType, Images, Factory, Torn, NoBinding, NoAudit, NoState,
         NoReceipt, StagerStep, ActivatorStep
<1>2. LockInv /\ StagerInv /\ ActivatorInv
  BY DEF LockInv, StagerInv, ActivatorInv, Staging, Closing, NoSlot
<1>3. TrialInv /\ RollbackInv
  BY DEF TrialInv, RollbackInv, Phase, Trial, Reverting, FinalPhase, NoState, NoReceipt
<1>4. SlotInv /\ SequenceInv
  BY DEF SlotInv, SequenceInv, Slots, NoBinding, NoState, NoReceipt
<1>5. StagedIntact /\ DefaultProven /\ TrialRecorded /\ OutcomeTruthful
  BY DEF StagedIntact, DefaultProven, TrialRecorded, OutcomeTruthful, NoState, FinalPhase,
         Slots
<1> QED
  BY <1>1, <1>2, <1>3, <1>4, <1>5 DEF UpdateInv

\* A step that leaves the slots, the firmware, the staging receipt and the
\* activation alone.
LEMMA BootFrame ==
    ASSUME UpdateInv, UNCHANGED platform, UNCHANGED <<staged, activation, lastReceipt>>,
           rollbacks' \in Nat, rollbacks <= rollbacks'
    PROVE  /\ DeviceType' /\ TrialInv' /\ RollbackInv' /\ SlotInv'
           /\ StagedIntact' /\ DefaultProven' /\ TrialRecorded' /\ OutcomeTruthful'
<1> USE Frames DEF UpdateInv
<1>1. rollbacks \in Nat
  BY DeviceAssumption DEF StateType, ProcessType
<1>2. TrialInv' /\ SlotInv'
  BY DEF TrialInv, SlotInv
<1>3. RollbackInv'
  BY <1>1 DEF RollbackInv
<1>4. StagedIntact' /\ DefaultProven'
  BY <1>1 DEF StagedIntact, DefaultProven
<1>5. TrialRecorded' /\ OutcomeTruthful'
  BY DEF TrialRecorded, OutcomeTruthful
<1>6. DeviceType'
  BY DEF StateType, DeviceType
<1> QED
  BY <1>2, <1>3, <1>4, <1>5, <1>6

\* A step that moves the processes only.
LEMMA ProcessStep ==
    ASSUME UpdateInv, UNCHANGED platform, UNCHANGED disk, rollbacks <= rollbacks',
           ProcessType', LockInv', StagerInv', ActivatorInv'
    PROVE  UpdateInv'
<1>1. rollbacks' \in Nat
  BY DeviceAssumption DEF ProcessType
<1>2. JournalType' /\ SequenceInv'
  BY Frames DEF UpdateInv, StateType, JournalType, SequenceInv
<1> QED
  BY <1>1, <1>2, BootFrame, Frames DEF UpdateInv, StateType

-----------------------------------------------------------------------------
\* The stager moves to another place.
LEMMA StagerRecord ==
    ASSUME ProcessType, NEW at \in StagerStep, StagerAt(at)
    PROVE  /\ stager' \in [pc : StagerStep, offered : 0..MaxSequence]
           /\ stager'.pc = at /\ stager'.offered = stager.offered
<1>1. stager \in [pc : StagerStep, offered : 0..MaxSequence]
  BY DEF ProcessType
<1> QED
  BY <1>1

\* The stager starts, rests, gives up or finds its release staged.
LEMMA StagerMoves ==
    ASSUME UpdateInv,
           \/ StagerStart \/ StagerWakes \/ AlreadyStaged \/ PullEnds \/ DownloadFails
           \/ StageReplay \/ StageConflict \/ StreamRejected
    PROVE  UpdateInv'
<1>1. /\ UNCHANGED platform /\ UNCHANGED disk
      /\ UNCHANGED <<activator, signed, rollbacks, faults>>
      /\ (LockFree /\ current # NoSlot) \/ stager.pc # "stopped"
      /\ \/ StagerAt("cycle") \/ StagerAt("sleeping") \/ StagerAt("stopped")
         \/ StagerAt("candidate") /\ staged = Expected /\ stager.pc = "stage"
  BY DEF StagerStart, StagerWakes, AlreadyStaged, PullEnds, DownloadFails,
         StageReplay, StageConflict, StreamRejected, StagerRests, budget, limits
<1>2. PICK at \in StagerStep :
          StagerAt(at) /\ (at \in Staging => at = "candidate" /\ staged = Expected
                                             /\ stager.pc \in Staging)
  BY <1>1 DEF StagerStep
<1>3. ProcessType /\ LockInv /\ StagerInv /\ ActivatorInv
  BY DEF UpdateInv, StateType
<1>4. /\ stager' \in [pc : StagerStep, offered : 0..MaxSequence]
      /\ stager'.pc = at /\ stager'.offered = stager.offered
  BY <1>2, <1>3, StagerRecord
<1>5. ProcessType' /\ rollbacks <= rollbacks'
  BY <1>1, <1>3, <1>4, DeviceAssumption DEF ProcessType
<1>6. LockInv'
  BY <1>1, <1>3, Frames DEF LockInv
<1>7. ActivatorInv'
  BY <1>1, <1>3, Frames DEF ActivatorInv, Receipt, Outcome
<1>8. StagerInv'
  BY <1>1, <1>2, <1>3, <1>4, Frames DEF StagerInv, Expected
<1> QED
  BY <1>1, <1>5, <1>6, <1>7, <1>8, ProcessStep

\* What a step of the stager may rely on.
LEMMA StagerContext ==
    ASSUME UpdateInv, stager.pc \in Staging
    PROVE  /\ activator = "stopped" /\ current \in Slots
           /\ Expected \in Binding /\ Expected # NoBinding
           /\ Expected.sequence = checkpoint /\ Expected.target = Inactive(current)
<1>1. LockInv /\ StagerInv /\ DeviceType
  BY DEF UpdateInv, StateType
<1>2. activator = "stopped" /\ current \in Slots
  BY <1>1 DEF LockInv, DeviceType
<1> QED
  BY <1>1, <1>2, DeviceAssumption DEF StagerInv, Expected, Binding, NoBinding, Releases

\* A step of the stager that writes neither a slot nor the staging receipt.
LEMMA StagerWrites ==
    ASSUME UpdateInv, activator = "stopped", current \in Slots,
           UNCHANGED platform, UNCHANGED <<staged, activation, lastReceipt, receipts, audits>>,
           UNCHANGED <<activator, rollbacks, faults>>,
           checkpoint' \in 0..MaxSequence, checkpoint <= checkpoint',
           {pending', candidate'} \subseteq Binding \cup {NoBinding},
           candidate'.sequence <= checkpoint',
           audit' \in AuditReceipt \cup {NoAudit},
           signed' \in 0..MaxSigned,
           stager' \in [pc : StagerStep, offered : 0..MaxSequence],
           StagerInv'
    PROVE  UpdateInv'
<1> USE DEF UpdateInv, StateType
<1>1. rollbacks \in Nat
  BY DeviceAssumption DEF ProcessType
<1>2. JournalType'
  BY DEF JournalType
<1>3. ProcessType'
  BY DEF ProcessType
<1>4. LockInv' /\ ActivatorInv'
  BY Frames DEF LockInv, ActivatorInv
<1>5. SequenceInv'
  <2>1. /\ checkpoint \in Nat /\ checkpoint' \in Nat
        /\ activation.candidate.sequence \in Nat /\ lastReceipt.candidate.sequence \in Nat
        /\ \A receipt \in receipts : receipt.candidate.sequence \in Nat
    BY DEF JournalType, DurableActivationState, NoState, ActivationReceipt, NoReceipt,
           Binding, NoBinding, Releases
  <2> QED
    BY <2>1 DEF SequenceInv
<1> QED
  BY <1>1, <1>2, <1>3, <1>4, <1>5, BootFrame

\* admit_update: the checkpoint only grows.
LEMMA AdmitStep ==
    ASSUME UpdateInv, NEW sequence \in Releases, Admit(sequence)
    PROVE  UpdateInv'
<1>1. /\ UNCHANGED platform
      /\ UNCHANGED <<pending, staged, candidate, audit, audits, receipts, lastReceipt,
                     activation, activator, signed, rollbacks, faults>>
      /\ checkpoint' = sequence /\ checkpoint <= sequence
      /\ stager' = [pc |-> "stage", offered |-> sequence]
      /\ stager.pc = "cycle" /\ signed < MaxSigned
  BY DEF Admit, staging, archive, budget, limits, UpdateInv, StateType, JournalType, Releases
<1>2. JournalType /\ ProcessType /\ DeviceType /\ LockInv /\ StagerInv /\ SequenceInv
  BY DEF UpdateInv, StateType
<1>3. activator = "stopped" /\ current \in Slots
  BY <1>1, <1>2 DEF LockInv, DeviceType
<1>4. sequence \in 0..MaxSequence
  BY DeviceAssumption DEF Releases
<1>5. stager' \in [pc : StagerStep, offered : 0..MaxSequence]
  BY <1>1, <1>4 DEF StagerStep
<1>6. candidate'.sequence <= checkpoint'
  BY <1>1, <1>2, <1>4 DEF SequenceInv, JournalType, Binding, NoBinding, Releases
<1>7. StagerInv'
  BY <1>1, <1>4 DEF StagerInv
<1> QED
  BY <1>1, <1>2, <1>3, <1>4, <1>5, <1>6, <1>7, StagerWrites DEF JournalType, ProcessType

\* The intent of a staging.
LEMMA IntentStep ==
    ASSUME UpdateInv, StageIntent
    PROVE  UpdateInv'
<1>1. /\ UNCHANGED platform
      /\ UNCHANGED <<checkpoint, staged, candidate, audit, audits, receipts, lastReceipt,
                     activation, activator, signed, rollbacks, faults>>
      /\ pending' = Expected /\ StagerAt("stream")
      /\ stager.pc \in Staging /\ staged = NoBinding
  BY DEF StageIntent, archive, budget, limits
<1>2. JournalType /\ ProcessType /\ StagerInv /\ SequenceInv
  BY DEF UpdateInv, StateType
<1>3. activator = "stopped" /\ current \in Slots /\ Expected \in Binding
  BY <1>1, StagerContext
<1>4. /\ stager' \in [pc : StagerStep, offered : 0..MaxSequence]
      /\ stager'.pc = "stream" /\ stager'.offered = stager.offered
  BY <1>1, <1>2, StagerRecord DEF StagerStep
<1>5. StagerInv'
  BY <1>1, <1>2, <1>4 DEF StagerInv
<1> QED
  BY <1>1, <1>2, <1>3, <1>4, <1>5, StagerWrites DEF JournalType, ProcessType, SequenceInv

\* The intent is removed once the receipt is kept.
LEMMA UnpendStep ==
    ASSUME UpdateInv, StageUnpend
    PROVE  UpdateInv'
<1>1. /\ UNCHANGED platform
      /\ UNCHANGED <<checkpoint, staged, candidate, audit, audits, receipts, lastReceipt,
                     activation, activator, signed, rollbacks, faults>>
      /\ pending' = NoBinding /\ StagerAt("candidate")
      /\ stager.pc = "unpend"
  BY DEF StageUnpend, archive, budget, limits
<1>2. JournalType /\ ProcessType /\ StagerInv /\ SequenceInv
  BY DEF UpdateInv, StateType
<1>3. activator = "stopped" /\ current \in Slots
  BY <1>1, StagerContext
<1>4. /\ stager' \in [pc : StagerStep, offered : 0..MaxSequence]
      /\ stager'.pc = "candidate" /\ stager'.offered = stager.offered
  BY <1>1, <1>2, StagerRecord DEF StagerStep
<1>5. StagerInv'
  BY <1>1, <1>2, <1>4, Frames DEF StagerInv, Expected
<1> QED
  BY <1>1, <1>2, <1>3, <1>4, <1>5, StagerWrites DEF JournalType, ProcessType, SequenceInv

\* The candidate of a staged release.
LEMMA CandidateStep ==
    ASSUME UpdateInv, PersistCandidate
    PROVE  UpdateInv'
<1>1. /\ UNCHANGED platform
      /\ UNCHANGED <<checkpoint, pending, staged, audit, audits, receipts, lastReceipt,
                     activation, activator, signed, rollbacks, faults>>
      /\ candidate' = candidate \/ candidate' = Expected
      /\ StagerAt("audit") \/ StagerAt("stopped")
      /\ stager.pc = "candidate"
  BY DEF PersistCandidate, staging, archive, budget, limits
<1>2. JournalType /\ ProcessType /\ StagerInv /\ SequenceInv
  BY DEF UpdateInv, StateType
<1>3. /\ activator = "stopped" /\ current \in Slots
      /\ Expected \in Binding /\ Expected.sequence = checkpoint
  BY <1>1, StagerContext
<1>4. /\ stager' \in [pc : StagerStep, offered : 0..MaxSequence]
      /\ stager'.pc \in {"audit", "stopped"} /\ stager'.offered = stager.offered
  BY <1>1, <1>2, StagerRecord DEF StagerStep
<1>5. StagerInv'
  BY <1>1, <1>2, <1>4, Frames DEF StagerInv, Expected
<1>6. candidate'.sequence <= checkpoint'
  BY <1>1, <1>2, <1>3 DEF SequenceInv, JournalType
<1> QED
  BY <1>1, <1>2, <1>3, <1>4, <1>5, <1>6, StagerWrites DEF JournalType, ProcessType

\* The audit receipt of a staged release.
LEMMA AuditStep ==
    ASSUME UpdateInv, SignAudit
    PROVE  UpdateInv'
<1>1. /\ UNCHANGED platform
      /\ UNCHANGED <<checkpoint, pending, staged, candidate, audits, receipts, lastReceipt,
                     activation, activator, rollbacks, faults>>
      /\ audit' = [staged |-> staged, stagedAt |-> signed + 1] /\ signed' = signed + 1
      /\ StagerAt("stopped")
      /\ stager.pc = "audit"
  BY DEF SignAudit, staging, archive, budget, limits
<1>2. JournalType /\ ProcessType /\ StagerInv /\ SequenceInv
  BY DEF UpdateInv, StateType
<1>3. /\ activator = "stopped" /\ current \in Slots /\ Expected \in Binding
  BY <1>1, StagerContext
<1>4. /\ stager' \in [pc : StagerStep, offered : 0..MaxSequence]
      /\ stager'.pc = "stopped"
  BY <1>1, <1>2, StagerRecord DEF StagerStep
<1>5. StagerInv'
  BY <1>4 DEF StagerInv
<1>6. signed' \in 1..MaxSigned /\ staged = Expected
  BY <1>1, <1>2, DeviceAssumption DEF StagerInv, ProcessType
<1>7. audit' \in AuditReceipt
  BY <1>1, <1>3, <1>6 DEF AuditReceipt
<1> QED
  BY <1>1, <1>2, <1>3, <1>4, <1>5, <1>6, <1>7, StagerWrites
     DEF JournalType, ProcessType, SequenceInv

\* Without a staging receipt no trial is recorded and none is selected.
LEMMA NothingStaged ==
    ASSUME UpdateInv, staged = NoBinding
    PROVE  Phase \notin Trial /\ oneshot \in {NoSlot, default}
<1>1. JournalType /\ TrialInv /\ RollbackInv /\ TrialRecorded
  BY DEF UpdateInv, StateType
<1>2. Phase # "None" => activation.candidate # NoBinding
  BY <1>1 DEF JournalType, DurableActivationState, NoState, Binding, NoBinding
<1>3. Phase \notin Trial
  BY <1>1, <1>2 DEF TrialInv
<1>4. ~(Phase = "RollbackPrepared" /\ oneshot = Target)
  BY <1>1, <1>2 DEF RollbackInv
<1> QED
  BY <1>1, <1>3, <1>4 DEF TrialRecorded

\* stage_exact_stream: the slot that is written is neither the default one
\* nor one that is about to be tried.
LEMMA StreamStep ==
    ASSUME UpdateInv, StreamBegins \/ StreamEnds
    PROVE  UpdateInv'
<1>1. /\ UNCHANGED <<current, boot, default, oneshot>>
      /\ UNCHANGED <<checkpoint, pending, staged, candidate, audit, audits, receipts,
                     lastReceipt, activation, activator, signed, rollbacks, faults>>
      /\ proven' \subseteq proven
      /\ \A slot \in proven : slot # Inactive(current) => slot \in proven'
      /\ stager.pc \in {"stream", "streaming"}
      /\ \/ /\ StagerAt("streaming")
            /\ image' = [image EXCEPT ![Inactive(current)] = Torn]
         \/ /\ StagerAt("receipt")
            /\ image' = [image EXCEPT ![Inactive(current)] = stager.offered]
  BY Frames DEF StreamBegins, StreamEnds, machine, firmware, records, staging, archive, disk,
                budget, limits
<1>2. /\ DeviceType /\ JournalType /\ ProcessType /\ StagerInv /\ ActivatorInv /\ TrialInv
      /\ RollbackInv /\ SlotInv /\ SequenceInv /\ DefaultProven /\ OutcomeTruthful
  BY DEF UpdateInv, StateType
<1>3. activator = "stopped" /\ current \in Slots
  BY <1>1, StagerContext
<1>4. staged = NoBinding
  BY <1>1, <1>2 DEF StagerInv
<1>5. Phase \notin Trial /\ oneshot \in {NoSlot, default}
  BY <1>4, NothingStaged
<1>6. /\ stager' \in [pc : StagerStep, offered : 0..MaxSequence]
      /\ stager'.pc \in {"streaming", "receipt"} /\ stager'.offered = stager.offered
      /\ stager'.pc = "receipt" =>
            image' = [image EXCEPT ![Inactive(current)] = stager.offered]
  BY <1>1, <1>2, StagerRecord DEF StagerStep
<1>7. image' \in [Slots -> Images]
  <2>1. {Torn, stager.offered} \subseteq Images
    BY <1>2, DeviceAssumption DEF ProcessType, Images, Torn
  <2>2. image \in [Slots -> Images]
    BY <1>2 DEF DeviceType
  <2> QED
    BY <1>1, <2>1, <2>2
<1>8. DeviceType' /\ JournalType' /\ ProcessType'
  BY <1>1, <1>2, <1>6, <1>7 DEF DeviceType, JournalType, ProcessType
<1>9. StagerInv'
  <2>1. stager'.pc = "receipt" => image'[Inactive(current)] = stager.offered
    BY <1>2, <1>3, <1>6 DEF DeviceType
  <2> QED
    BY <1>1, <1>2, <1>4, <1>6, <2>1 DEF StagerInv
<1>10. LockInv' /\ ActivatorInv'
  BY <1>1, <1>2, <1>3 DEF LockInv, ActivatorInv
<1>11. TrialInv' /\ RollbackInv' /\ OutcomeTruthful'
  BY <1>1, <1>2, <1>5 DEF TrialInv, RollbackInv, OutcomeTruthful
<1>12. SequenceInv' /\ StagedIntact' /\ TrialRecorded'
  BY <1>1, <1>2, <1>4, <1>5 DEF SequenceInv, StagedIntact, TrialRecorded
<1>13. SlotInv' /\ DefaultProven'
  <2>1. rollbacks = 0 => current = default
    BY <1>2, <1>3, <1>5, DeviceAssumption DEF SlotInv, RollbackInv, ProcessType
  <2> QED
    BY <1>1, <1>2, <1>3, <2>1 DEF SlotInv, DefaultProven
<1> QED
  BY <1>8, <1>9, <1>10, <1>11, <1>12, <1>13 DEF UpdateInv, StateType

\* The receipt is kept for a slot that holds the release.
LEMMA ReceiptStep ==
    ASSUME UpdateInv, StageReceipt
    PROVE  UpdateInv'
<1>1. /\ UNCHANGED <<current, boot, proven, default, oneshot, image>>
      /\ UNCHANGED <<checkpoint, pending, candidate, audit, audits, receipts, lastReceipt,
                     activation, activator, signed, rollbacks, faults>>
      /\ staged' = Expected /\ StagerAt("unpend")
      /\ stager.pc = "receipt"
  BY Frames DEF StageReceipt, archive, budget, limits
<1>2. /\ DeviceType /\ JournalType /\ ProcessType /\ StagerInv /\ ActivatorInv /\ TrialInv
      /\ RollbackInv /\ SlotInv /\ SequenceInv /\ DefaultProven /\ OutcomeTruthful
      /\ TrialRecorded
  BY DEF UpdateInv, StateType
<1>3. /\ activator = "stopped" /\ current \in Slots /\ Expected \in Binding
      /\ Expected.target = Inactive(current)
  BY <1>1, StagerContext
<1>4. staged = NoBinding /\ image[Inactive(current)] = stager.offered
  BY <1>1, <1>2 DEF StagerInv
<1>5. Phase \notin Trial /\ oneshot \in {NoSlot, default}
  BY <1>4, NothingStaged
<1>6. /\ stager' \in [pc : StagerStep, offered : 0..MaxSequence]
      /\ stager'.pc = "unpend" /\ stager'.offered = stager.offered
  BY <1>1, <1>2, StagerRecord DEF StagerStep
<1>7. StateType'
  BY <1>1, <1>2, <1>3, <1>6 DEF StateType, DeviceType, JournalType, ProcessType
<1>8. StagerInv' /\ StagedIntact'
  BY <1>1, <1>2, <1>3, <1>4, <1>6 DEF StagerInv, StagedIntact, Expected
<1>9. LockInv' /\ ActivatorInv'
  BY <1>1, <1>2, <1>3 DEF LockInv, ActivatorInv
<1>10. RollbackInv'
  <2>1. ~(Phase = "RollbackPrepared" /\ oneshot = Target)
    <3>1. Phase # "None" => activation.candidate # NoBinding
      BY <1>2 DEF JournalType, DurableActivationState, NoState, Binding, NoBinding
    <3> QED
      BY <1>2, <1>4, <3>1 DEF RollbackInv
  <2> QED
    BY <1>1, <1>2, <2>1 DEF RollbackInv
<1>11. TrialInv' /\ OutcomeTruthful' /\ TrialRecorded'
  BY <1>1, <1>2, <1>5 DEF TrialInv, OutcomeTruthful, TrialRecorded
<1>12. SequenceInv' /\ SlotInv' /\ DefaultProven'
  BY <1>1, <1>2 DEF SequenceInv, SlotInv, DefaultProven
<1> QED
  BY <1>7, <1>8, <1>9, <1>10, <1>11, <1>12 DEF UpdateInv

\* Every step of the stager.
LEMMA StagerSteps ==
    ASSUME UpdateInv, StagerNext
    PROVE  UpdateInv'
BY StagerMoves, AdmitStep, IntentStep, StreamStep, ReceiptStep, UnpendStep, CandidateStep,
   AuditStep DEF StagerNext

-----------------------------------------------------------------------------
\* What a step of the activator may rely on.
LEMMA ActivatorContext ==
    ASSUME UpdateInv, activator # "stopped"
    PROVE  stager.pc = "stopped" /\ current \in Slots
BY DEF UpdateInv, StateType, DeviceType, LockInv

\* A recorded activation names a release and a slot.
LEMMA RecordedActivation ==
    ASSUME UpdateInv, Phase # "None"
    PROVE  /\ activation \in DurableActivationState /\ activation # NoState
           /\ activation.candidate \in Binding /\ activation.candidate # NoBinding
           /\ Target \in Slots /\ activation.boot \in Nat
<1>1. activation \in DurableActivationState
  BY DEF UpdateInv, StateType, JournalType, NoState
<1> QED
  BY <1>1 DEF DurableActivationState, Binding, NoBinding, NoState

\* A start that finds the lock held, and the window of systemd.
LEMMA UnitMoves ==
    ASSUME UpdateInv, StartBusy \/ WindowPasses \/ (RollbackStart /\ ~LockFree)
    PROVE  UpdateInv'
<1>1. /\ UNCHANGED platform /\ UNCHANGED disk /\ UNCHANGED <<stager, activator, signed, faults>>
      /\ rollbacks' = rollbacks \/ (rollbacks' = rollbacks + 1 /\ rollbacks < MaxRollbacks)
  BY DEF StartBusy, WindowPasses, RollbackStart, limits
<1>2. ProcessType /\ LockInv /\ StagerInv /\ ActivatorInv
  BY DEF UpdateInv, StateType
<1>3. ProcessType' /\ rollbacks <= rollbacks' /\ rollbacks \in Nat
  BY <1>1, <1>2, DeviceAssumption DEF ProcessType
<1>4. LockInv' /\ StagerInv'
  BY <1>1, <1>2, Frames DEF LockInv, StagerInv, Expected
<1>5. ActivatorInv'
  BY <1>1, <1>2, <1>3, Frames DEF ActivatorInv, Receipt, Outcome
<1> QED
  BY <1>1, <1>3, <1>4, <1>5, ProcessStep

\* The activator starts or exits, and a process of either kind fails.
LEMMA ActivatorMoves ==
    ASSUME UpdateInv,
           \/ ActivatorStart \/ (RollbackStart /\ LockFree) \/ ReconcileIdle \/ WaitForReboot
           \/ NothingToRollback \/ ReconcileRefused \/ ProcessFails
    PROVE  UpdateInv'
<1>1. /\ UNCHANGED platform /\ UNCHANGED disk /\ signed' = signed
      /\ faults' = faults \/ (faults' = faults + 1 /\ faults < MaxFaults)
      /\ rollbacks' = rollbacks \/ (rollbacks' = rollbacks + 1 /\ rollbacks < MaxRollbacks)
      /\ \/ StagerAt("stopped") /\ activator' = "stopped"
         \/ /\ stager' = stager /\ stager.pc = "stopped"
            /\ activator' \in {"stopped", "reconcile", "rollback"}
            /\ activator' # "stopped" => current # NoSlot
            /\ activator' = "rollback" => rollbacks' = rollbacks + 1
  <2>1. CASE ProcessFails
    BY <2>1 DEF ProcessFails, ActivatorFails
  <2>2. CASE ActivatorStart \/ (RollbackStart /\ LockFree)
    BY <2>2 DEF ActivatorStart, RollbackStart, Startable, limits
  <2>3. CASE ReconcileIdle \/ WaitForReboot \/ NothingToRollback \/ ReconcileRefused
    BY <2>3, ActivatorContext DEF ReconcileIdle, WaitForReboot, NothingToRollback,
       ReconcileRefused, ActivatorFails, budget, limits
  <2> QED
    BY <2>1, <2>2, <2>3
<1>2. ProcessType /\ LockInv /\ StagerInv /\ ActivatorInv
  BY DEF UpdateInv, StateType
<1>3. stager' \in [pc : StagerStep, offered : 0..MaxSequence] /\ stager'.pc = "stopped"
  <2>1. "stopped" \in StagerStep /\ stager \in [pc : StagerStep, offered : 0..MaxSequence]
    BY <1>2 DEF StagerStep, ProcessType
  <2>2. CASE StagerAt("stopped")
    BY <1>2, <2>1, <2>2, StagerRecord
  <2>3. CASE stager' = stager /\ stager.pc = "stopped"
    BY <2>1, <2>3
  <2> QED
    BY <1>1, <2>2, <2>3
<1>4. ProcessType' /\ rollbacks <= rollbacks'
  <2>1. /\ activator' \in ActivatorStep
        /\ {signed', faults', rollbacks'} \subseteq Nat
        /\ signed' <= MaxSigned /\ faults' <= MaxFaults /\ rollbacks' <= MaxRollbacks
        /\ rollbacks <= rollbacks'
    BY <1>1, <1>2, DeviceAssumption DEF ProcessType, ActivatorStep
  <2> QED
    BY <1>3, <2>1, DeviceAssumption DEF ProcessType
<1>5. LockInv' /\ StagerInv'
  BY <1>1, <1>3, Frames DEF LockInv, StagerInv
<1>6. ActivatorInv'
  <2>1. rollbacks \in Nat
    BY <1>2, DeviceAssumption DEF ProcessType
  <2> QED
    BY <1>1, <1>2, <2>1 DEF ActivatorInv
<1> QED
  BY <1>1, <1>4, <1>5, <1>6, ProcessStep

\* A step of the activator that writes neither the boot selection, nor the
\* staging receipt, nor the activation and its last receipt.
LEMMA ActivatorWrites ==
    ASSUME UpdateInv, stager.pc = "stopped", current \in Slots,
           UNCHANGED platform, UNCHANGED <<staged, activation, lastReceipt, checkpoint>>,
           UNCHANGED <<stager, signed, rollbacks, faults>>,
           {pending', candidate'} \subseteq Binding \cup {NoBinding},
           candidate'.sequence <= checkpoint,
           audit' \in AuditReceipt \cup {NoAudit},
           audits' \subseteq [sequence : Releases, audit : AuditReceipt],
           receipts' \subseteq ActivationReceipt,
           \A receipt \in receipts' : receipt.candidate.sequence <= checkpoint,
           activator' \in ActivatorStep, ActivatorInv'
    PROVE  UpdateInv'
<1> USE DEF UpdateInv, StateType
<1>1. rollbacks \in Nat
  BY DeviceAssumption DEF ProcessType
<1>2. JournalType'
  BY DEF JournalType
<1>3. ProcessType'
  BY DEF ProcessType
<1>4. LockInv' /\ StagerInv'
  BY Frames DEF LockInv, StagerInv
<1>5. SequenceInv'
  BY DEF SequenceInv
<1> QED
  BY <1>1, <1>2, <1>3, <1>4, <1>5, BootFrame

\* The terminal receipt of a recorded outcome.
LEMMA TerminalReceipt ==
    ASSUME UpdateInv, Phase \in FinalPhase
    PROVE  /\ Receipt \in ActivationReceipt /\ Receipt.candidate = activation.candidate
           /\ Receipt.candidate.sequence <= checkpoint
<1>1. activation.candidate \in Binding
  BY RecordedActivation
<1>2. Outcome(activation.phase) \in ActivationOutcome
  BY DEF Outcome, ActivationOutcome
<1>3. boot \in Nat /\ activation.candidate.sequence <= checkpoint
  BY DEF UpdateInv, StateType, DeviceType, SequenceInv
<1> QED
  BY <1>1, <1>2, <1>3 DEF Receipt, ActivationReceipt

\* finalize, up to what it removes.
LEMMA ArchiveReceiptStep ==
    ASSUME UpdateInv, ArchiveReceipt
    PROVE  UpdateInv'
<1>1. /\ UNCHANGED platform
      /\ UNCHANGED <<checkpoint, pending, staged, candidate, audit, audits, lastReceipt,
                     activation, stager, signed, rollbacks, faults>>
      /\ activator = "reconcile" /\ activator' = "last" /\ Phase \in FinalPhase
      /\ receipts' = receipts \cup {Receipt}
  BY DEF ArchiveReceipt, staging, budget, limits
<1>2. JournalType /\ SequenceInv /\ ActivatorInv
  BY DEF UpdateInv, StateType
<1>3. stager.pc = "stopped" /\ current \in Slots
  BY <1>1, ActivatorContext
<1>4. Receipt \in ActivationReceipt /\ Receipt.candidate.sequence <= checkpoint
  BY <1>1, TerminalReceipt
<1>5. ActivatorInv'
  BY <1>1 DEF ActivatorInv
<1>6. /\ receipts' \subseteq ActivationReceipt
      /\ \A receipt \in receipts' : receipt.candidate.sequence <= checkpoint
  BY <1>1, <1>2, <1>4 DEF JournalType, SequenceInv
<1> QED
  BY <1>1, <1>2, <1>3, <1>5, <1>6, ActivatorWrites DEF JournalType, SequenceInv, ActivatorStep

\* finalize archives and removes the audit receipt, the intent and the candidate.
LEMMA ClosingWrites ==
    ASSUME UpdateInv, ArchiveAudit \/ RemoveAudit \/ ClearStaging \/ RemoveCandidate
    PROVE  UpdateInv'
<1>1. /\ UNCHANGED platform
      /\ UNCHANGED <<checkpoint, staged, receipts, lastReceipt, activation, stager, signed,
                     rollbacks, faults>>
      /\ activator \in Closing \ {"last"}
      /\ activator' \in {"clear", "unaudit", "release", "uncandidate", "unstate", "stopped"}
      /\ pending' \in {pending, NoBinding} /\ candidate' \in {candidate, NoBinding}
      /\ audit' \in {audit, NoAudit}
      /\ \/ audits' = audits
         \/ /\ audit # NoAudit
            /\ audits' = audits \cup
                  {[sequence |-> activation.candidate.sequence, audit |-> audit]}
  BY DEF ArchiveAudit, RemoveAudit, ClearStaging, RemoveCandidate, ActivatorFails,
         staging, archive, budget, limits
<1>2. JournalType /\ SequenceInv /\ ActivatorInv
  BY DEF UpdateInv, StateType
<1>3. stager.pc = "stopped" /\ current \in Slots
  BY <1>1, ActivatorContext
<1>4. Phase \in FinalPhase /\ lastReceipt = Receipt
  BY <1>1, <1>2 DEF ActivatorInv
<1>5. activation.candidate.sequence \in Releases
  BY <1>4, RecordedActivation DEF Binding
<1>6. audits' \subseteq [sequence : Releases, audit : AuditReceipt]
  BY <1>1, <1>2, <1>5 DEF JournalType
<1>7. ActivatorInv'
  BY <1>1, <1>4, Frames DEF ActivatorInv, Receipt, Outcome
<1>8. /\ {pending', candidate'} \subseteq Binding \cup {NoBinding}
      /\ audit' \in AuditReceipt \cup {NoAudit} /\ receipts' \subseteq ActivationReceipt
  BY <1>1, <1>2 DEF JournalType
<1>9. candidate'.sequence <= checkpoint
  BY <1>1, <1>2 DEF JournalType, SequenceInv, NoBinding
<1>10. activator' \in ActivatorStep
  BY <1>1 DEF ActivatorStep
<1> QED
  BY <1>1, <1>2, <1>3, <1>6, <1>7, <1>8, <1>9, <1>10, ActivatorWrites DEF SequenceInv

-----------------------------------------------------------------------------
\* A step that replaces or removes the durable activation state.
LEMMA ActivationStep ==
    ASSUME UpdateInv, activator # "stopped", UNCHANGED platform, UNCHANGED records,
           UNCHANGED <<stager, signed, rollbacks, faults>>,
           activation' \in DurableActivationState \cup {NoState},
           activation'.candidate.sequence <= checkpoint,
           current = default \/ activation'.phase \in Trial \cup Reverting,
           activator' \in ActivatorStep,
           ActivatorInv', TrialInv', RollbackInv', TrialRecorded', OutcomeTruthful'
    PROVE  UpdateInv'
<1>1. /\ UNCHANGED <<current, boot, proven, default, oneshot, image>>
      /\ UNCHANGED <<checkpoint, pending, staged, candidate, audit, audits, receipts,
                     lastReceipt>>
  BY Frames DEF records, staging, archive
<1>2. stager.pc = "stopped" /\ current \in Slots
  BY ActivatorContext
<1> USE <1>1, <1>2 DEF UpdateInv, StateType
<1>3. DeviceType' /\ JournalType' /\ ProcessType'
  BY DEF DeviceType, JournalType, ProcessType
<1>4. LockInv' /\ StagerInv'
  BY DEF LockInv, StagerInv
<1>5. SlotInv' /\ SequenceInv'
  BY DEF SlotInv, SequenceInv
<1>6. StagedIntact' /\ DefaultProven'
  BY DEF StagedIntact, DefaultProven
<1> QED
  BY <1>3, <1>4, <1>5, <1>6

\* The state persist_state writes.
LEMMA PersistedState ==
    ASSUME UpdateInv, NEW binding \in Binding, NEW phase \in ActivationPhase,
           Persist(binding, phase)
    PROVE  /\ activation' \in DurableActivationState /\ activation' # NoState
           /\ activation'.candidate = binding /\ activation'.phase = phase
           /\ activation'.boot = boot /\ boot \in Nat
<1>1. boot \in Nat
  BY DEF UpdateInv, StateType, DeviceType
<1> QED
  BY <1>1 DEF DurableActivationState, Binding, NoState, NoBinding

\* The candidate of a staged release becomes a recorded activation.
LEMMA PrepareStep ==
    ASSUME UpdateInv, Prepare
    PROVE  UpdateInv'
<1>1. /\ UNCHANGED platform /\ UNCHANGED records
      /\ UNCHANGED <<stager, signed, rollbacks, faults>>
      /\ activator = "reconcile" /\ activator' = "reconcile" /\ activation = NoState
      /\ candidate # NoBinding /\ staged = candidate /\ current = KnownGood(candidate)
      /\ Persist(candidate, "Prepared")
  BY DEF Prepare, Completed, budget, limits
<1>2. JournalType /\ SlotInv /\ SequenceInv /\ TrialRecorded /\ DeviceType
  BY DEF UpdateInv, StateType
<1>3. stager.pc = "stopped" /\ current \in Slots
  BY <1>1, ActivatorContext
<1>4. candidate \in Binding /\ "Prepared" \in ActivationPhase
  BY <1>1, <1>2 DEF JournalType, ActivationPhase
<1>5. /\ activation' \in DurableActivationState /\ activation' # NoState
      /\ activation'.candidate = candidate /\ activation'.phase = "Prepared"
      /\ activation'.boot = boot /\ boot \in Nat
  BY <1>1, <1>4, PersistedState
<1>6. current = default /\ oneshot \in {NoSlot, default}
  BY <1>1, <1>2, <1>3 DEF SlotInv, TrialRecorded, NoState
<1>7. UNCHANGED <<current, boot, default, oneshot, staged, image, lastReceipt>>
  BY <1>1, Frames DEF records, staging, archive
<1>8. ActivatorInv' /\ TrialInv'
  BY <1>1, <1>5, <1>6, <1>7 DEF ActivatorInv, TrialInv
<1>9. RollbackInv' /\ TrialRecorded' /\ OutcomeTruthful'
  BY <1>1, <1>5, <1>6, <1>7 DEF RollbackInv, TrialRecorded, OutcomeTruthful
<1> QED
  BY <1>1, <1>2, <1>5, <1>8, <1>9, ActivationStep DEF SequenceInv, ActivatorStep

\* What the activator knows when it moves a recorded activation on.
LEMMA MoveContext ==
    ASSUME UpdateInv, activator # "stopped", Phase # "None",
           UNCHANGED platform, UNCHANGED records, UNCHANGED <<stager, budget>>,
           NEW phase \in ActivationPhase, MoveTo(phase)
    PROVE  /\ UNCHANGED <<current, boot, default, oneshot, staged, image, lastReceipt>>
           /\ UNCHANGED <<stager, signed, rollbacks, faults>>
           /\ stager.pc = "stopped" /\ current \in Slots /\ Target \in Slots
           /\ activation' \in DurableActivationState /\ activation' # NoState
           /\ activation'.candidate = activation.candidate /\ activation'.phase = phase
           /\ activation'.boot = boot /\ boot \in Nat
           /\ activation'.candidate.sequence <= checkpoint
<1>1. UNCHANGED <<current, boot, default, oneshot, staged, image, lastReceipt>>
  BY Frames DEF records, staging, archive
<1>2. activation.candidate \in Binding /\ Target \in Slots
  BY RecordedActivation
<1>3. activation.candidate.sequence <= checkpoint
  BY DEF UpdateInv, SequenceInv
<1> QED
  BY <1>1, <1>2, <1>3, PersistedState, ActivatorContext DEF budget, limits

\* Prepared to Armed, in the boot that prepared.
LEMMA ArmedStep ==
    ASSUME UpdateInv, TrialArmed
    PROVE  UpdateInv'
<1>1. /\ UNCHANGED platform /\ UNCHANGED records /\ UNCHANGED <<stager, budget>>
      /\ activator = "arm" /\ activator' = "stopped" /\ MoveTo("Armed")
  BY DEF TrialArmed
<1>2. TrialInv /\ ActivatorInv /\ TrialRecorded
  BY DEF UpdateInv
<1>3. Phase = "Prepared" /\ SameBoot /\ InKnownGood
  BY <1>1, <1>2 DEF ActivatorInv
<1>4. "Armed" \in ActivationPhase
  BY DEF ActivationPhase
<1>5. /\ UNCHANGED <<current, boot, default, oneshot, staged, image, lastReceipt>>
      /\ UNCHANGED <<stager, signed, rollbacks, faults>>
      /\ activation' \in DurableActivationState /\ activation' # NoState
      /\ activation'.candidate = activation.candidate /\ activation'.phase = "Armed"
      /\ activation'.boot = boot /\ boot \in Nat
      /\ activation'.candidate.sequence <= checkpoint
  BY <1>1, <1>3, <1>4, MoveContext
<1>6. ActivatorInv' /\ TrialInv'
  BY <1>1, <1>2, <1>3, <1>5 DEF ActivatorInv, TrialInv
<1>7. RollbackInv' /\ TrialRecorded' /\ OutcomeTruthful'
  BY <1>2, <1>3, <1>5 DEF RollbackInv, TrialRecorded, OutcomeTruthful
<1> QED
  BY <1>1, <1>5, <1>6, <1>7, ActivationStep DEF ActivatorStep

\* A later boot decides the trial.
LEMMA ObserveTrialStep ==
    ASSUME UpdateInv, ObserveTrial
    PROVE  UpdateInv'
<1> DEFINE next == IF InTarget THEN "PromotePrepared" ELSE "FinalizeFallback"
<1>1. /\ UNCHANGED platform /\ UNCHANGED records /\ UNCHANGED <<stager, budget>>
      /\ activator = "reconcile" /\ activator' = "reconcile" /\ MoveTo(next)
      /\ Phase \in {"Prepared", "Armed"} /\ ~SameBoot
  BY DEF ObserveTrial
<1>2. TrialInv
  BY DEF UpdateInv
<1>3. /\ staged = activation.candidate /\ default = KnownGood(activation.candidate)
      /\ oneshot = NoSlot
  BY <1>1, <1>2 DEF TrialInv
<1>4. next \in ActivationPhase
  BY DEF ActivationPhase
<1>5. /\ UNCHANGED <<current, boot, default, oneshot, staged, image, lastReceipt>>
      /\ UNCHANGED <<stager, signed, rollbacks, faults>>
      /\ current \in Slots /\ Target \in Slots
      /\ activation' \in DurableActivationState /\ activation' # NoState
      /\ activation'.candidate = activation.candidate /\ activation'.phase = next
      /\ activation'.boot = boot /\ boot \in Nat
      /\ activation'.candidate.sequence <= checkpoint
  BY <1>1, <1>4, MoveContext
<1>6. next = "PromotePrepared" \/ (next = "FinalizeFallback" /\ current = default)
  BY <1>3, <1>5
<1> HIDE DEF next
<1>7. ActivatorInv' /\ TrialInv'
  BY <1>1, <1>3, <1>5, <1>6 DEF ActivatorInv, TrialInv
<1>8. RollbackInv' /\ TrialRecorded' /\ OutcomeTruthful'
  BY <1>3, <1>5, <1>6 DEF RollbackInv, TrialRecorded, OutcomeTruthful
<1> QED
  BY <1>1, <1>5, <1>6, <1>7, <1>8, ActivationStep DEF ActivatorStep

\* The target is the default entry before the success is recorded.
LEMMA PromotedStep ==
    ASSUME UpdateInv, Promoted
    PROVE  UpdateInv'
<1>1. /\ UNCHANGED platform /\ UNCHANGED records /\ UNCHANGED <<stager, budget>>
      /\ activator = "promoted" /\ activator' = "reconcile" /\ MoveTo("FinalizeSucceeded")
  BY DEF Promoted
<1>2. TrialInv /\ ActivatorInv
  BY DEF UpdateInv
<1>3. Phase = "PromotePrepared" /\ InTarget /\ default = Target /\ oneshot = NoSlot
  BY <1>1, <1>2 DEF ActivatorInv, TrialInv
<1>4. "FinalizeSucceeded" \in ActivationPhase
  BY DEF ActivationPhase
<1>5. /\ UNCHANGED <<current, boot, default, oneshot, staged, image, lastReceipt>>
      /\ UNCHANGED <<stager, signed, rollbacks, faults>>
      /\ Target \in Slots
      /\ activation' \in DurableActivationState /\ activation' # NoState
      /\ activation'.candidate = activation.candidate
      /\ activation'.phase = "FinalizeSucceeded" /\ activation'.boot = boot /\ boot \in Nat
      /\ activation'.candidate.sequence <= checkpoint
  BY <1>1, <1>3, <1>4, MoveContext
<1>6. ActivatorInv' /\ TrialInv'
  BY <1>1, <1>5 DEF ActivatorInv, TrialInv
<1>7. RollbackInv' /\ TrialRecorded' /\ OutcomeTruthful'
  BY <1>3, <1>5 DEF RollbackInv, TrialRecorded, OutcomeTruthful
<1> QED
  BY <1>1, <1>3, <1>5, <1>6, <1>7, ActivationStep DEF ActivatorStep

\* A rollback is recorded; an armed trial it may find is still the staged one.
LEMMA RollbackPrepareStep ==
    ASSUME UpdateInv, RollbackPrepare
    PROVE  UpdateInv'
<1>1. /\ UNCHANGED platform /\ UNCHANGED records
      /\ UNCHANGED <<stager, signed, rollbacks, faults>>
      /\ activator = "rollback" /\ activator' = "reconcile" /\ RollbackBinding # NoBinding
      /\ Persist(RollbackBinding, "RollbackPrepared")
  BY DEF RollbackPrepare, budget, limits
<1>2. /\ JournalType /\ ActivatorInv /\ TrialInv /\ RollbackInv /\ SequenceInv
      /\ TrialRecorded /\ StagedIntact
  BY DEF UpdateInv, StateType
<1>3. rollbacks > 0
  BY <1>1, <1>2 DEF ActivatorInv
<1>4. CASE activation # NoState
  <2>1. RollbackBinding = activation.candidate /\ activation \in DurableActivationState
    BY <1>2, <1>4 DEF RollbackBinding, JournalType
  <2>2. /\ activation.candidate \in Binding /\ Phase \in ActivationPhase
        /\ "RollbackPrepared" \in ActivationPhase
    BY <2>1 DEF DurableActivationState, ActivationPhase
  <2>3. /\ activation' \in DurableActivationState /\ activation' # NoState
        /\ activation'.candidate = activation.candidate
        /\ activation'.phase = "RollbackPrepared" /\ activation'.boot = boot /\ boot \in Nat
    BY <1>1, <2>1, <2>2, PersistedState
  <2>4. UNCHANGED <<current, boot, default, oneshot, staged, image, lastReceipt>>
    BY <1>1, Frames DEF records, staging, archive
  <2>5. oneshot = Target => staged = activation.candidate
    BY <1>2, <2>2 DEF TrialInv, RollbackInv, ActivationPhase
  <2>6. ActivatorInv' /\ TrialInv' /\ OutcomeTruthful'
    BY <1>1, <2>3, <2>4 DEF ActivatorInv, TrialInv, OutcomeTruthful
  <2>7. RollbackInv' /\ TrialRecorded'
    BY <1>1, <1>2, <1>3, <2>3, <2>4, <2>5 DEF RollbackInv, TrialRecorded
  <2> QED
    BY <1>1, <1>2, <2>3, <2>6, <2>7, ActivationStep DEF ActivatorStep, SequenceInv
<1>5. CASE activation = NoState
  <2>1. RollbackBinding = lastReceipt.candidate /\ lastReceipt.outcome = "Succeeded"
    BY <1>1, <1>5 DEF RollbackBinding
  <2>2. lastReceipt.candidate \in Binding /\ "RollbackPrepared" \in ActivationPhase
    BY <1>2, <2>1 DEF JournalType, ActivationReceipt, NoReceipt, ActivationPhase
  <2>3. /\ activation' \in DurableActivationState /\ activation' # NoState
        /\ activation'.candidate = lastReceipt.candidate
        /\ activation'.phase = "RollbackPrepared" /\ activation'.boot = boot /\ boot \in Nat
    BY <1>1, <2>1, <2>2, PersistedState
  <2>4. UNCHANGED <<current, boot, default, oneshot, staged, image, lastReceipt>>
    BY <1>1, Frames DEF records, staging, archive
  <2>5. oneshot # lastReceipt.candidate.target /\ oneshot \in {NoSlot, default}
    BY <1>2, <1>5, <2>1 DEF RollbackInv, TrialRecorded, NoState
  <2>6. ActivatorInv' /\ TrialInv' /\ OutcomeTruthful'
    BY <1>1, <2>3, <2>4 DEF ActivatorInv, TrialInv, OutcomeTruthful
  <2>7. RollbackInv' /\ TrialRecorded'
    BY <1>1, <1>3, <2>3, <2>4, <2>5 DEF RollbackInv, TrialRecorded
  <2> QED
    BY <1>1, <1>2, <2>3, <2>6, <2>7, ActivationStep DEF ActivatorStep, SequenceInv
<1> QED
  BY <1>4, <1>5

\* The known-good slot is selected before the rollback is armed.
LEMMA RollbackArmedStep ==
    ASSUME UpdateInv, RollbackArmed
    PROVE  UpdateInv'
<1>1. /\ UNCHANGED platform /\ UNCHANGED records /\ UNCHANGED <<stager, budget>>
      /\ activator = "rearm" /\ activator' \in {"reconcile", "stopped"}
      /\ MoveTo("RollbackArmed")
  BY DEF RollbackArmed
<1>2. ActivatorInv /\ RollbackInv
  BY DEF UpdateInv
<1>3. /\ Phase = "RollbackPrepared" /\ default = KnownGood(activation.candidate)
      /\ oneshot = KnownGood(activation.candidate) /\ rollbacks > 0
  BY <1>1, <1>2 DEF ActivatorInv, RollbackInv
<1>4. "RollbackArmed" \in ActivationPhase
  BY DEF ActivationPhase
<1>5. /\ UNCHANGED <<current, boot, default, oneshot, staged, image, lastReceipt>>
      /\ UNCHANGED <<stager, signed, rollbacks, faults>>
      /\ Target \in Slots
      /\ activation' \in DurableActivationState /\ activation' # NoState
      /\ activation'.candidate = activation.candidate
      /\ activation'.phase = "RollbackArmed" /\ activation'.boot = boot /\ boot \in Nat
      /\ activation'.candidate.sequence <= checkpoint
  BY <1>1, <1>3, <1>4, MoveContext
<1>6. ActivatorInv' /\ TrialInv' /\ OutcomeTruthful'
  BY <1>1, <1>5 DEF ActivatorInv, TrialInv, OutcomeTruthful
<1>7. RollbackInv' /\ TrialRecorded'
  BY <1>3, <1>5 DEF RollbackInv, TrialRecorded
<1> QED
  BY <1>1, <1>5, <1>6, <1>7, ActivationStep DEF ActivatorStep

\* The known-good slot runs, and is the default entry.
LEMMA ObserveRollbackStep ==
    ASSUME UpdateInv, ObserveRollback
    PROVE  UpdateInv'
<1>1. /\ UNCHANGED platform /\ UNCHANGED records /\ UNCHANGED <<stager, budget>>
      /\ activator = "reconcile" /\ activator' = "reconcile"
      /\ MoveTo("FinalizeRolledBack") /\ Phase = "RollbackArmed" /\ InKnownGood
  BY DEF ObserveRollback
<1>2. RollbackInv /\ TrialRecorded
  BY DEF UpdateInv
<1>3. /\ default = KnownGood(activation.candidate) /\ oneshot # Target /\ rollbacks > 0
      /\ oneshot \in {NoSlot, default}
  BY <1>1, <1>2 DEF RollbackInv, TrialRecorded
<1>4. "FinalizeRolledBack" \in ActivationPhase
  BY DEF ActivationPhase
<1>5. /\ UNCHANGED <<current, boot, default, oneshot, staged, image, lastReceipt>>
      /\ UNCHANGED <<stager, signed, rollbacks, faults>>
      /\ activation' \in DurableActivationState /\ activation' # NoState
      /\ activation'.candidate = activation.candidate
      /\ activation'.phase = "FinalizeRolledBack" /\ activation'.boot = boot /\ boot \in Nat
      /\ activation'.candidate.sequence <= checkpoint
  BY <1>1, <1>4, MoveContext
<1>6. ActivatorInv' /\ TrialInv' /\ OutcomeTruthful'
  BY <1>1, <1>3, <1>5 DEF ActivatorInv, TrialInv, OutcomeTruthful
<1>7. RollbackInv' /\ TrialRecorded'
  BY <1>3, <1>5 DEF RollbackInv, TrialRecorded
<1> QED
  BY <1>1, <1>3, <1>5, <1>6, <1>7, ActivationStep DEF ActivatorStep

\* The state goes last; the receipt that stays was written from it.
LEMMA RemoveStateStep ==
    ASSUME UpdateInv, RemoveState
    PROVE  UpdateInv'
<1>1. /\ UNCHANGED platform /\ UNCHANGED records
      /\ UNCHANGED <<stager, signed, rollbacks, faults>>
      /\ activator = "unstate" /\ activator' = "stopped" /\ activation' = NoState
  BY DEF RemoveState, budget, limits
<1>2. ActivatorInv /\ RollbackInv /\ SlotInv /\ TrialRecorded /\ JournalType /\ DeviceType
  BY DEF UpdateInv, StateType
<1>3. Phase \in FinalPhase /\ lastReceipt = Receipt /\ current \in Slots
  BY <1>1, <1>2, ActivatorContext DEF ActivatorInv
<1>4. lastReceipt.candidate = activation.candidate
  BY <1>3, TerminalReceipt
<1>5. oneshot # Target /\ oneshot \in {NoSlot, default} /\ current = default
  BY <1>2, <1>3 DEF RollbackInv, TrialRecorded, SlotInv
<1>6. UNCHANGED <<current, boot, default, oneshot, staged, image, lastReceipt>>
  BY <1>1, Frames DEF records, staging, archive
<1>7. ActivatorInv' /\ TrialInv' /\ OutcomeTruthful'
  BY <1>1, <1>2, <1>6 DEF ActivatorInv, TrialInv, OutcomeTruthful, NoState, DeviceType
<1>8. RollbackInv' /\ TrialRecorded'
  BY <1>1, <1>4, <1>5, <1>6 DEF RollbackInv, TrialRecorded, NoState
<1>9. activation'.candidate.sequence <= checkpoint
  BY <1>1, <1>2 DEF NoState, NoBinding, JournalType
<1> QED
  BY <1>1, <1>5, <1>7, <1>8, <1>9, ActivationStep DEF ActivatorStep

-----------------------------------------------------------------------------
\* A step that writes a boot entry.
LEMMA FirmwareStep ==
    ASSUME UpdateInv, activator # "stopped", UNCHANGED machine, image' = image,
           UNCHANGED disk, UNCHANGED <<stager, budget>>,
           default' \in Slots, oneshot' \in Slots \cup {NoSlot},
           current = default' \/ Phase \in Trial \cup Reverting,
           rollbacks = 0 => default' \in proven,
           activator' \in ActivatorStep,
           ActivatorInv', TrialInv', RollbackInv', TrialRecorded', OutcomeTruthful'
    PROVE  UpdateInv'
<1>1. /\ UNCHANGED <<current, boot, proven, image, checkpoint, pending, staged, candidate,
                     audit, audits, receipts, lastReceipt, activation>>
      /\ UNCHANGED <<stager, signed, rollbacks, faults>>
  BY Frames DEF machine, budget, limits
<1>2. stager.pc = "stopped" /\ current \in Slots
  BY ActivatorContext
<1> USE <1>1, <1>2 DEF UpdateInv, StateType
<1>3. DeviceType' /\ JournalType' /\ ProcessType'
  BY DEF DeviceType, JournalType, ProcessType
<1>4. LockInv' /\ StagerInv'
  BY DEF LockInv, StagerInv
<1>5. SlotInv' /\ SequenceInv'
  BY DEF SlotInv, SequenceInv
<1>6. StagedIntact' /\ DefaultProven'
  BY DEF StagedIntact, DefaultProven
<1> QED
  BY <1>3, <1>4, <1>5, <1>6

\* arm_trial: the default entry stays, the target is tried once.
LEMMA TrialDefaultStep ==
    ASSUME UpdateInv, TrialDefault
    PROVE  UpdateInv'
<1>1. /\ UNCHANGED machine /\ image' = image /\ UNCHANGED disk /\ UNCHANGED <<stager, budget>>
      /\ activator = "reconcile" /\ activator' = "trial" /\ oneshot' = oneshot
      /\ Phase = "Prepared" /\ SameBoot /\ InKnownGood
      /\ default' = KnownGood(activation.candidate)
  BY DEF TrialDefault
<1>2. TrialInv /\ RollbackInv /\ TrialRecorded /\ OutcomeTruthful /\ DefaultProven /\ DeviceType
  BY DEF UpdateInv, StateType
<1>3. default' = default
  BY <1>1, <1>2 DEF TrialInv
<1>4. UNCHANGED <<current, boot, image, staged, lastReceipt, activation, rollbacks>>
  BY <1>1, Frames DEF machine, budget, limits
<1>5. ActivatorInv' /\ TrialInv'
  BY <1>1, <1>2, <1>3, <1>4 DEF ActivatorInv, TrialInv
<1>6. RollbackInv' /\ TrialRecorded' /\ OutcomeTruthful'
  BY <1>1, <1>2, <1>3, <1>4 DEF RollbackInv, TrialRecorded, OutcomeTruthful
<1> QED
  BY <1>1, <1>2, <1>3, <1>5, <1>6, FirmwareStep DEF ActivatorStep, DefaultProven, DeviceType

\* The target is tried once, with the staged release in it.
LEMMA TrialOneshotStep ==
    ASSUME UpdateInv, TrialOneshot
    PROVE  UpdateInv'
<1>1. /\ UNCHANGED machine /\ image' = image /\ UNCHANGED disk /\ UNCHANGED <<stager, budget>>
      /\ activator = "trial" /\ activator' = "arm" /\ default' = default /\ oneshot' = Target
  BY DEF TrialOneshot
<1>2. /\ ActivatorInv /\ TrialInv /\ StagedIntact /\ OutcomeTruthful /\ DefaultProven
      /\ DeviceType
  BY DEF UpdateInv, StateType
<1>3. /\ Phase = "Prepared" /\ SameBoot /\ InKnownGood /\ staged = activation.candidate
  BY <1>1, <1>2 DEF ActivatorInv, TrialInv
<1>4. Target \in Slots /\ activation # NoState /\ staged # NoBinding
  BY <1>3, RecordedActivation
<1>5. UNCHANGED <<current, boot, image, staged, lastReceipt, activation, rollbacks>>
  BY <1>1, Frames DEF machine, budget, limits
<1>6. ActivatorInv' /\ TrialInv' /\ OutcomeTruthful'
  BY <1>1, <1>2, <1>3, <1>5 DEF ActivatorInv, TrialInv, OutcomeTruthful
<1>7. RollbackInv' /\ TrialRecorded'
  BY <1>1, <1>2, <1>3, <1>4, <1>5 DEF RollbackInv, TrialRecorded, StagedIntact
<1> QED
  BY <1>1, <1>2, <1>3, <1>4, <1>6, <1>7, FirmwareStep
     DEF ActivatorStep, DefaultProven, DeviceType

\* promote: the slot that becomes the default entry is the running one.
LEMMA PromoteStep ==
    ASSUME UpdateInv, Promote
    PROVE  UpdateInv'
<1>1. /\ UNCHANGED machine /\ image' = image /\ UNCHANGED disk /\ UNCHANGED <<stager, budget>>
      /\ activator = "reconcile" /\ activator' = "promoted" /\ oneshot' = oneshot
      /\ Phase = "PromotePrepared" /\ InTarget /\ default' = Target
  BY DEF Promote
<1>2. TrialInv /\ SlotInv /\ DeviceType
  BY DEF UpdateInv, StateType
<1>3. Target \in Slots /\ activation # NoState /\ oneshot = NoSlot
  BY <1>1, <1>2, RecordedActivation DEF TrialInv
<1>4. UNCHANGED <<current, boot, image, staged, lastReceipt, activation, rollbacks>>
  BY <1>1, Frames DEF machine, budget, limits
<1>5. ActivatorInv' /\ TrialInv' /\ OutcomeTruthful'
  BY <1>1, <1>2, <1>4 DEF ActivatorInv, TrialInv, OutcomeTruthful
<1>6. RollbackInv' /\ TrialRecorded'
  BY <1>1, <1>3, <1>4 DEF RollbackInv, TrialRecorded
<1>7. default' \in proven
  BY <1>1, <1>2, <1>3 DEF SlotInv
<1> QED
  BY <1>1, <1>2, <1>3, <1>5, <1>6, <1>7, FirmwareStep DEF ActivatorStep, DeviceType

\* arm_rollback: the known-good slot for good and for the next boot.
LEMMA RevertDefaultStep ==
    ASSUME UpdateInv, RevertDefault
    PROVE  UpdateInv'
<1>1. /\ UNCHANGED machine /\ image' = image /\ UNCHANGED disk /\ UNCHANGED <<stager, budget>>
      /\ activator = "reconcile" /\ activator' = "revert" /\ oneshot' = oneshot
      /\ Phase = "RollbackPrepared" /\ default' = KnownGood(activation.candidate)
  BY DEF RevertDefault
<1>2. /\ TrialInv /\ RollbackInv /\ StagedIntact /\ DeviceType
  BY DEF UpdateInv, StateType
<1>3. Target \in Slots /\ activation # NoState /\ activation.candidate # NoBinding
  BY <1>1, RecordedActivation
<1>4. UNCHANGED <<current, boot, image, staged, lastReceipt, activation, rollbacks>>
  BY <1>1, Frames DEF machine, budget, limits
<1>5. /\ oneshot \in {NoSlot, Target, KnownGood(activation.candidate)}
      /\ oneshot = Target => staged = activation.candidate
  BY <1>1, <1>2, <1>3 DEF RollbackInv, DeviceType
<1>6. ActivatorInv' /\ TrialInv' /\ OutcomeTruthful'
  BY <1>1, <1>2, <1>4 DEF ActivatorInv, TrialInv, OutcomeTruthful
<1>7. RollbackInv' /\ TrialRecorded'
  BY <1>1, <1>2, <1>3, <1>4, <1>5 DEF RollbackInv, TrialRecorded, StagedIntact
<1> QED
  BY <1>1, <1>2, <1>3, <1>6, <1>7, FirmwareStep DEF ActivatorStep, DeviceType, RollbackInv

\* The next boot goes to the known-good slot too.
LEMMA RevertOneshotStep ==
    ASSUME UpdateInv, RevertOneshot
    PROVE  UpdateInv'
<1>1. /\ UNCHANGED machine /\ image' = image /\ UNCHANGED disk /\ UNCHANGED <<stager, budget>>
      /\ activator = "revert" /\ activator' = "rearm" /\ default' = default
      /\ oneshot' = KnownGood(activation.candidate)
  BY DEF RevertOneshot
<1>2. ActivatorInv /\ TrialInv /\ RollbackInv /\ DeviceType /\ DefaultProven
  BY DEF UpdateInv, StateType
<1>3. Phase = "RollbackPrepared" /\ default = KnownGood(activation.candidate)
  BY <1>1, <1>2 DEF ActivatorInv
<1>4. Target \in Slots /\ activation # NoState
  BY <1>3, RecordedActivation
<1>5. UNCHANGED <<current, boot, image, staged, lastReceipt, activation, rollbacks>>
  BY <1>1, Frames DEF machine, budget, limits
<1>6. ActivatorInv' /\ TrialInv' /\ OutcomeTruthful'
  BY <1>1, <1>2, <1>3, <1>5 DEF ActivatorInv, TrialInv, OutcomeTruthful
<1>7. RollbackInv' /\ TrialRecorded'
  BY <1>1, <1>2, <1>3, <1>4, <1>5 DEF RollbackInv, TrialRecorded
<1> QED
  BY <1>1, <1>2, <1>3, <1>4, <1>6, <1>7, FirmwareStep
     DEF ActivatorStep, DeviceType, DefaultProven

\* finalize keeps the receipt before it releases the staging.
LEMMA FinalizeSteps ==
    ASSUME UpdateInv, KeepLastReceipt \/ ReleaseStaging
    PROVE  UpdateInv'
<1>1. /\ UNCHANGED <<current, boot, proven, default, oneshot, image>>
      /\ UNCHANGED <<checkpoint, pending, candidate, audit, audits, receipts, activation>>
      /\ UNCHANGED <<stager, signed, rollbacks, faults>>
      /\ activator \in Closing
      /\ \/ staged' = staged /\ lastReceipt' = Receipt /\ activator' = "audits"
         \/ /\ staged' = NoBinding /\ lastReceipt' = lastReceipt
            /\ activator = "release" /\ activator' = "uncandidate"
  BY Frames DEF KeepLastReceipt, ReleaseStaging, staging, archive, budget, limits
<1>2. /\ StateType /\ ActivatorInv /\ TrialInv /\ RollbackInv /\ SlotInv /\ SequenceInv
      /\ StagedIntact /\ DefaultProven /\ TrialRecorded /\ OutcomeTruthful
  BY DEF UpdateInv
<1>3. stager.pc = "stopped" /\ current \in Slots
  BY <1>1, ActivatorContext
<1>4. Phase \in FinalPhase /\ lastReceipt' = Receipt
  BY <1>1, <1>2 DEF ActivatorInv
<1>5. /\ Receipt \in ActivationReceipt /\ Receipt.candidate = activation.candidate
      /\ Receipt.candidate.sequence <= checkpoint /\ activation # NoState
  BY <1>4, TerminalReceipt, RecordedActivation
<1>6. StateType'
  BY <1>1, <1>2, <1>4, <1>5 DEF StateType, DeviceType, JournalType, ProcessType, ActivatorStep
<1>7. LockInv' /\ StagerInv'
  BY <1>1, <1>3 DEF LockInv, StagerInv
<1>8. ActivatorInv'
  BY <1>1, <1>4 DEF ActivatorInv, Receipt, Outcome
<1>9. TrialInv' /\ RollbackInv' /\ SlotInv'
  BY <1>1, <1>2, <1>4, <1>5 DEF TrialInv, RollbackInv, SlotInv
<1>10. SequenceInv'
  BY <1>1, <1>2, <1>4, <1>5 DEF SequenceInv
<1>11. StagedIntact' /\ DefaultProven' /\ TrialRecorded' /\ OutcomeTruthful'
  BY <1>1, <1>2 DEF StagedIntact, DefaultProven, TrialRecorded, OutcomeTruthful
<1> QED
  BY <1>6, <1>7, <1>8, <1>9, <1>10, <1>11 DEF UpdateInv

\* Every step of the activator.
LEMMA ActivatorStepsInv ==
    ASSUME UpdateInv, ActivatorNext
    PROVE  UpdateInv'
<1>1. CASE \/ ActivatorStart \/ StartBusy \/ WindowPasses \/ RollbackStart
           \/ ReconcileIdle \/ WaitForReboot \/ NothingToRollback \/ ReconcileRefused
  BY <1>1, ActivatorMoves, UnitMoves
<1>2. CASE \/ Prepare \/ TrialArmed \/ ObserveTrial \/ Promoted \/ RollbackPrepare
           \/ RollbackArmed \/ ObserveRollback \/ RemoveState
  BY <1>2, PrepareStep, ArmedStep, ObserveTrialStep, PromotedStep, RollbackPrepareStep,
     RollbackArmedStep, ObserveRollbackStep, RemoveStateStep
<1>3. CASE TrialDefault \/ TrialOneshot \/ Promote \/ RevertDefault \/ RevertOneshot
  BY <1>3, TrialDefaultStep, TrialOneshotStep, PromoteStep, RevertDefaultStep,
     RevertOneshotStep
<1>4. CASE \/ ArchiveReceipt \/ ArchiveAudit \/ RemoveAudit \/ ClearStaging
           \/ RemoveCandidate \/ KeepLastReceipt \/ ReleaseStaging
  BY <1>4, ArchiveReceiptStep, ClosingWrites, FinalizeSteps
<1> QED
  BY <1>1, <1>2, <1>3, <1>4 DEF ActivatorNext, ActivatorSteps

-----------------------------------------------------------------------------
\* A restart: the one-shot entry is gone, and a slot other than the default
\* one comes up only when it was on trial.
LEMMA BootStep ==
    ASSUME UpdateInv, AwaitedRestart \/ PowerLoss
    PROVE  UpdateInv'
<1>1. /\ UNCHANGED <<default, image, checkpoint, pending, staged, candidate, audit, audits,
                     receipts, lastReceipt, activation, signed, rollbacks>>
      /\ current' = Selected /\ boot' = boot + 1 /\ oneshot' = NoSlot
      /\ proven' = proven \cup ({Selected} \cap Slots)
      /\ StagerAt("stopped") /\ activator' = "stopped"
      /\ faults' = faults \/ (faults' = faults + 1 /\ faults < MaxFaults)
  BY Frames DEF AwaitedRestart, PowerLoss, Boot
<1>2. /\ DeviceType /\ JournalType /\ ProcessType /\ TrialInv /\ RollbackInv /\ SlotInv
      /\ SequenceInv /\ StagedIntact /\ DefaultProven /\ TrialRecorded /\ OutcomeTruthful
  BY DEF UpdateInv, StateType
<1>3. Selected \in {oneshot, default, NoSlot}
  BY DEF Selected
<1> HIDE DEF Selected
<1>4. /\ stager' \in [pc : StagerStep, offered : 0..MaxSequence] /\ stager'.pc = "stopped"
  BY <1>1, <1>2, StagerRecord DEF StagerStep
<1>5. DeviceType'
  BY <1>1, <1>2, <1>3 DEF DeviceType
<1>6. JournalType' /\ SequenceInv'
  BY <1>1, <1>2 DEF JournalType, SequenceInv
<1>7. ProcessType'
  <2>1. faults' \in 0..MaxFaults /\ activator' \in ActivatorStep
    BY <1>1, <1>2, DeviceAssumption DEF ProcessType, ActivatorStep
  <2> QED
    BY <1>1, <1>2, <1>4, <2>1 DEF ProcessType
<1>8. LockInv' /\ StagerInv' /\ ActivatorInv'
  BY <1>1, <1>4 DEF LockInv, StagerInv, ActivatorInv
<1>9. activation.boot \in Nat /\ boot \in Nat
  BY <1>2 DEF JournalType, DurableActivationState, NoState, DeviceType
<1>10. TrialInv'
  BY <1>1, <1>2, <1>9 DEF TrialInv
<1>11. RollbackInv'
  <2>1. Phase # "None" => Target # NoSlot
    BY RecordedActivation
  <2>2. lastReceipt.outcome = "Succeeded" => lastReceipt.candidate.target # NoSlot
    BY <1>2 DEF JournalType, ActivationReceipt, NoReceipt, Binding
  <2> QED
    BY <1>1, <1>2, <2>1, <2>2 DEF RollbackInv
<1>12. SlotInv'
  BY <1>1, <1>2, <1>3 DEF SlotInv, TrialRecorded
<1>13. StagedIntact' /\ DefaultProven' /\ TrialRecorded' /\ OutcomeTruthful'
  BY <1>1, <1>2 DEF StagedIntact, DefaultProven, TrialRecorded, OutcomeTruthful
<1> QED
  BY <1>5, <1>6, <1>7, <1>8, <1>10, <1>11, <1>12, <1>13 DEF UpdateInv, StateType

\* Nothing happens.
LEMMA StutterStep ==
    ASSUME UpdateInv, UNCHANGED vars
    PROVE  UpdateInv'
<1>1. UNCHANGED platform /\ UNCHANGED disk
      /\ UNCHANGED <<stager, activator, signed, rollbacks, faults>>
  BY DEF vars, budget, limits
<1> USE <1>1, Frames DEF UpdateInv, StateType
<1>2. ProcessType' /\ rollbacks <= rollbacks'
  BY DeviceAssumption DEF ProcessType
<1>3. LockInv' /\ StagerInv'
  BY DEF LockInv, StagerInv, Expected
<1>4. ActivatorInv'
  BY DEF ActivatorInv, Receipt, Outcome
<1> QED
  BY <1>2, <1>3, <1>4, ProcessStep

-----------------------------------------------------------------------------
\* BootActivationEngine and ArtifactStager: whatever is restarted, interrupted
\* or rolled back, and in whatever order the two executables run, the journals,
\* the firmware and the slots agree.
THEOREM UpdateInvariance == Spec => []UpdateInv
<1>1. UpdateInv /\ [Next]_vars => UpdateInv'
  BY StagerSteps, ActivatorStepsInv, BootStep, ActivatorMoves, StutterStep DEF Next
<1> QED
  BY InitialInv, <1>1, PTL DEF Spec

\* The counter of systemd keeps its limit.
LEMMA UnitStep ==
    UnitType /\ [Next]_vars => UnitType'
<1> SUFFICES ASSUME UnitType, [Next]_vars PROVE UnitType'
    OBVIOUS
<1>1. /\ unit.starts \in 0..StartLimitBurst /\ unit.state \in UnitState
      /\ unit = [starts |-> unit.starts, state |-> unit.state]
  BY DEF UnitType
<1>2. CASE UNCHANGED unit
  BY <1>2 DEF UnitType
<1>3. CASE unit' = FreshUnit
  BY <1>3, DeviceAssumption DEF UnitType, FreshUnit, UnitState
<1>4. CASE ActivatorFails
  BY <1>4 DEF ActivatorFails, UnitType, UnitState
<1>5. CASE ActivatorStart \/ StartBusy
  BY <1>1, <1>5, DeviceAssumption DEF ActivatorStart, StartBusy, Startable, Started, UnitType,
     UnitState
<1>6. CASE WindowPasses \/ RollbackStart
  BY <1>6, DeviceAssumption DEF WindowPasses, RollbackStart, UnitType, UnitState
<1>7. CASE StagerNext
  BY <1>2, <1>7 DEF StagerNext, StagerStart, StagerWakes, AlreadyStaged, PullEnds, Admit,
     DownloadFails, StageReplay, StageConflict, StageIntent, StreamBegins, StreamEnds,
     StreamRejected, StageReceipt, StageUnpend, PersistCandidate, SignAudit, budget
<1>8. CASE ActivatorSteps
  <2>1. CASE \/ ReconcileIdle \/ Prepare \/ TrialDefault \/ TrialOneshot \/ TrialArmed
             \/ ObserveTrial \/ WaitForReboot \/ Promote \/ Promoted
    BY <1>2, <2>1 DEF ReconcileIdle, Prepare, TrialDefault, TrialOneshot, TrialArmed,
       ObserveTrial, WaitForReboot, Promote, Promoted, budget
  <2>2. CASE \/ RollbackPrepare \/ RevertDefault \/ RevertOneshot \/ RollbackArmed
             \/ ObserveRollback \/ NothingToRollback \/ ReconcileRefused
    BY <1>2, <1>4, <2>2 DEF RollbackPrepare, RevertDefault, RevertOneshot, RollbackArmed,
       ObserveRollback, NothingToRollback, ReconcileRefused, budget
  <2>3. CASE \/ ArchiveReceipt \/ KeepLastReceipt \/ ArchiveAudit \/ RemoveAudit
             \/ ClearStaging \/ ReleaseStaging \/ RemoveCandidate \/ RemoveState
    BY <1>2, <1>4, <2>3 DEF ArchiveReceipt, KeepLastReceipt, ArchiveAudit, RemoveAudit,
       ClearStaging, ReleaseStaging, RemoveCandidate, RemoveState, budget
  <2> QED
    BY <1>8, <2>1, <2>2, <2>3 DEF ActivatorSteps
<1>9. CASE AwaitedRestart \/ PowerLoss \/ ProcessFails \/ UNCHANGED vars
  BY <1>2, <1>3, <1>4, <1>9 DEF AwaitedRestart, PowerLoss, ProcessFails, Boot, vars, budget
<1> QED
  BY <1>5, <1>6, <1>7, <1>8, <1>9 DEF Next, ActivatorNext

\* Every file and process keeps a value of its type.
THEOREM UpdateTypes == Spec => []TypeOK
<1>1. UpdateInv /\ UnitType => TypeOK
  BY DEF UpdateInv, TypeOK
<1>2. Init => UnitType
  BY DeviceAssumption DEF Init, UnitType, FreshUnit, UnitState
<1> QED
  BY <1>1, <1>2, UnitStep, UpdateInvariance, PTL DEF Spec

\* ArtifactStager: a kept staging receipt tells what its slot holds.
THEOREM ReceiptsTellContents == Spec => []StagedIntact
<1>1. UpdateInv => StagedIntact
  BY DEF UpdateInv
<1> QED
  BY <1>1, UpdateInvariance, PTL

\* arm_trial, promote: without a local rollback the default entry is a slot
\* that came up with what it holds.
THEOREM DefaultComesUp == Spec => []DefaultProven
<1>1. UpdateInv => DefaultProven
  BY DEF UpdateInv
<1> QED
  BY <1>1, UpdateInvariance, PTL

\* arm_trial: no slot is tried that the journal does not record, with the
\* release it records.
THEOREM TrialsAreRecorded == Spec => []TrialRecorded
<1>1. UpdateInv => TrialRecorded
  BY DEF UpdateInv
<1> QED
  BY <1>1, UpdateInvariance, PTL

\* finalize: a recorded outcome and the default entry agree.
THEOREM OutcomesAreTrue == Spec => []OutcomeTruthful
<1>1. UpdateInv => OutcomeTruthful
  BY DEF UpdateInv
<1> QED
  BY <1>1, UpdateInvariance, PTL

\* Only a stream writes a slot, and only the inactive one, while no staging
\* receipt is kept.
LEMMA SlotWrites ==
    ASSUME UpdateInv, [Next]_vars
    PROVE  \/ image' = image
           \/ /\ staged = NoBinding /\ receipts' = receipts
              /\ \E written \in {Torn, checkpoint} :
                    image' = [image EXCEPT ![Inactive(current)] = written]
<1>1. CASE StreamBegins
  BY <1>1, Frames DEF StreamBegins, UpdateInv, StagerInv
<1>2. CASE StreamEnds
  <2>1. stager.offered = checkpoint /\ staged = NoBinding
    BY <1>2 DEF StreamEnds, UpdateInv, StagerInv
  <2> QED
    BY <1>2, <2>1 DEF StreamEnds, records, archive
<1>3. CASE StagerNext /\ ~StreamBegins /\ ~StreamEnds
  BY <1>3, Frames DEF StagerNext, StagerStart, StagerWakes, AlreadyStaged, PullEnds, Admit,
     DownloadFails, StageReplay, StageConflict, StageIntent, StreamRejected, StageReceipt,
     StageUnpend, PersistCandidate, SignAudit
<1>4. CASE \/ ActivatorStart \/ StartBusy \/ WindowPasses \/ RollbackStart \/ ReconcileIdle \/ Prepare \/ TrialDefault
           \/ TrialOneshot \/ TrialArmed \/ ObserveTrial \/ WaitForReboot \/ Promote
           \/ Promoted \/ ReconcileRefused
  BY <1>4, Frames DEF ActivatorStart, StartBusy, WindowPasses, RollbackStart, ReconcileIdle, Prepare, TrialDefault,
     TrialOneshot, TrialArmed, ObserveTrial, WaitForReboot, Promote, Promoted,
     ReconcileRefused
<1>5. CASE RollbackPrepare \/ NothingToRollback \/ RevertDefault \/ RevertOneshot
           \/ RollbackArmed \/ ObserveRollback
  BY <1>5, Frames DEF RollbackPrepare, NothingToRollback, RevertDefault, RevertOneshot,
     RollbackArmed, ObserveRollback
<1>6. CASE ArchiveReceipt \/ KeepLastReceipt \/ ArchiveAudit \/ RemoveAudit \/ ClearStaging
           \/ ReleaseStaging \/ RemoveCandidate \/ RemoveState
  BY <1>6, Frames DEF ArchiveReceipt, KeepLastReceipt, ArchiveAudit, RemoveAudit,
     ClearStaging, ReleaseStaging, RemoveCandidate, RemoveState
<1>7. CASE AwaitedRestart \/ PowerLoss \/ ProcessFails \/ UNCHANGED vars
  BY <1>7, Frames DEF AwaitedRestart, PowerLoss, ProcessFails, Boot, vars
<1> QED
  BY <1>1, <1>2, <1>3, <1>4, <1>5, <1>6, <1>7 DEF Next, ActivatorNext, ActivatorSteps

\* From Prepared until the trial is decided nothing writes the slot to fall
\* back to.
THEOREM FallbackIsKept == Spec => FallbackKept
<1>1. UpdateInv /\ [Next]_vars =>
        [activation.phase \in {"Prepared", "Armed", "PromotePrepared"} =>
           image'[KnownGood(activation.candidate)] = image[KnownGood(activation.candidate)]]_vars
  <2> SUFFICES ASSUME UpdateInv, [Next]_vars, Phase \in Trial
               PROVE  image' = image
    OBVIOUS
  <2>1. staged # NoBinding
    BY NothingStaged
  <2> QED
    BY <2>1, SlotWrites
<1> QED
  BY <1>1, UpdateInvariance, PTL DEF Spec, FallbackKept

\* admit_update: no slot is written with a release older than one that has a
\* terminal receipt.
THEOREM NeverDowngraded == Spec => NoDowngrade
<1>1. UpdateInv /\ [Next]_vars =>
        [\A slot \in Slots : image'[slot] # image[slot] /\ image'[slot] \in Releases =>
            \A receipt \in receipts : receipt.candidate.sequence <= image'[slot]]_vars
  <2> SUFFICES ASSUME UpdateInv, [Next]_vars, NEW slot \in Slots,
                      image'[slot] # image[slot], image'[slot] \in Releases,
                      NEW receipt \in receipts
               PROVE  receipt.candidate.sequence <= image'[slot]
    OBVIOUS
  <2>1. image \in [Slots -> Images] /\ receipt.candidate.sequence <= checkpoint
    BY DEF UpdateInv, StateType, DeviceType, SequenceInv
  <2>2. PICK written \in {Torn, checkpoint} :
            image' = [image EXCEPT ![Inactive(current)] = written]
    BY SlotWrites
  <2>3. image'[slot] = written
    BY <2>1, <2>2
  <2>4. Torn \notin Releases
    BY DeviceAssumption DEF Torn, Releases
  <2> QED
    BY <2>1, <2>3, <2>4
<1> QED
  BY <1>1, UpdateInvariance, PTL DEF Spec, NoDowngrade
=============================================================================

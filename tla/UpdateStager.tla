----------------------------- MODULE UpdateStager -----------------------------
(***************************************************************************)
(* kernaid-fleet-resident-update: one cycle of ResidentUpdateEngine pulls  *)
(* the signed releases offered to the device, admits the newest one        *)
(* against the anti-rollback checkpoint, streams it into the inactive slot *)
(* under a durable staging checkpoint and leaves an activation candidate   *)
(* and a signed audit receipt behind.  The service holds the device lock   *)
(* between two cycles too.                                                 *)
(***************************************************************************)
EXTENDS ResidentDevice

\* run_service returns on an error, after a staged update, and with --once.
StagerAt(pc) == stager' = [stager EXCEPT !.pc = pc]
StagerExit   == StagerAt("stopped")
StagerRests  == StagerAt(IF Once THEN "stopped" ELSE "sleeping")

StagerStart ==
    /\ LockFree /\ current # NoSlot
    /\ StagerAt("cycle")
    /\ UNCHANGED <<platform, disk, activator, budget>>

StagerWakes ==
    /\ stager.pc = "sleeping"
    /\ StagerAt("cycle")
    /\ UNCHANGED <<platform, disk, activator, budget>>

\* A retained audit receipt ends the cycle before any network call; it must
\* be bound to the completed staging receipt.
AlreadyStaged ==
    /\ stager.pc = "cycle" /\ audit # NoAudit
    /\ IF Completed(audit.staged) THEN StagerRests ELSE StagerExit
    /\ UNCHANGED <<platform, disk, activator, budget>>

\* Nothing is offered, or the pull ends in an error: transport, entitlement,
\* eligibility, or a sequence below the checkpoint.
PullEnds ==
    /\ stager.pc = "cycle" /\ audit = NoAudit
    /\ StagerRests \/ StagerExit
    /\ UNCHANGED <<platform, disk, activator, budget>>

\* Mutant of Admit: the anti-rollback comparison is dropped.
AdmitsOlder(sequence) ==
    /\ stager.pc = "cycle" /\ audit = NoAudit /\ signed < MaxSigned
    /\ checkpoint' = sequence
    /\ stager' = [pc |-> "stage", offered |-> sequence]
    /\ UNCHANGED <<platform, staging, candidate, audit, archive, activation, activator, budget>>

\* admit_update and persist_checkpoint: a higher sequence or the same again.
Admit(sequence) ==
    /\ stager.pc = "cycle" /\ audit = NoAudit /\ signed < MaxSigned
    /\ sequence >= checkpoint
    /\ checkpoint' = sequence
    /\ stager' = [pc |-> "stage", offered |-> sequence]
    /\ UNCHANGED <<platform, staging, candidate, audit, archive, activation, activator,
                   budget>>

-----------------------------------------------------------------------------
\* ArtifactStager::stage, for the slot opposite to the running one.
Expected == [sequence |-> stager.offered, target |-> Inactive(current)]

\* The artifact is fetched only when no receipt is retained; a failed fetch
\* comes after the sequence was admitted and before the slot is touched.
DownloadFails ==
    /\ stager.pc = "stage" /\ staged = NoBinding
    /\ StagerExit
    /\ UNCHANGED <<platform, disk, activator, budget>>

\* An exact receipt is returned as it is.
StageReplay ==
    /\ stager.pc = "stage" /\ staged = Expected
    /\ StagerAt("candidate")
    /\ UNCHANGED <<platform, disk, activator, budget>>

\* The receipt or the interrupted checkpoint belongs to another binding.
StageConflict ==
    /\ stager.pc = "stage"
    /\ IF staged # NoBinding THEN staged # Expected
                             ELSE pending \notin {NoBinding, Expected}
    /\ StagerExit
    /\ UNCHANGED <<platform, disk, activator, budget>>

\* Mutant of StageIntent: only a receipt for the slot to write stops the write.
IntentOverOtherSlot ==
    /\ stager.pc = "stage" /\ staged.target # Expected.target
    /\ pending \in {NoBinding, Expected}
    /\ pending' = Expected
    /\ StagerAt("stream")
    /\ UNCHANGED <<platform, checkpoint, staged, candidate, audit, archive, activation,
                   activator, budget>>

\* Mutant of StageIntent: the receipt is written before the stream.
ReceiptBeforeStream ==
    /\ stager.pc = "stage" /\ staged = NoBinding
    /\ pending \in {NoBinding, Expected}
    /\ staged' = Expected
    /\ StagerAt("stream")
    /\ UNCHANGED <<platform, checkpoint, pending, candidate, audit, archive, activation,
                   activator, budget>>

\* The durable intent comes before any destination byte.
StageIntent ==
    /\ stager.pc = "stage" /\ staged = NoBinding
    /\ pending \in {NoBinding, Expected}
    /\ pending' = Expected
    /\ StagerAt("stream")
    /\ UNCHANGED <<platform, checkpoint, staged, candidate, audit, archive, activation,
                   activator, budget>>

\* stage_exact_stream truncates the slot, then copies, syncs and reads back.
StreamBegins ==
    /\ stager.pc = "stream"
    /\ image' = [image EXCEPT ![Inactive(current)] = Torn]
    /\ proven' = proven \ {Inactive(current)}
    /\ StagerAt("streaming")
    /\ UNCHANGED <<current, boot, firmware, disk, activator, budget>>

StreamEnds ==
    /\ stager.pc = "streaming"
    /\ image' = [image EXCEPT ![Inactive(current)] = stager.offered]
    /\ StagerAt("receipt")
    /\ UNCHANGED <<machine, firmware, records, activation, activator, budget>>

\* A short, long or wrong stream: cleanup_failed_write leaves the slot empty.
StreamRejected ==
    /\ stager.pc = "streaming"
    /\ StagerExit
    /\ UNCHANGED <<platform, disk, activator, budget>>

StageReceipt ==
    /\ stager.pc = "receipt"
    /\ staged' = Expected
    /\ StagerAt("unpend")
    /\ UNCHANGED <<platform, checkpoint, pending, candidate, audit, archive, activation,
                   activator, budget>>

StageUnpend ==
    /\ stager.pc = "unpend"
    /\ pending' = NoBinding
    /\ StagerAt("candidate")
    /\ UNCHANGED <<platform, checkpoint, staged, candidate, audit, archive, activation,
                   activator, budget>>

\* persist_candidate: the same candidate again is accepted; a new one only
\* while no activation is recorded.
PersistCandidate ==
    /\ stager.pc = "candidate"
    /\ \/ candidate = Expected /\ UNCHANGED candidate /\ StagerAt("audit")
       \/ /\ candidate = NoBinding /\ activation = NoState
          /\ candidate' = Expected
          /\ StagerAt("audit")
       \/ /\ candidate # Expected
          /\ candidate # NoBinding \/ activation # NoState
          /\ UNCHANGED candidate
          /\ StagerExit
    /\ UNCHANGED <<platform, checkpoint, staging, audit, archive, activation, activator,
                   budget>>

\* The signed audit receipt, after which the service returns.
SignAudit ==
    /\ stager.pc = "audit"
    /\ audit' = [staged |-> staged, stagedAt |-> signed + 1]
    /\ signed' = signed + 1
    /\ StagerExit
    /\ UNCHANGED <<platform, checkpoint, staging, candidate, archive, activation,
                   activator, rollbacks, faults, unit>>

StagerNext ==
    \/ StagerStart \/ StagerWakes \/ AlreadyStaged \/ PullEnds
    \/ \E sequence \in Releases : Admit(sequence)
    \/ DownloadFails \/ StageReplay \/ StageConflict \/ StageIntent
    \/ StreamBegins \/ StreamEnds \/ StreamRejected
    \/ StageReceipt \/ StageUnpend \/ PersistCandidate \/ SignAudit
=============================================================================

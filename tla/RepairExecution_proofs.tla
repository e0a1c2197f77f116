----------------------- MODULE RepairExecution_proofs -----------------------
(***************************************************************************)
(* The repair service, for any number of reservations, faults, deaths,     *)
(* power losses and edits.  Four invariants build on each other: who may   *)
(* write (ExecutionInv), what the step in progress knows of the disk       *)
(* (DiskInv), how the repairs of one file stack (ChainInv), and what the   *)
(* service reports (ReportInv).                                            *)
(***************************************************************************)
EXTENDS RepairExecution, TLAPS

(***************************************************************************)
(* The inductive invariant.                                                *)
(***************************************************************************)
Content == Ids \cup {Original, Foreign, Partial, NoFile}

FileType ==
    /\ before \in [Ids -> Content]
    /\ dir \in Directory /\ possible \subseteq Directory /\ dir \in possible

JobType == service \in [phase : ServicePhase, receipt : Receipt] /\ worker \in Job

BoundType == faults \in 0..MaxFaults /\ stops \in 0..MaxStops /\ edits \in 0..MaxEdits

\* The steps a job may hold the writable mount at.
WriteSteps == {"refresh", "close", "release"} \cup ApplySteps \cup RestoreSteps

\* Phases in which no job runs.
Resting == {"down", "idle", "prepared", "rollbackPrepared", "terminal"}

\* A job runs exactly in the phases that say so, and only recovery has no transaction yet.
JobOwned ==
    /\ worker.at = "none" <=> service.phase \in Resting
    /\ (worker.at \notin {"none", "recover"} \/ service.phase \in {"prepared", "rollbackPrepared"})
         => worker.id \in Ids

\* The writable mount belongs to the step in progress, which makes WriteAuthority
\* inductive: no step of these changes the Vault.
MountOwned == mount = "rw" => worker.at \in WriteSteps

ExecutionInv ==
    /\ VaultTypeOK /\ FileType /\ mount \in {"none", "ro", "rw"} /\ JobType /\ BoundType
    /\ JobOwned /\ MountOwned /\ WriteAuthority

\* The groups are the type invariant.
LEMMA InvariantTyped == ExecutionInv => TypeOK
BY DEF ExecutionInv, TypeOK, FileType, JobType, BoundType, Content

(***************************************************************************)
(* Building blocks.                                                        *)
(***************************************************************************)
\* Every operation of the Vault keeps its records well formed.
LEMMA VaultKept ==
    ASSUME VaultTypeOK, NEW id, NEW outcome, NEW kind,
           \/ Reserve(id) \/ Persist(id) \/ CancelReservation(id)
           \/ ConsumeLease(kind, id) \/ Record(kind, id, outcome)
           \/ BeginChild(id) \/ NextBoot \/ UNCHANGED vaultVars
    PROVE  VaultTypeOK'
<1>1. CASE Reserve(id) \/ Persist(id) \/ BeginChild(id)
  BY <1>1 DEF Reserve, Persist, BeginChild, VaultTypeOK, TransactionStatus, Phase, ChildPhase
<1>2. CASE CancelReservation(id)
  BY <1>2 DEF CancelReservation, VaultTypeOK, TransactionStatus, Phase, ChildPhase, FreeSlot
<1>3. CASE ConsumeLease(kind, id)
  BY <1>3 DEF ConsumeLease, Lease, LeaseChild, VaultTypeOK, TransactionStatus
<1>4. CASE Record(kind, id, outcome)
  BY <1>4 DEF Record, Resolve, ResolveChild, VaultTypeOK, TransactionStatus, Phase, ChildPhase
<1>5. CASE NextBoot \/ UNCHANGED vaultVars
  BY <1>5 DEF NextBoot, vaultVars, VaultTypeOK
<1>. QED  BY <1>1, <1>2, <1>3, <1>4, <1>5

\* Files named by a job.
LEMMA DirectoryChanges ==
    ASSUME NEW d \in Directory, NEW id \in Ids, NEW content \in Content
    PROVE  /\ Stage(d, id, content) \in Directory
           /\ Restore(d, id, content) \in Directory
           /\ [d EXCEPT !.target = content] \in Directory
           /\ CleanStage(d, id, content) \in Directory
           /\ Exchanged(d, id) \in Directory /\ ExchangedBack(d, id) \in Directory
           /\ Stage(d, id, NoFile) \in Directory /\ Restore(d, id, NoFile) \in Directory
           /\ Stage(d, id, Partial) \in Directory /\ Restore(d, id, Partial) \in Directory
           /\ Stage(d, id, After(id)) \in Directory
<1>1. Directory = [target : Content, stage : [Ids -> Content], restore : [Ids -> Content]]
  BY DEF Directory, Content
<1>2. ASSUME NEW e \in Directory, NEW c \in Content
      PROVE  /\ Stage(e, id, c) \in Directory /\ Restore(e, id, c) \in Directory
             /\ [e EXCEPT !.target = c] \in Directory
  BY <1>1 DEF Stage, Restore
<1>3. NoFile \in Content /\ Partial \in Content /\ After(id) \in Content
  BY DEF Content, After
<1>4. d.target \in Content /\ d.stage[id] \in Content /\ d.restore[id] \in Content
  BY <1>1
<1>5. Exchanged(d, id) \in Directory /\ ExchangedBack(d, id) \in Directory
  BY <1>2, <1>4 DEF Exchanged, ExchangedBack
<1>6. CleanStage(d, id, content) \in Directory
  BY <1>2, <1>3 DEF CleanStage
<1>. QED  BY <1>2, <1>3, <1>5, <1>6

\* Written or synchronized, a directory replaces a directory, and is among the possible ones.
LEMMA FilesWritten ==
    ASSUME FileType, NEW d \in Directory, Written(d) \/ Synced(d), before' = before
    PROVE  FileType'
BY DEF FileType, Written, Synced

\* Files that are left alone stay well formed.
LEMMA FilesKept ==
    ASSUME FileType, UNCHANGED <<before, disk>>
    PROVE  FileType'
BY DEF FileType, disk

\* A fault stays within its bound.
LEMMA FaultCounted == ASSUME BoundType, Fault \/ UNCHANGED bounds PROVE BoundType'
BY ExecutionAssumption DEF BoundType, Fault, bounds

\* The resting job and the fixed receipts are well formed.
LEMMA NoJobType == NoJob \in Job /\ NoJob.at = "none" /\ NoReceipt \in Receipt /\ Failed \in Receipt
BY DEF NoJob, NewJob, Job, Step, NoReceipt, Failed, Receipt

\* So is every new job.
LEMMA NewJobType ==
    ASSUME NEW at \in Step, NEW id \in Ids \cup {NoId}, NEW kind \in {"repair", "rollback"},
           NEW origin \in {"execute", "recovery"}
    PROVE  /\ NewJob(at, id, kind, origin) \in Job
           /\ NewJob(at, id, kind, origin).at = at
           /\ NewJob(at, id, kind, origin).id = id
BY DEF NewJob, Job

\* A step that leaves the target without a writable mount.
LEMMA Unwritable ==
    ASSUME mount' # "rw" PROVE MountOwned' /\ WriteAuthority'
BY DEF MountOwned, WriteAuthority

\* The mount is not writable outside of the steps that own it.
LEMMA NotWriting ==
    ASSUME ExecutionInv, worker.at \notin WriteSteps,
           mount' \in {"none", "ro"} \/ mount' = mount
    PROVE  mount' \in {"none", "ro"}
BY DEF ExecutionInv, MountOwned

\* A job that ends leaves the service at rest.
LEMMA Finishes ==
    ASSUME NEW receipt \in Receipt, Ends(receipt)
    PROVE  JobType' /\ JobOwned'
<1>1. service' = [phase |-> "terminal", receipt |-> receipt] /\ worker' = NoJob
  BY DEF Ends, Shows
<1>. QED  BY <1>1, NoJobType DEF JobType, JobOwned, ServicePhase, Resting

\* The executor's error path, whatever step it leaves.
LEMMA ErrorStep ==
    ASSUME ExecutionInv, worker.at # "none", NEW d \in Directory, Error(d),
           VaultTypeOK', before' = before, BoundType'
    PROVE  ExecutionInv'
<1>1. FileType' /\ mount' = "none"
  BY FilesWritten DEF Error, Unmounted, ExecutionInv
<1>2. JobType' /\ JobOwned'
  <2>1. CASE worker.origin = "execute"
    <3>1. worker' = NewJob("recover", NoId, worker.kind, "recovery") /\ service' = service
      BY <2>1 DEF Error
    <3>2. worker.kind \in {"repair", "rollback"}
      BY DEF ExecutionInv, JobType, Job
    <3>3. worker' \in Job /\ worker'.at = "recover"
      BY <3>1, <3>2, NewJobType DEF Step
    <3>. QED  BY <3>1, <3>3 DEF ExecutionInv, JobType, JobOwned, Resting
  <2>2. CASE worker.origin # "execute"
    <3>1. RecoveryFails
      BY <2>2 DEF Error
    <3>2. CASE service.phase = "starting"
      <4>1. service' = [phase |-> "down", receipt |-> NoReceipt] /\ worker' = NoJob
        BY <3>1, <3>2 DEF RecoveryFails, Shows
      <4>. QED  BY <4>1, NoJobType DEF JobType, JobOwned, ServicePhase, Resting
    <3>3. CASE service.phase = "executing"
      <4>1. [outcome |-> "manual", id |-> NoId] \in Receipt
        BY DEF Receipt
      <4>2. Ends([outcome |-> "manual", id |-> NoId])
        BY <3>1, <3>3 DEF RecoveryFails
      <4>. QED  BY <4>1, <4>2, Finishes
    <3>4. CASE service.phase \notin {"starting", "executing"}
      BY <3>1, <3>4, NoJobType, Finishes DEF RecoveryFails
    <3>. QED  BY <3>2, <3>3, <3>4
  <2>. QED  BY <2>1, <2>2
<1>. QED  BY <1>1, <1>2, Unwritable DEF ExecutionInv

\* A step of a job under the writable mount, or towards its release.
LEMMA WorkStep ==
    ASSUME ExecutionInv, worker.at \in WriteSteps, NEW to \in WriteSteps,
           NEW outcome \in {"none", "committed", "closed", "rolledBack", "manual"},
           worker' = [worker EXCEPT !.at = to, !.outcome = outcome],
           UNCHANGED <<vaultVars, mount, service>>, FileType', BoundType'
    PROVE  ExecutionInv'
<1>1. worker' \in Job /\ worker'.at = to /\ worker'.id = worker.id
      /\ worker'.kind = worker.kind
  BY DEF ExecutionInv, JobType, Job, WriteSteps, ApplySteps, RestoreSteps, Step
<1>2. JobType' /\ JobOwned'
  <2>1. worker.at \notin {"none", "recover"} /\ to \notin {"none", "recover"}
    BY DEF WriteSteps, ApplySteps, RestoreSteps
  <2>. QED  BY <1>1, <2>1 DEF ExecutionInv, JobType, JobOwned
<1>3. VaultTypeOK' /\ tx' = tx /\ boot' = boot
  BY DEF ExecutionInv, VaultTypeOK, vaultVars
<1>4. MountOwned' /\ WriteAuthority'
  <2>1. Status(worker.kind, worker.id)' = Status(worker.kind, worker.id)
        /\ LeaseOf(worker.kind, worker.id)' = LeaseOf(worker.kind, worker.id)
    BY <1>1, <1>3 DEF Status, LeaseOf
  <2>. QED  BY <1>1, <1>3, <2>1 DEF ExecutionInv, MountOwned, WriteAuthority
<1>. QED  BY <1>2, <1>3, <1>4 DEF ExecutionInv

\* The job's own step, named.
LEMMA GotoStep ==
    ASSUME ExecutionInv, worker.at \in WriteSteps, NEW to \in WriteSteps, Goto(to),
           UNCHANGED <<vaultVars, mount, service>>, FileType', BoundType'
    PROVE  ExecutionInv'
<1>1. worker.outcome \in {"none", "committed", "closed", "rolledBack", "manual"}
      /\ worker' = [worker EXCEPT !.at = to, !.outcome = worker.outcome]
  BY DEF Goto, ExecutionInv, JobType, Job
<1>. QED  BY <1>1, WorkStep

\* The job's outcome is decided.
LEMMA DecideStep ==
    ASSUME ExecutionInv, worker.at \in WriteSteps,
           NEW outcome \in {"committed", "closed", "rolledBack", "manual"}, Decides(outcome),
           UNCHANGED <<vaultVars, mount, service>>, FileType', BoundType'
    PROVE  ExecutionInv'
BY WorkStep DEF Decides, WriteSteps

\* A step outside of the writable mount.
LEMMA PlainStep ==
    ASSUME ExecutionInv, worker.at \notin WriteSteps,
           mount' \in {"none", "ro"} \/ mount' = mount,
           VaultTypeOK', FileType', JobType', JobOwned', BoundType'
    PROVE  ExecutionInv'
<1>1. mount' \in {"none", "ro"}
  BY NotWriting
<1>. QED  BY <1>1, Unwritable DEF ExecutionInv

\* A job goes on to its next step.
LEMMA Advances ==
    ASSUME ExecutionInv, worker.id \in Ids, NEW to \in Step \ {"none"}, Goto(to),
           service' \in [phase : ServicePhase, receipt : Receipt], service'.phase \notin Resting
    PROVE  JobType' /\ JobOwned'
<1>1. worker' \in Job /\ worker'.at = to /\ worker'.id = worker.id
  BY DEF Goto, ExecutionInv, JobType, Job
<1>. QED  BY <1>1 DEF JobType, JobOwned, Resting

\* The phase shown, with its receipt.
LEMMA ShowsType ==
    ASSUME NEW phase \in ServicePhase, NEW receipt \in Receipt, Shows(phase, receipt)
    PROVE  /\ service' \in [phase : ServicePhase, receipt : Receipt]
           /\ service'.phase = phase
BY DEF Shows

\* A new job, in a phase in which one runs.
LEMMA Begins ==
    ASSUME NEW at \in Step \ {"none"}, NEW id \in Ids \cup {NoId},
           NEW kind \in {"repair", "rollback"}, NEW origin \in {"execute", "recovery"},
           at = "recover" \/ id \in Ids,
           worker' = NewJob(at, id, kind, origin),
           service' \in [phase : ServicePhase, receipt : Receipt], service'.phase \notin Resting
    PROVE  JobType' /\ JobOwned'
<1>1. worker' \in Job /\ worker'.at = at /\ worker'.id = id
  BY NewJobType
<1>. QED  BY <1>1 DEF JobType, JobOwned, Resting

\* Reports and rests.
LEMMA Rests ==
    ASSUME NEW phase \in {"down", "idle", "terminal"}, NEW receipt \in Receipt,
           Shows(phase, receipt), worker' = NoJob
    PROVE  JobType' /\ JobOwned'
<1>1. service' \in [phase : ServicePhase, receipt : Receipt] /\ service'.phase = phase
  BY ShowsType DEF ServicePhase
<1>. QED  BY <1>1, NoJobType DEF JobType, JobOwned, Resting

(***************************************************************************)
(* The actions.                                                            *)
(***************************************************************************)
LEMMA RequestSteps == ASSUME ExecutionInv, Requests PROVE ExecutionInv'
<1>1. /\ service \in [phase : ServicePhase, receipt : Receipt]
      /\ service.receipt \in Receipt /\ NoReceipt \in Receipt
  BY NoJobType DEF ExecutionInv, JobType
<1>2. /\ UNCHANGED <<vaultVars, before, disk, bounds>>
      /\ mount' \in {"none", "ro"} \/ mount' = mount
      /\ service.phase \in Resting
  BY DEF Requests, RequestPrepare, RequestRollback, RequestDecision, RequestRollbackApproval,
     CancelRollback, Resting
<1>3. VaultTypeOK' /\ FileType' /\ BoundType'
  BY <1>2, FilesKept, FaultCounted DEF ExecutionInv, VaultTypeOK, vaultVars
<1>4. worker.at = "none" /\ worker.at \notin WriteSteps
  BY <1>2 DEF ExecutionInv, JobOwned, WriteSteps, ApplySteps, RestoreSteps
<1>5. JobType' /\ JobOwned'
  <2>1. ASSUME NEW id \in Ids, RequestPrepare(id) PROVE JobType' /\ JobOwned'
    <3>1. /\ service' \in [phase : ServicePhase, receipt : Receipt]
          /\ service'.phase \notin Resting
      BY <1>1, <2>1, ShowsType DEF RequestPrepare, ServicePhase, Resting
    <3>. QED  BY <2>1, <3>1, Begins DEF RequestPrepare, Step
  <2>2. ASSUME NEW id \in Ids, RequestRollback(id) PROVE JobType' /\ JobOwned'
    <3>1. /\ service' \in [phase : ServicePhase, receipt : Receipt]
          /\ service'.phase \notin Resting
      BY <1>1, <2>2, ShowsType DEF RequestRollback, ServicePhase, Resting
    <3>. QED  BY <2>2, <3>1, Begins DEF RequestRollback, Step
  <2>3. ASSUME NEW step \in {"persist", "cancel"}, RequestDecision(step)
        PROVE  JobType' /\ JobOwned'
    <3>1. /\ service' \in [phase : ServicePhase, receipt : Receipt]
          /\ service'.phase \notin Resting
      BY <1>1, <2>3, ShowsType DEF RequestDecision, ServicePhase, Resting
    <3>2. worker.id \in Ids /\ step \in Step \ {"none"}
      BY <2>3 DEF RequestDecision, ExecutionInv, JobOwned, Step
    <3>. QED  BY <2>3, <3>1, <3>2, Advances DEF RequestDecision
  <2>4. CASE RequestRollbackApproval
    <3>1. /\ service' \in [phase : ServicePhase, receipt : Receipt]
          /\ service'.phase \notin Resting
      BY <1>1, <2>4, ShowsType DEF RequestRollbackApproval, ServicePhase, Resting
    <3>2. worker.id \in Ids /\ "authorize" \in Step \ {"none"}
      BY <2>4 DEF RequestRollbackApproval, ExecutionInv, JobOwned, Step
    <3>. QED  BY <2>4, <3>1, <3>2, Advances DEF RequestRollbackApproval
  <2>5. CASE CancelRollback
    BY <1>1, <2>5, Finishes DEF CancelRollback
  <2>. QED  BY <2>1, <2>2, <2>3, <2>4, <2>5 DEF Requests
<1>. QED  BY <1>2, <1>3, <1>4, <1>5, PlainStep

\* The steps without a writable mount: what they ask of the Vault and how they end.
LEMMA PreparationSteps ==
    ASSUME ExecutionInv,
           \/ PrepareRepair \/ CancelPrepared \/ PersistPending \/ PrepareRollback
           \/ AuthorizeRollback \/ ResolvePending \/ NothingToRecover \/ Classify
           \/ PrepareFails \/ DecisionFails \/ RollbackUnavailable
           \/ AuthorizeRefused \/ AuthorizeFails
    PROVE  ExecutionInv'
<1>1. /\ service \in [phase : ServicePhase, receipt : Receipt]
      /\ service.receipt \in Receipt /\ NoReceipt \in Receipt /\ Failed \in Receipt
      /\ worker \in Job
  BY NoJobType DEF ExecutionInv, JobType
<1>2. /\ worker.at \in {"prepare", "cancel", "persist", "authorize", "resolve", "recover"}
      /\ mount' \in {"none", "ro"} \/ mount' = mount
      /\ UNCHANGED disk
  BY DEF PrepareRepair, CancelPrepared, PersistPending, PrepareRollback, AuthorizeRollback,
     ResolvePending, NothingToRecover, Classify, PrepareFails, DecisionFails,
     RollbackUnavailable, AuthorizeRefused, AuthorizeFails, At
<1>3. worker.at \notin WriteSteps /\ worker.at # "none" /\ service.phase \notin Resting
      /\ (worker.at = "recover" \/ worker.id \in Ids)
  BY <1>2 DEF ExecutionInv, JobOwned, WriteSteps, ApplySteps, RestoreSteps
<1>4. BoundType'
  BY FaultCounted DEF ExecutionInv, PrepareRepair, CancelPrepared, PersistPending,
     PrepareRollback, AuthorizeRollback, ResolvePending, NothingToRecover, Classify,
     PrepareFails, DecisionFails, RollbackUnavailable, AuthorizeRefused, AuthorizeFails
<1>5. VaultTypeOK'
  BY VaultKept DEF ExecutionInv, PrepareRepair, CancelPrepared, PersistPending,
     PrepareRollback, AuthorizeRollback, ResolvePending, NothingToRecover, Classify,
     PrepareFails, DecisionFails, RollbackUnavailable, AuthorizeRefused, AuthorizeFails
<1>6. FileType'
  <2>1. CASE PrepareRepair
    <3>1. dir.target \in Content
      BY DEF ExecutionInv, FileType, Directory, Content
    <3>. QED  BY <1>2, <2>1, <3>1 DEF PrepareRepair, ExecutionInv, FileType, disk
  <2>2. CASE ~PrepareRepair
    <3>1. before' = before
      BY <2>2 DEF CancelPrepared, PersistPending, PrepareRollback, AuthorizeRollback,
         ResolvePending, NothingToRecover, Classify, PrepareFails, DecisionFails,
         RollbackUnavailable, AuthorizeRefused, AuthorizeFails
    <3>. QED  BY <1>2, <3>1, FilesKept DEF ExecutionInv
  <2>. QED  BY <2>1, <2>2
<1>7. JobType' /\ JobOwned'
  <2>1. CASE PrepareRepair \/ PrepareRollback
    <3>1. PICK phase \in {"prepared", "rollbackPrepared"}, receipt \in Receipt :
            Shows(phase, receipt) /\ Goto("none") /\ At("prepare")
      <4>1. [outcome |-> "committed", id |-> worker.id] \in Receipt
        BY <1>1 DEF Receipt, Job
      <4>. QED  BY <1>1, <2>1, <4>1 DEF PrepareRepair, PrepareRollback
    <3>2. service' \in [phase : ServicePhase, receipt : Receipt] /\ service'.phase = phase
      BY <3>1, ShowsType DEF ServicePhase
    <3>3. worker.id \in Ids /\ worker' \in Job /\ worker'.at = "none" /\ worker'.id = worker.id
      BY <1>1, <1>3, <3>1 DEF Goto, At, Job, Step
    <3>. QED  BY <3>2, <3>3 DEF JobType, JobOwned, Resting
  <2>2. CASE PersistPending
    <3>1. worker.id \in Ids /\ service' = service /\ Goto("acquire")
      BY <1>3, <2>2 DEF PersistPending, At
    <3>. QED  BY <1>1, <1>3, <3>1, Advances DEF Step
  <2>3. CASE AuthorizeRollback
    <3>1. service' = service /\ worker' = NewJob("recover", NoId, "rollback", "execute")
      BY <2>3 DEF AuthorizeRollback
    <3>. QED  BY <1>1, <1>3, <3>1, Begins DEF Step
  <2>4. CASE CancelPrepared
    <3>1. [outcome |-> "cancelled", id |-> NoId] \in Receipt
      BY DEF Receipt
    <3>. QED  BY <2>4, <3>1, Finishes DEF CancelPrepared
  <2>5. CASE ResolvePending
    <3>1. [outcome |-> worker.outcome, id |-> worker.id] \in Receipt
      BY <1>1 DEF Receipt, Job
    <3>. QED  BY <2>5, <3>1, Finishes DEF ResolvePending
  <2>6. CASE PrepareFails \/ DecisionFails \/ AuthorizeRefused \/ AuthorizeFails
    <3>1. Ends(Failed) \/ Ends(service.receipt)
      BY <2>6 DEF PrepareFails, DecisionFails, AuthorizeRefused, AuthorizeFails
    <3>. QED  BY <1>1, <3>1, Finishes
  <2>7. CASE RollbackUnavailable
    <3>1. PICK phase \in {"idle", "terminal"} : Shows(phase, service.receipt)
      BY <2>7 DEF RollbackUnavailable
    <3>. QED  BY <1>1, <2>7, <3>1, Rests DEF RollbackUnavailable
  <2>8. CASE NothingToRecover
    <3>1. \/ Ends(Failed)
          \/ worker' = NewJob("recover", NoId, "repair", "recovery") /\ service' = service
          \/ Shows("idle", NoReceipt) /\ worker' = NoJob
      BY <2>8 DEF NothingToRecover
    <3>. QED  BY <1>1, <1>3, <3>1, Finishes, Begins, Rests DEF Step
  <2>9. CASE Classify
    <3>1. PICK id \in Open(worker.kind) :
            \/ Ends([outcome |-> "manual", id |-> id])
            \/ /\ service' = service
               /\ \/ \E outcome \in {"closed", "rolledBack", "manual"} :
                        worker' = [[worker EXCEPT !.id = id]
                                      EXCEPT !.at = "resolve", !.outcome = outcome]
                  \/ worker' = [[worker EXCEPT !.id = id] EXCEPT !.at = "acquire"]
      BY <2>9 DEF Classify, Restored
    <3>2. id \in Ids
      BY DEF Open, UnresolvedRepairs, UnresolvedRollbacks
    <3>3. CASE Ends([outcome |-> "manual", id |-> id])
      <4>1. [outcome |-> "manual", id |-> id] \in Receipt
        BY <3>2 DEF Receipt
      <4>. QED  BY <3>3, <4>1, Finishes
    <3>4. CASE service' = service /\ \E outcome \in {"closed", "rolledBack", "manual"} :
                  worker' = [[worker EXCEPT !.id = id]
                                EXCEPT !.at = "resolve", !.outcome = outcome]
      <4>1. worker' \in Job /\ worker'.at = "resolve" /\ worker'.id = id
        BY <1>1, <3>2, <3>4 DEF Job, Step
      <4>. QED  BY <1>1, <1>3, <3>2, <3>4, <4>1 DEF JobType, JobOwned
    <3>5. CASE service' = service
               /\ worker' = [[worker EXCEPT !.id = id] EXCEPT !.at = "acquire"]
      <4>1. worker' \in Job /\ worker'.at = "acquire" /\ worker'.id = id
        BY <1>1, <3>2, <3>5 DEF Job, Step
      <4>. QED  BY <1>1, <1>3, <3>2, <3>5, <4>1 DEF JobType, JobOwned
    <3>. QED  BY <3>1, <3>3, <3>4, <3>5
  <2>. QED  BY <2>1, <2>2, <2>3, <2>4, <2>5, <2>6, <2>7, <2>8, <2>9
<1>. QED  BY <1>2, <1>3, <1>4, <1>5, <1>6, <1>7, PlainStep

\* Errors, whatever the Vault did before its answer was lost.
LEMMA ErrorSteps ==
    ASSUME ExecutionInv,
           \/ PersistFails \/ AcquireRefused \/ ResolveStale
           \/ AcquireFails \/ MountedFails \/ ResolveFails
           \/ RecoverFails
    PROVE  ExecutionInv'
<1>1. Error(dir) /\ before' = before /\ worker.at # "none"
  BY DEF PersistFails, AcquireRefused, ResolveStale, AcquireFails, MountedFails, ResolveFails,
     RecoverFails, At
<1>2. VaultTypeOK'
  BY VaultKept DEF ExecutionInv, PersistFails, AcquireRefused, ResolveStale, AcquireFails,
     MountedFails,
     ResolveFails, RecoverFails
<1>3. BoundType' /\ dir \in Directory
  BY FaultCounted DEF ExecutionInv, FileType, PersistFails, AcquireRefused, ResolveStale,
     AcquireFails,
     MountedFails, ResolveFails, RecoverFails
<1>. QED  BY <1>1, <1>2, <1>3, ErrorStep

\* The lease that makes the mount writable.
LEMMA AcquireStep == ASSUME ExecutionInv, Acquire PROVE ExecutionInv'
<1>1. PICK to \in {"restore", "refresh"} : Goto(to)
  BY DEF Acquire
<1>2. worker \in Job /\ worker.at = "acquire" /\ worker.id \in Ids
      /\ service' = service /\ service.phase \notin Resting
      /\ service \in [phase : ServicePhase, receipt : Receipt]
  BY DEF Acquire, At, ExecutionInv, JobOwned, JobType
<1>3. JobType' /\ JobOwned'
  BY <1>1, <1>2, Advances DEF Step, RestoreSteps
<1>4. FileType' /\ BoundType' /\ VaultTypeOK'
  BY FilesKept, FaultCounted, VaultKept DEF Acquire, ExecutionInv
<1>5. worker'.at = to /\ worker'.id = worker.id /\ worker'.kind = worker.kind
  BY <1>1, <1>2 DEF Goto, Job
<1>6. MountOwned'
  BY <1>5 DEF MountOwned, WriteSteps, RestoreSteps
<1>7. WriteAuthority'
  <2>1. ConsumeLease(worker.kind, worker.id)
    BY DEF Acquire
  <2>2. tx \in [Ids -> TransactionStatus]
    BY DEF ExecutionInv, VaultTypeOK
  <2>3. CASE worker.kind = "repair"
    BY <1>2, <1>5, <2>1, <2>2, <2>3 DEF ConsumeLease, Lease, WriteAuthority, Status, LeaseOf,
       TransactionStatus
  <2>4. CASE worker.kind # "repair"
    BY <1>2, <1>5, <2>1, <2>2, <2>4 DEF ConsumeLease, LeaseChild, WriteAuthority, Status,
       LeaseOf, TransactionStatus
  <2>. QED  BY <2>3, <2>4
<1>8. mount' \in {"none", "ro", "rw"}
  BY DEF Acquire
<1>. QED  BY <1>3, <1>4, <1>6, <1>7, <1>8 DEF ExecutionInv

\* The exchange of files, forward and back.
LEMMA MutationSteps ==
    ASSUME ExecutionInv, Mutation \/ Refresh \/ CloseFailed \/ ApplyFails
    PROVE  ExecutionInv'
<1>1. worker.at \in WriteSteps
  BY DEF Mutation, CreateStage, StageFile, Exchange, SyncExchange, RemoveDisplaced, SyncRemoval,
     CreateRestore, ReuseRestore, RestoreFile, ExchangeBack, SyncBack, RemoveBack, SyncRestore,
     Mutates, Refresh, CloseFailed, ApplyFails, At, WriteSteps, ApplySteps, RestoreSteps
<1>2. worker.id \in Ids /\ worker.kind \in {"repair", "rollback"}
  BY <1>1 DEF ExecutionInv, JobOwned, JobType, Job, WriteSteps, ApplySteps, RestoreSteps
<1>3. dir \in Directory /\ before[worker.id] \in Content /\ After(worker.id) \in Content
      /\ NoFile \in Content /\ FileType
  BY <1>2 DEF ExecutionInv, FileType, Content, After
<1>4. UNCHANGED <<vaultVars, before, mount, service>> /\ BoundType'
  BY FaultCounted DEF ExecutionInv,
     Mutation, CreateStage, StageFile, Exchange, SyncExchange, RemoveDisplaced, SyncRemoval,
     CreateRestore, ReuseRestore, RestoreFile, ExchangeBack, SyncBack, RemoveBack, SyncRestore,
     Mutates, Refresh, CloseFailed, ApplyFails
<1>5. FileType'
  <2>1. CASE CreateStage \/ StageFile \/ Exchange \/ SyncExchange \/ RemoveDisplaced
             \/ SyncRemoval
    <3>1. \E d \in Directory : Written(d) \/ Synced(d)
      BY <1>2, <1>3, <2>1, DirectoryChanges DEF CreateStage, StageFile, Exchange, SyncExchange,
         RemoveDisplaced, SyncRemoval, Mutates
    <3>. QED  BY <1>3, <1>4, <3>1, FilesWritten
  <2>2. CASE CreateRestore \/ RestoreFile \/ ExchangeBack \/ SyncBack \/ RemoveBack \/ SyncRestore
    <3>1. Restore(dir, worker.id, NoFile) \in Directory
      BY <1>2, <1>3, DirectoryChanges
    <3>2. \E d \in Directory : Written(d) \/ Synced(d)
      BY <1>2, <1>3, <2>2, <3>1, DirectoryChanges DEF CreateRestore, RestoreFile, ExchangeBack,
         SyncBack, RemoveBack, SyncRestore, Mutates
    <3>. QED  BY <1>3, <1>4, <3>2, FilesWritten
  <2>3. CASE ReuseRestore \/ Refresh
    BY <1>3, <1>4, <2>3, FilesKept DEF ReuseRestore, Refresh, Mutates, disk
  <2>4. CASE CloseFailed
    <3>1. UNCHANGED disk \/ Written(CleanStage(dir, worker.id, After(worker.id)))
      BY <2>4 DEF CloseFailed
    <3>2. CleanStage(dir, worker.id, After(worker.id)) \in Directory
      BY <1>2, <1>3, DirectoryChanges
    <3>. QED  BY <1>3, <1>4, <3>1, <3>2, FilesWritten, FilesKept
  <2>5. CASE ApplyFails
    <3>1. ApplyUnwound(dir, worker.id) \in Directory
      BY <1>2, <1>3, DirectoryChanges DEF ApplyUnwound
    <3>. QED  BY <1>3, <1>4, <2>5, <3>1, FilesWritten DEF ApplyFails
  <2>. QED  BY <2>1, <2>2, <2>3, <2>4, <2>5 DEF Mutation
<1>6. CASE \E to \in WriteSteps : Goto(to)
  BY <1>1, <1>4, <1>5, <1>6, GotoStep
<1>7. CASE \E outcome \in {"committed", "closed", "rolledBack", "manual"} : Decides(outcome)
  BY <1>1, <1>4, <1>5, <1>7, DecideStep
<1>8. \/ \E to \in WriteSteps : Goto(to)
      \/ \E outcome \in {"committed", "closed", "rolledBack", "manual"} : Decides(outcome)
  <2>1. CASE SyncRemoval \/ SyncRestore
    BY <1>2, <2>1 DEF SyncRemoval, SyncRestore, Restored
  <2>2. CASE CloseFailed
    <3>1. Decides("closed") \/ Decides("manual") \/ Goto("restore")
      BY <2>2 DEF CloseFailed
    <3>. QED  BY <3>1 DEF WriteSteps, RestoreSteps
  <2>3. CASE Refresh
    <3>1. Goto("apply") \/ Goto("restore")
      BY <2>3 DEF Refresh
    <3>. QED  BY <3>1 DEF WriteSteps, ApplySteps, RestoreSteps
  <2>4. CASE ApplyFails
    BY <2>4 DEF ApplyFails, WriteSteps
  <2>5. CASE CreateStage \/ StageFile \/ Exchange \/ SyncExchange \/ RemoveDisplaced
             \/ CreateRestore \/ ReuseRestore \/ RestoreFile \/ ExchangeBack \/ SyncBack
             \/ RemoveBack
    BY <2>5 DEF CreateStage, StageFile, Exchange, SyncExchange, RemoveDisplaced,
       CreateRestore, ReuseRestore, RestoreFile, ExchangeBack, SyncBack, RemoveBack,
       Mutates, WriteSteps, ApplySteps, RestoreSteps
  <2>. QED  BY <2>1, <2>2, <2>3, <2>4, <2>5 DEF Mutation
<1>. QED  BY <1>6, <1>7, <1>8

\* A restore that fails or is not possible.
LEMMA RestoreFailsStep == ASSUME ExecutionInv, RestoreFails PROVE ExecutionInv'
<1>1. worker.at \in WriteSteps /\ worker.at # "none" /\ worker.at \in RestoreSteps
      /\ UNCHANGED <<vaultVars, before>>
  BY DEF RestoreFails, WriteSteps, RestoreSteps
<1>2. worker.id \in Ids /\ worker.kind \in {"repair", "rollback"}
  BY <1>1 DEF ExecutionInv, JobOwned, JobType, Job, RestoreSteps
<1>3. PICK d \in Directory : RestoreEnds(d) \/ Error(d)
  <2>1. RestoreUnwound(dir, worker.id) \in Directory
    <3>1. dir \in Directory /\ NoFile \in Content
      BY DEF ExecutionInv, FileType, Content
    <3>. QED  BY <1>2, <3>1, DirectoryChanges DEF RestoreUnwound
  <2>. QED  BY <2>1 DEF RestoreFails
<1>4. BoundType' /\ VaultTypeOK'
  BY <1>1, FaultCounted DEF RestoreFails, ExecutionInv, VaultTypeOK, vaultVars
<1>5. CASE Error(d)
  BY <1>1, <1>4, <1>5, ErrorStep
<1>6. CASE RestoreEnds(d) /\ ~Error(d)
  <2>1. /\ Written(d) /\ UNCHANGED <<mount, service>>
        /\ \E outcome \in {"closed", "rolledBack", "manual"} : Decides(outcome)
    BY <1>6 DEF RestoreEnds, Restored
  <2>2. FileType'
    BY <1>1, <2>1, FilesWritten DEF ExecutionInv
  <2>. QED  BY <1>1, <1>4, <2>1, <2>2, DecideStep
<1>. QED  BY <1>3, <1>5, <1>6

\* The writable mount is dropped.
LEMMA ReleaseStep == ASSUME ExecutionInv, Release PROVE ExecutionInv'
<1>1. worker.at = "release" /\ worker.id \in Ids /\ service.phase \notin Resting
      /\ service \in [phase : ServicePhase, receipt : Receipt]
  BY DEF Release, At, ExecutionInv, JobOwned, JobType
<1>2. JobType' /\ JobOwned'
  <2>1. PICK to \in {"resolve", "resolveStale"} : Goto(to)
    BY DEF Release
  <2>. QED  BY <1>1, <2>1, Advances DEF Release, Step
<1>3. FileType' /\ BoundType' /\ VaultTypeOK' /\ mount' = "none"
  BY FilesWritten, FaultCounted, VaultKept DEF Release, Unmounted, ExecutionInv, FileType
<1>. QED  BY <1>2, <1>3, Unwritable DEF ExecutionInv

\* Starts, deaths, power losses and edits.
LEMMA EnvironmentSteps ==
    ASSUME ExecutionInv, Start \/ Killed \/ PowerLoss \/ Edit
    PROVE  ExecutionInv'
<1>1. NoReceipt \in Receipt /\ Original \in Content /\ Foreign \in Content
  BY NoJobType DEF Content
<1>2. CASE Start
  <2>1. worker.at = "none" /\ worker.at \notin WriteSteps
    BY <1>2 DEF Start, ExecutionInv, JobOwned, Resting, WriteSteps, ApplySteps, RestoreSteps
  <2>2. /\ service' \in [phase : ServicePhase, receipt : Receipt]
        /\ service'.phase \notin Resting
    BY <1>1, <1>2, ShowsType DEF Start, ServicePhase, Resting
  <2>3. JobType' /\ JobOwned'
    BY <1>2, <2>2, Begins DEF Start, Step
  <2>4. VaultTypeOK' /\ FileType' /\ BoundType' /\ mount' = mount
    BY <1>2, FilesKept, FaultCounted, VaultKept DEF Start, ExecutionInv
  <2>. QED  BY <2>1, <2>3, <2>4, PlainStep
<1>3. CASE Killed \/ PowerLoss
  <2>1. JobType' /\ JobOwned'
    BY <1>1, <1>3, Rests DEF Killed, PowerLoss
  <2>2. BoundType'
    BY <1>3, ExecutionAssumption DEF Killed, PowerLoss, Stop, ExecutionInv, BoundType
  <2>3. VaultTypeOK' /\ before' = before
    BY <1>3, VaultKept DEF Killed, PowerLoss, ExecutionInv
  <2>4. \E d \in Directory : Unmounted(d)
    BY <1>3 DEF Killed, PowerLoss, ExecutionInv, FileType
  <2>5. FileType' /\ mount' = "none"
    BY <2>3, <2>4, FilesWritten DEF Unmounted, ExecutionInv
  <2>. QED  BY <2>1, <2>2, <2>3, <2>5, Unwritable DEF ExecutionInv
<1>4. CASE Edit
  <2>1. mount = "none" /\ UNCHANGED <<vaultVars, before, mount, service, worker, faults, stops>>
        /\ edits < MaxEdits /\ edits' = edits + 1
        /\ Synced([dir EXCEPT !.target = Foreign])
    BY <1>4 DEF Edit
  <2>2. [dir EXCEPT !.target = Foreign] \in Directory
    BY DEF ExecutionInv, FileType, Directory
  <2>3. FileType'
    BY <2>1, <2>2, FilesWritten DEF ExecutionInv
  <2>4. BoundType' /\ VaultTypeOK' /\ JobType' /\ JobOwned'
    BY <2>1, ExecutionAssumption DEF ExecutionInv, BoundType, VaultTypeOK, vaultVars, JobType,
       JobOwned
  <2>. QED  BY <2>1, <2>3, <2>4, Unwritable DEF ExecutionInv
<1>. QED  BY <1>2, <1>3, <1>4

\* The invariant holds at the start.
LEMMA InitEstablishes == Init => ExecutionInv
<1>. SUFFICES ASSUME Init PROVE ExecutionInv
  OBVIOUS
<1>1. VaultTypeOK
  BY DEF Init, VaultInit, VaultTypeOK, FreeSlot, TransactionStatus, Phase, ChildPhase
<1>2. FileType
  BY DEF Init, FileType, Content, Directory
<1>3. JobType /\ JobOwned
  BY NoJobType DEF Init, JobType, JobOwned, ServicePhase, Resting
<1>4. mount = "none" /\ BoundType
  BY ExecutionAssumption DEF Init, BoundType
<1>. QED  BY <1>1, <1>2, <1>3, <1>4 DEF ExecutionInv, MountOwned, WriteAuthority

\* Every action keeps it.
LEMMA StepPreserves == ExecutionInv /\ [Next]_vars => ExecutionInv'
<1>. SUFFICES ASSUME ExecutionInv, [Next]_vars PROVE ExecutionInv'
  OBVIOUS
<1>1. CASE Requests
  BY <1>1, RequestSteps
<1>2. CASE Progress
  BY <1>2, PreparationSteps, AcquireStep, ErrorSteps, MutationSteps, ReleaseStep DEF Progress
<1>3. CASE Failures
  BY <1>3, PreparationSteps, ErrorSteps, MutationSteps, RestoreFailsStep DEF Failures
<1>4. CASE Start \/ Killed \/ PowerLoss \/ Edit
  BY <1>4, EnvironmentSteps
<1>5. CASE UNCHANGED vars
  BY <1>5 DEF vars, bounds, ExecutionInv, VaultTypeOK, FileType, JobType, BoundType, JobOwned,
     MountOwned, WriteAuthority, Status, LeaseOf
<1>. QED  BY <1>1, <1>2, <1>3, <1>4, <1>5 DEF Next

\* The inductive invariant holds throughout.
THEOREM ExecutionInvariant == Spec => []ExecutionInv
BY InitEstablishes, StepPreserves, PTL DEF Spec

\* The shape of every variable, for any number of repairs, faults, deaths and edits.
THEOREM ExecutionTyped == Spec => []TypeOK
BY ExecutionInvariant, InvariantTyped, PTL

\* The target is writable only for the job's own pending transaction and under a write
\* lease of this boot, whatever fails, dies or answers late (execute_same_boot_target,
\* recover_same_boot_target).
THEOREM WriteAuthorityHolds == Spec => []WriteAuthority
<1>1. ExecutionInv => WriteAuthority
  BY DEF ExecutionInv
<1>. QED  BY <1>1, ExecutionInvariant, PTL

(***************************************************************************)
(* The second layer: what is on the disk at every step of a job.           *)
(***************************************************************************)
\* Steps at which the target holds the backup, the replacement, the backup again.
Installing == {"stageFile", "exchange"}
Installed == {"syncExchange", "remove", "syncRemoval", "restoreFile", "exchangeBack"}
PutBack == {"syncBack", "removeBack", "syncRestore"}

MutationOk ==
    /\ worker.at \in Installing => dir.target = before[worker.id]
    /\ worker.at = "exchange" => dir.stage[worker.id] = After(worker.id)
    /\ worker.at \in Installed => dir.target = After(worker.id)
    /\ worker.at = "exchangeBack" => dir.restore[worker.id] = before[worker.id]
    /\ worker.at \in PutBack => dir.target = before[worker.id]

\* A decided outcome is what is installed; once the mount is dropped, what the disk holds.
DecisionOk ==
    /\ worker.at = "release" =>
         /\ worker.outcome = "committed" => dir.target = After(worker.id)
         /\ worker.outcome \in {"closed", "rolledBack"} => dir.target = before[worker.id]
    /\ worker.at = "resolve" =>
         /\ worker.outcome = "committed" => OnDisk(worker.id, After(worker.id))
         /\ worker.outcome \in {"closed", "rolledBack"} => OnDisk(worker.id, before[worker.id])

\* While a prepared repair or rollback waits for its approval, the read-only mount keeps
\* what was observed.
HoldsRepair == service.phase = "prepared" \/ worker.at \in {"persist", "cancel"}
HoldsRollback == service.phase = "rollbackPrepared" \/ worker.at = "authorize"
Observed ==
    /\ worker.at = "prepare" /\ worker.kind = "repair" => dir.target # After(worker.id)
    /\ HoldsRepair => mount = "ro" /\ dir.target = before[worker.id]
    /\ HoldsRollback => mount = "ro" /\ dir.target = After(worker.id)

\* A backup differs from its replacement, and what somebody else wrote took an edit.
BackupOk ==
    /\ \A id \in Ids : before[id] # After(id) /\ (before[id] = Foreign => edits > 0)
    /\ \A d \in possible : d.target = Foreign => edits > 0

\* Writing steps hold the mount, and without it nothing is left to be written.
Mounted == worker.at \in WriteSteps => mount = "rw"
Flushed == mount # "rw" => possible = {dir}

DiskInv == Mounted /\ Flushed /\ BackupOk /\ MutationOk /\ DecisionOk /\ Observed

\* Identifiers and file contents do not get mixed up.
LEMMA Contents ==
    /\ \A id \in Ids : id \notin {Original, Foreign, Partial, NoFile, NoId}
    /\ Foreign \notin {Partial, NoFile}
BY ExecutionAssumption

\* What the changes of a directory leave in it.
LEMMA DirectoryReads ==
    ASSUME NEW d \in Directory, NEW id \in Ids, NEW content \in Content
    PROVE  /\ Stage(d, id, content).target = d.target
           /\ Stage(d, id, content).stage[id] = content
           /\ Restore(d, id, content).target = d.target
           /\ Restore(d, id, content).restore[id] = content
           /\ CleanStage(d, id, content).target = d.target
           /\ Exchanged(d, id).target = d.stage[id]
           /\ ExchangedBack(d, id).target = d.restore[id]
<1>1. Directory = [target : Content, stage : [Ids -> Content], restore : [Ids -> Content]]
  BY DEF Directory, Content
<1>2. \A c \in Content : /\ Stage(d, id, c).target = d.target
                         /\ Stage(d, id, c).stage[id] = c
                         /\ Restore(d, id, c).target = d.target
                         /\ Restore(d, id, c).restore[id] = c
  BY <1>1 DEF Stage, Restore
<1>3. NoFile \in Content /\ d.target \in Content
  BY <1>1 DEF Content
<1>4. CleanStage(d, id, content).target = d.target
  BY <1>2, <1>3 DEF CleanStage
<1>5. Stage(d, id, d.target) \in Directory /\ Restore(d, id, d.target) \in Directory
  BY <1>3, DirectoryChanges
<1>6. Exchanged(d, id).target = d.stage[id] /\ ExchangedBack(d, id).target = d.restore[id]
  BY <1>1, <1>5 DEF Exchanged, ExchangedBack
<1>. QED  BY <1>2, <1>4, <1>6

\* The state of the target, told apart by its contents.
LEMMA States ==
    ASSUME BackupOk, NEW d, NEW id \in Ids
    PROVE  /\ TargetState(d, id) = "Before" <=> d.target = before[id]
           /\ TargetState(d, id) = "After" <=> d.target = After(id)
BY DEF BackupOk, TargetState

\* A job that has left the disk: ended, about to recover, or about to ask for its lease.
LEMMA QuietStep ==
    ASSUME ExecutionInv', DiskInv, worker'.at \in {"none", "recover", "acquire"},
           service'.phase \notin {"prepared", "rollbackPrepared"},
           possible' = {dir'}, \E d \in possible : dir'.target = d.target,
           before' = before, edits' = edits
    PROVE  DiskInv'
<1>1. worker'.at \notin WriteSteps /\ worker'.at \notin Installing \cup Installed \cup PutBack
  BY DEF WriteSteps, ApplySteps, RestoreSteps, Installing, Installed, PutBack
<1>2. Mounted' /\ Flushed'
  BY <1>1 DEF Mounted, Flushed
<1>3. BackupOk'
  BY DEF DiskInv, BackupOk, After
<1>4. MutationOk' /\ DecisionOk'
  BY <1>1 DEF MutationOk, DecisionOk
<1>5. Observed'
  BY <1>1 DEF Observed, HoldsRepair, HoldsRollback
<1>. QED  BY <1>2, <1>3, <1>4, <1>5 DEF DiskInv

\* A step under the writable mount.
LEMMA WritingStep ==
    ASSUME ExecutionInv, ExecutionInv', DiskInv, worker'.at \in WriteSteps, mount' = "rw",
           worker.id \in Ids, possible' \subseteq possible \cup {dir'},
           dir'.target \in {dir.target, before[worker.id], After(worker.id)},
           before' = before, edits' = edits, MutationOk', DecisionOk'
    PROVE  DiskInv'
<1>1. worker'.at \notin {"none", "prepare", "persist", "cancel", "authorize"}
  BY DEF WriteSteps, ApplySteps, RestoreSteps
<1>2. service'.phase \notin {"prepared", "rollbackPrepared"}
  BY <1>1 DEF ExecutionInv, JobOwned, Resting
<1>3. Mounted' /\ Flushed' /\ Observed'
  BY <1>1, <1>2 DEF Mounted, Flushed, Observed, HoldsRepair, HoldsRollback
<1>4. BackupOk'
  <2>1. dir.target = Foreign => edits > 0
    BY DEF DiskInv, BackupOk, ExecutionInv, FileType
  <2>2. before[worker.id] = Foreign => edits > 0
    BY DEF DiskInv, BackupOk
  <2>3. After(worker.id) # Foreign
    BY Contents DEF After
  <2>. QED  BY <2>1, <2>2, <2>3 DEF DiskInv, BackupOk, After
<1>. QED  BY <1>3, <1>4 DEF DiskInv

\* A job that fails leaves the target as it found it.
LEMMA ErrorQuiet ==
    ASSUME ExecutionInv, ExecutionInv', DiskInv, worker.at # "none",
           NEW d, d.target = dir.target, Error(d), before' = before, edits' = edits
    PROVE  DiskInv'
<1>1. dir' = d /\ possible' = {dir'} /\ dir \in possible
  BY DEF Error, Unmounted, Synced, ExecutionInv, FileType
<1>2. service.phase \notin Resting
  BY DEF ExecutionInv, JobOwned
<1>3. worker'.at \in {"none", "recover"} /\ service'.phase \notin {"prepared", "rollbackPrepared"}
  <2>1. CASE worker.origin = "execute"
    BY <1>2, <2>1 DEF Error, NewJob, Resting
  <2>2. CASE worker.origin # "execute"
    <3>1. worker' = NoJob /\ service'.phase \in {"down", "terminal"}
      BY <2>2 DEF Error, RecoveryFails, Ends, Shows
    <3>. QED  BY <3>1, NoJobType
  <2>. QED  BY <2>1, <2>2
<1>. QED  BY <1>1, <1>3, QuietStep

\* Without the writable mount, what is left alone is what the disk holds.
LEMMA DiskAlone ==
    ASSUME ExecutionInv, DiskInv, worker.at \notin WriteSteps, UNCHANGED disk
    PROVE  possible' = {dir'} /\ \E d \in possible : dir'.target = d.target
BY DEF ExecutionInv, MountOwned, DiskInv, Flushed, disk

\* The job ends, or turns to recovery or to its lease, with the disk left alone.
LEMMA QuietSteps ==
    ASSUME ExecutionInv, ExecutionInv', DiskInv,
           \/ CancelRollback \/ PrepareFails \/ CancelPrepared \/ DecisionFails
           \/ PersistPending \/ ResolvePending \/ NothingToRecover \/ RollbackUnavailable
           \/ AuthorizeRollback \/ AuthorizeRefused \/ AuthorizeFails \/ Start
    PROVE  DiskInv'
<1>1. UNCHANGED <<before, disk>> /\ edits' = edits
  BY DEF CancelRollback, PrepareFails, CancelPrepared, DecisionFails, PersistPending,
     ResolvePending, NothingToRecover, RollbackUnavailable, AuthorizeRollback,
     AuthorizeRefused, AuthorizeFails, Start, Fault, bounds
<1>2. worker.at \notin WriteSteps
  <2>1. \/ worker.at \in {"prepare", "cancel", "persist", "resolve", "recover", "authorize"}
        \/ service.phase \in Resting
    BY DEF CancelRollback, PrepareFails, CancelPrepared, DecisionFails, PersistPending,
       ResolvePending, NothingToRecover, RollbackUnavailable, AuthorizeRollback,
       AuthorizeRefused, AuthorizeFails, Start, At, Resting
  <2>. QED  BY <2>1 DEF ExecutionInv, JobOwned, WriteSteps, ApplySteps, RestoreSteps
<1>3. worker'.at \in {"none", "recover", "acquire"}
  <2>1. \/ worker' = NoJob
        \/ \E kind, origin : worker' = NewJob("recover", NoId, kind, origin)
        \/ Goto("acquire")
    BY DEF CancelRollback, PrepareFails, CancelPrepared, DecisionFails, PersistPending,
       ResolvePending, NothingToRecover, RollbackUnavailable, AuthorizeRollback,
       AuthorizeRefused, AuthorizeFails, Start, Ends
  <2>2. CASE Goto("acquire")
    BY <2>2 DEF Goto, ExecutionInv, JobType, Job
  <2>. QED  BY <2>1, <2>2, NoJobType DEF NewJob
<1>4. service'.phase \notin {"prepared", "rollbackPrepared"}
  <2>1. \/ \E phase \in {"idle", "terminal", "starting"} : \E receipt : Shows(phase, receipt)
        \/ service' = service /\ worker.at # "none"
    BY DEF CancelRollback, PrepareFails, CancelPrepared, DecisionFails, PersistPending,
       ResolvePending, NothingToRecover, RollbackUnavailable, AuthorizeRollback,
       AuthorizeRefused, AuthorizeFails, Start, Ends, At
  <2>. QED  BY <2>1 DEF Shows, ExecutionInv, JobOwned, Resting
<1>. QED  BY <1>1, <1>2, <1>3, <1>4, DiskAlone, QuietStep

\* The steps that fail, whatever the Vault did.
LEMMA ErrorQuietSteps ==
    ASSUME ExecutionInv, ExecutionInv', DiskInv,
           \/ PersistFails \/ AcquireRefused \/ ResolveStale
           \/ AcquireFails \/ MountedFails \/ ResolveFails
           \/ RecoverFails
    PROVE  DiskInv'
<1>1. Error(dir) /\ before' = before /\ worker.at # "none" /\ edits' = edits
  BY DEF PersistFails, AcquireRefused, ResolveStale, AcquireFails, MountedFails, ResolveFails,
     RecoverFails, At,
     Fault, bounds
<1>. QED  BY <1>1, ErrorQuiet

\* Deaths and power losses.
LEMMA StopSteps ==
    ASSUME ExecutionInv, ExecutionInv', DiskInv, Killed \/ PowerLoss
    PROVE  DiskInv'
<1>1. before' = before /\ edits' = edits /\ worker'.at = "none" /\ service'.phase = "down"
  BY NoJobType DEF Killed, PowerLoss, Stop, Shows
<1>2. \E d \in possible : dir' = d /\ possible' = {d}
  BY DEF Killed, PowerLoss, Unmounted, Synced, ExecutionInv, FileType
<1>. QED  BY <1>1, <1>2, QuietStep

\* A request or an observation: nothing is written, the read-only mount may be taken.
LEMMA ObservedStep ==
    ASSUME ExecutionInv', DiskInv, possible' = {dir'}, dir' = dir, edits' = edits,
           dir \in possible,
           worker'.at \in {"none", "prepare", "persist", "cancel", "authorize"},
           before' = before \/
             \E id \in Ids : before' = [before EXCEPT ![id] = dir.target] /\ dir.target # After(id),
           Observed'
    PROVE  DiskInv'
<1>1. Mounted' /\ Flushed' /\ MutationOk' /\ DecisionOk'
  BY DEF Mounted, Flushed, MutationOk, DecisionOk, WriteSteps, ApplySteps, RestoreSteps,
     Installing, Installed, PutBack
<1>2. BackupOk'
  <2>1. \A id \in Ids : before[id] # After(id) /\ (before[id] = Foreign => edits > 0)
    BY DEF DiskInv, BackupOk
  <2>2. dir.target = Foreign => edits > 0
    BY DEF DiskInv, BackupOk
  <2>3. before' \in [Ids -> Content]
    BY DEF ExecutionInv, FileType
  <2>4. \A id \in Ids : (before[id] # After(id))' /\ ((before[id] = Foreign) => edits > 0)'
    <3>1. CASE before' = before
      BY <2>1, <3>1 DEF After
    <3>2. ASSUME NEW id \in Ids, before' = [before EXCEPT ![id] = dir.target],
                 dir.target # After(id)
          PROVE  \A i \in Ids : (before[i] # After(i))' /\ ((before[i] = Foreign) => edits > 0)'
      <4>1. \A i \in Ids : before'[i] = before[i] \/ (i = id /\ before'[i] = dir.target)
        BY <2>3, <3>2
      <4>. QED  BY <2>1, <2>2, <3>2, <4>1 DEF After
    <3>. QED  BY <3>1, <3>2
  <2>. QED  BY <2>2, <2>4 DEF BackupOk
<1>. QED  BY <1>1, <1>2 DEF DiskInv

\* Requests and preparations: what is observed stays under the read-only mount.
LEMMA ObservedSteps ==
    ASSUME ExecutionInv, ExecutionInv', DiskInv,
           \/ \E id \in Ids : RequestPrepare(id) \/ RequestRollback(id)
           \/ \E step \in {"persist", "cancel"} : RequestDecision(step)
           \/ RequestRollbackApproval \/ PrepareRepair \/ PrepareRollback
    PROVE  DiskInv'
<1>1. worker.at \in {"none", "prepare"} /\ UNCHANGED disk /\ edits' = edits
  <2>1. UNCHANGED <<disk, bounds>> /\ (worker.at = "prepare" \/ service.phase \in Resting)
    BY DEF RequestPrepare, RequestRollback, RequestDecision, RequestRollbackApproval,
       PrepareRepair, PrepareRollback, At, Resting
  <2>. QED  BY <2>1 DEF ExecutionInv, JobOwned, bounds
<1>2. dir' = dir /\ possible' = {dir'} /\ dir \in possible /\ worker.at \notin WriteSteps
  BY <1>1, DiskAlone DEF ExecutionInv, FileType, WriteSteps, ApplySteps, RestoreSteps, disk
<1>3. worker \in Job
  BY DEF ExecutionInv, JobType
<1>4. ASSUME NEW id \in Ids, RequestPrepare(id) PROVE DiskInv'
  <2>1. /\ worker' = NewJob("prepare", id, "repair", "execute") /\ dir.target # After(id)
        /\ service'.phase = "preparing" /\ before' = before
    BY <1>4 DEF RequestPrepare, Shows
  <2>2. worker'.at = "prepare" /\ worker'.id = id
    BY <2>1 DEF NewJob
  <2>3. Observed'
    BY <1>2, <2>1, <2>2 DEF Observed, HoldsRepair, HoldsRollback, After
  <2>. QED  BY <1>1, <1>2, <2>1, <2>2, <2>3, ObservedStep
<1>5. ASSUME NEW id \in Ids, RequestRollback(id) PROVE DiskInv'
  <2>1. /\ worker' = NewJob("prepare", id, "rollback", "execute")
        /\ service'.phase = "rollbackPreparing" /\ before' = before
    BY <1>5 DEF RequestRollback, Shows
  <2>2. worker'.at = "prepare" /\ worker'.kind = "rollback"
    BY <2>1 DEF NewJob
  <2>3. Observed'
    BY <2>1, <2>2 DEF Observed, HoldsRepair, HoldsRollback
  <2>. QED  BY <1>1, <1>2, <2>1, <2>2, <2>3, ObservedStep
<1>6. ASSUME NEW step \in {"persist", "cancel"}, RequestDecision(step) PROVE DiskInv'
  <2>1. /\ service.phase = "prepared" /\ service'.phase = "executing"
        /\ before' = before /\ mount' = mount
    BY <1>6 DEF RequestDecision, Shows
  <2>2. worker'.at = step /\ worker'.id = worker.id
    BY <1>3, <1>6 DEF RequestDecision, Goto, Job
  <2>3. mount = "ro" /\ dir.target = before[worker.id]
    BY <2>1 DEF DiskInv, Observed, HoldsRepair
  <2>4. Observed'
    BY <1>2, <2>1, <2>2, <2>3 DEF Observed, HoldsRepair, HoldsRollback
  <2>. QED  BY <1>1, <1>2, <2>1, <2>2, <2>4, ObservedStep
<1>7. CASE RequestRollbackApproval
  <2>1. /\ service.phase = "rollbackPrepared" /\ service'.phase = "rollbackExecuting"
        /\ before' = before /\ mount' = mount
    BY <1>7 DEF RequestRollbackApproval, Shows
  <2>2. worker'.at = "authorize" /\ worker'.id = worker.id
    BY <1>3, <1>7 DEF RequestRollbackApproval, Goto, Job
  <2>3. mount = "ro" /\ dir.target = After(worker.id)
    BY <2>1 DEF DiskInv, Observed, HoldsRollback
  <2>4. Observed'
    BY <1>2, <2>1, <2>2, <2>3 DEF Observed, HoldsRepair, HoldsRollback, After
  <2>. QED  BY <1>1, <1>2, <2>1, <2>2, <2>4, ObservedStep
<1>8. CASE PrepareRepair
  <2>1. /\ At("prepare") /\ worker.kind = "repair" /\ service'.phase = "prepared" /\ mount' = "ro"
        /\ before' = [before EXCEPT ![worker.id] = dir.target] /\ Goto("none")
    BY <1>8 DEF PrepareRepair, Shows
  <2>2. worker.id \in Ids /\ worker'.at = "none" /\ worker'.id = worker.id
    BY <1>3, <2>1 DEF At, Goto, Job, ExecutionInv, JobOwned
  <2>3. dir.target # After(worker.id)
    BY <2>1 DEF DiskInv, Observed, At
  <2>4. before'[worker.id] = dir.target
    BY <2>1, <2>2 DEF ExecutionInv, FileType
  <2>5. Observed'
    BY <1>2, <2>1, <2>2, <2>4 DEF Observed, HoldsRepair, HoldsRollback
  <2>. QED  BY <1>1, <1>2, <2>1, <2>2, <2>3, <2>5, ObservedStep
<1>9. CASE PrepareRollback
  <2>1. /\ At("prepare") /\ service'.phase = "rollbackPrepared" /\ mount' = "ro"
        /\ dir.target = After(worker.id) /\ before' = before /\ Goto("none")
    BY <1>9 DEF PrepareRollback, Shows, RollbackPossible
  <2>2. worker'.at = "none" /\ worker'.id = worker.id
    BY <1>3, <2>1 DEF Goto, Job
  <2>3. Observed'
    BY <1>2, <2>1, <2>2 DEF Observed, HoldsRepair, HoldsRollback, After
  <2>. QED  BY <1>1, <1>2, <2>1, <2>2, <2>3, ObservedStep
<1>. QED  BY <1>4, <1>5, <1>6, <1>7, <1>8, <1>9

\* A decided job without its mount: the disk holds what it decided.
LEMMA ResolvedStep ==
    ASSUME ExecutionInv', DiskInv, worker'.at \in {"resolve", "resolveStale"}, worker'.id \in Ids,
           possible' = {dir'}, \E d \in possible : dir'.target = d.target,
           before' = before, edits' = edits,
           worker'.outcome = "committed" => dir'.target = After(worker'.id),
           worker'.outcome \in {"closed", "rolledBack"} => dir'.target = before[worker'.id]
    PROVE  DiskInv'
<1>1. Mounted' /\ Flushed' /\ MutationOk'
  BY DEF Mounted, Flushed, MutationOk, WriteSteps, ApplySteps, RestoreSteps, Installing,
     Installed, PutBack
<1>2. service'.phase \notin {"prepared", "rollbackPrepared"}
  BY DEF ExecutionInv, JobOwned, Resting
<1>3. Observed'
  BY <1>2 DEF Observed, HoldsRepair, HoldsRollback
<1>4. BackupOk'
  BY DEF DiskInv, BackupOk, After
<1>5. DecisionOk'
  BY DEF DecisionOk, OnDisk, After
<1>. QED  BY <1>1, <1>3, <1>4, <1>5 DEF DiskInv

\* The write mount is dropped.
LEMMA ReleaseDisk ==
    ASSUME ExecutionInv, ExecutionInv', DiskInv, Release PROVE DiskInv'
<1>1. worker \in Job /\ worker.at = "release" /\ worker.id \in Ids /\ dir \in possible
  BY DEF Release, At, ExecutionInv, JobType, JobOwned, FileType
<1>2. worker'.at \in {"resolve", "resolveStale"} /\ worker'.id = worker.id
      /\ worker'.outcome = worker.outcome
  BY <1>1 DEF Release, Goto, Job
<1>3. dir' = dir /\ possible' = {dir'} /\ before' = before /\ edits' = edits
  BY DEF Release, Unmounted, Synced, bounds
<1>4. /\ worker.outcome = "committed" => dir.target = After(worker.id)
      /\ worker.outcome \in {"closed", "rolledBack"} => dir.target = before[worker.id]
  BY <1>1 DEF DiskInv, DecisionOk
<1>. QED  BY <1>1, <1>2, <1>3, <1>4, ResolvedStep DEF After

\* Recovery decides by what it sees through the read-only mount.
LEMMA ClassifyDisk ==
    ASSUME ExecutionInv, ExecutionInv', DiskInv, Classify PROVE DiskInv'
<1>1. /\ worker \in Job /\ worker.at \notin WriteSteps /\ dir \in possible
      /\ UNCHANGED <<before, disk>> /\ edits' = edits
  BY DEF Classify, At, ExecutionInv, JobType, FileType, WriteSteps, ApplySteps, RestoreSteps,
     bounds
<1>2. dir' = dir /\ possible' = {dir'}
  BY <1>1, DiskAlone DEF disk
<1>3. PICK id \in Open(worker.kind) :
        \/ Ends([outcome |-> "manual", id |-> id])
        \/ /\ TargetState(dir, id) = "Before"
           /\ worker' = [[worker EXCEPT !.id = id]
                           EXCEPT !.at = "resolve", !.outcome = Restored(worker.kind)]
        \/ worker' = [[worker EXCEPT !.id = id] EXCEPT !.at = "resolve", !.outcome = "manual"]
        \/ service' = service /\ worker' = [[worker EXCEPT !.id = id] EXCEPT !.at = "acquire"]
  BY DEF Classify
<1>4. id \in Ids /\ service.phase \notin Resting
  BY DEF Open, UnresolvedRepairs, UnresolvedRollbacks, Classify, At, ExecutionInv, JobOwned
<1>5. CASE Ends([outcome |-> "manual", id |-> id])
  <2>1. worker'.at = "none" /\ service'.phase = "terminal"
    BY <1>5, NoJobType DEF Ends, Shows
  <2>. QED  BY <1>1, <1>2, <2>1, QuietStep
<1>6. CASE /\ TargetState(dir, id) = "Before"
           /\ worker' = [[worker EXCEPT !.id = id]
                           EXCEPT !.at = "resolve", !.outcome = Restored(worker.kind)]
  <2>1. worker'.at = "resolve" /\ worker'.id = id /\ worker'.outcome # "committed"
    BY <1>1, <1>6 DEF Job, Restored
  <2>2. dir.target = before[id]
    BY <1>4, <1>6, States DEF DiskInv
  <2>. QED  BY <1>1, <1>2, <1>4, <2>1, <2>2, ResolvedStep
<1>7. CASE worker' = [[worker EXCEPT !.id = id] EXCEPT !.at = "resolve", !.outcome = "manual"]
  <2>1. worker'.at = "resolve" /\ worker'.id = id /\ worker'.outcome = "manual"
    BY <1>1, <1>7 DEF Job
  <2>. QED  BY <1>1, <1>2, <1>4, <2>1, ResolvedStep
<1>8. CASE service' = service /\ worker' = [[worker EXCEPT !.id = id] EXCEPT !.at = "acquire"]
  <2>1. worker'.at = "acquire"
    BY <1>1, <1>8 DEF Job
  <2>2. service'.phase \notin {"prepared", "rollbackPrepared"}
    BY <1>4, <1>8 DEF Resting
  <2>. QED  BY <1>1, <1>2, <2>1, <2>2, QuietStep
<1>. QED  BY <1>3, <1>5, <1>6, <1>7, <1>8

\* Somebody else edits the file, which no job has mounted.
LEMMA EditDisk ==
    ASSUME ExecutionInv, ExecutionInv', DiskInv, Edit PROVE DiskInv'
<1>1. /\ mount = "none" /\ mount' = mount /\ edits' = edits + 1 /\ edits \in Nat
      /\ UNCHANGED <<before, service, worker>>
      /\ dir' = [dir EXCEPT !.target = Foreign] /\ possible' = {dir'} /\ dir \in Directory
  BY ExecutionAssumption DEF Edit, Synced, ExecutionInv, BoundType, FileType
<1>2. dir'.target = Foreign /\ edits' > 0 /\ edits' > edits
  BY <1>1 DEF Directory
<1>3. worker.at \notin WriteSteps
  BY <1>1 DEF DiskInv, Mounted
<1>4. worker.at \notin Installing \cup Installed \cup PutBack \cup {"release", "exchange", "exchangeBack"}
  BY <1>3 DEF WriteSteps, ApplySteps, RestoreSteps, Installing, Installed, PutBack
<1>5. Mounted' /\ Flushed' /\ MutationOk'
  BY <1>1, <1>3, <1>4 DEF Mounted, Flushed, MutationOk
<1>6. BackupOk'
  BY <1>1, <1>2 DEF DiskInv, BackupOk, After
<1>7. DecisionOk'
  <2>1. worker.at = "resolve" => worker.id \in Ids
    BY DEF ExecutionInv, JobOwned
  <2>2. worker.at = "resolve" => (before[worker.id] = Foreign => edits' > 1)
    BY <1>1, <2>1 DEF DiskInv, BackupOk
  <2>. QED  BY <1>1, <1>2, <1>4, <2>2 DEF DecisionOk, OnDisk
<1>8. Observed'
  <2>1. ~HoldsRepair /\ ~HoldsRollback
    BY <1>1 DEF DiskInv, Observed
  <2>2. worker.at = "prepare" => worker.id \in Ids
    BY DEF ExecutionInv, JobOwned
  <2>. QED  BY <1>1, <1>2, <2>1, <2>2, Contents DEF Observed, HoldsRepair, HoldsRollback, After
<1>. QED  BY <1>5, <1>6, <1>7, <1>8 DEF DiskInv

\* One step of the exchange or of the restore, by the step it leads to.
LEMMA MutatesTo ==
    ASSUME ExecutionInv, ExecutionInv', DiskInv, worker.at \in WriteSteps, worker.id \in Ids,
           NEW to \in WriteSteps, Goto(to), UNCHANGED <<before, mount>>, edits' = edits,
           possible' \subseteq possible \cup {dir'},
           dir'.target \in {dir.target, before[worker.id], After(worker.id)},
           to \notin {"release", "resolve"},
           to \in Installing => dir'.target = before[worker.id],
           to = "exchange" => dir'.stage[worker.id] = After(worker.id),
           to \in Installed => dir'.target = After(worker.id),
           to = "exchangeBack" => dir'.restore[worker.id] = before[worker.id],
           to \in PutBack => dir'.target = before[worker.id]
    PROVE  DiskInv'
<1>1. worker'.at = to /\ worker'.id = worker.id
  BY DEF Goto, ExecutionInv, JobType, Job
<1>2. mount' = "rw"
  BY DEF DiskInv, Mounted
<1>3. MutationOk'
  BY <1>1 DEF MutationOk, After
<1>4. DecisionOk'
  BY <1>1 DEF DecisionOk
<1>. QED  BY <1>1, <1>2, <1>3, <1>4, WritingStep

\* The outcome is decided under the writable mount.
LEMMA DecidesTo ==
    ASSUME ExecutionInv, ExecutionInv', DiskInv, worker.at \in WriteSteps, worker.id \in Ids,
           NEW outcome, Decides(outcome), UNCHANGED <<before, mount>>, edits' = edits,
           possible' \subseteq possible \cup {dir'}, dir'.target = dir.target,
           outcome = "committed" => dir.target = After(worker.id),
           outcome \in {"closed", "rolledBack"} => dir.target = before[worker.id]
    PROVE  DiskInv'
<1>1. worker'.at = "release" /\ worker'.id = worker.id /\ worker'.outcome = outcome
  BY DEF Decides, ExecutionInv, JobType, Job
<1>2. mount' = "rw" /\ "release" \in WriteSteps
  BY DEF DiskInv, Mounted, WriteSteps
<1>3. MutationOk'
  BY <1>1 DEF MutationOk, Installing, Installed, PutBack
<1>4. DecisionOk'
  BY <1>1 DEF DecisionOk, After
<1>. QED  BY <1>1, <1>2, <1>3, <1>4, WritingStep

\* Facts every step under the writable mount starts from.
LEMMA AtWork ==
    ASSUME ExecutionInv, worker.at \in WriteSteps
    PROVE  /\ worker.id \in Ids /\ worker.kind \in {"repair", "rollback"}
           /\ dir \in Directory /\ dir \in possible
           /\ before[worker.id] \in Content /\ After(worker.id) \in Content
           /\ NoFile \in Content /\ Partial \in Content
BY DEF ExecutionInv, JobOwned, JobType, Job, FileType, Content, After, WriteSteps, ApplySteps,
   RestoreSteps

\* The exchange of the file with its replacement.
LEMMA ApplyDisk ==
    ASSUME ExecutionInv, ExecutionInv', DiskInv,
           \/ Refresh \/ CreateStage \/ StageFile \/ Exchange \/ SyncExchange \/ RemoveDisplaced
           \/ SyncRemoval \/ ApplyFails
    PROVE  DiskInv'
<1>1. worker.at \in WriteSteps /\ UNCHANGED <<before, mount>> /\ edits' = edits
  BY DEF Refresh, CreateStage, StageFile, Exchange, SyncExchange, RemoveDisplaced, SyncRemoval,
     ApplyFails, Mutates, At, WriteSteps, ApplySteps, Fault, bounds
<1>2. /\ worker.id \in Ids /\ dir \in Directory /\ dir \in possible
      /\ After(worker.id) \in Content /\ NoFile \in Content /\ Partial \in Content
  BY <1>1, AtWork
<1>3. MutationOk
  BY DEF DiskInv
<1>4. CASE Refresh
  <2>1. PICK to \in {"apply", "restore"} : Goto(to)
    BY <1>4 DEF Refresh
  <2>2. UNCHANGED disk /\ to \in WriteSteps
    BY <1>4 DEF Refresh, WriteSteps, ApplySteps, RestoreSteps
  <2>. QED  BY <1>1, <1>2, <2>1, <2>2, MutatesTo DEF disk, Installing, Installed, PutBack
<1>5. CASE CreateStage
  <2>1. /\ dir' = Stage(dir, worker.id, Partial) /\ possible' = possible \cup {dir'}
        /\ dir.target = before[worker.id] /\ Goto("stageFile")
    BY <1>5 DEF CreateStage, Mutates, Written
  <2>2. dir'.target = dir.target
    BY <1>2, <2>1, DirectoryReads
  <2>. QED  BY <1>1, <1>2, <2>1, <2>2, MutatesTo DEF WriteSteps, ApplySteps, Installing,
               Installed, PutBack
<1>6. CASE StageFile
  <2>1. /\ dir' = Stage(dir, worker.id, After(worker.id)) /\ possible' = {dir'}
        /\ worker.at = "stageFile" /\ Goto("exchange")
    BY <1>6 DEF StageFile, Mutates, Synced, At
  <2>2. dir'.target = dir.target /\ dir'.stage[worker.id] = After(worker.id)
    BY <1>2, <2>1, DirectoryReads
  <2>3. dir.target = before[worker.id]
    BY <1>3, <2>1 DEF MutationOk, Installing
  <2>. QED  BY <1>1, <1>2, <2>1, <2>2, <2>3, MutatesTo DEF WriteSteps, ApplySteps, Installing,
               Installed, PutBack
<1>7. CASE Exchange
  <2>1. /\ dir' = Exchanged(dir, worker.id) /\ possible' = possible \cup {dir'}
        /\ worker.at = "exchange" /\ Goto("syncExchange")
    BY <1>7 DEF Exchange, Mutates, Written, At
  <2>2. dir'.target = dir.stage[worker.id]
    BY <1>2, <2>1, DirectoryReads
  <2>3. dir.stage[worker.id] = After(worker.id)
    BY <1>3, <2>1 DEF MutationOk
  <2>. QED  BY <1>1, <1>2, <2>1, <2>2, <2>3, MutatesTo DEF WriteSteps, ApplySteps, Installing,
               Installed, PutBack
<1>8. CASE SyncExchange
  <2>1. dir' = dir /\ possible' = {dir'} /\ worker.at = "syncExchange" /\ Goto("remove")
    BY <1>8 DEF SyncExchange, Mutates, Synced, At
  <2>2. dir.target = After(worker.id)
    BY <1>3, <2>1 DEF MutationOk, Installed
  <2>. QED  BY <1>1, <1>2, <2>1, <2>2, MutatesTo DEF WriteSteps, ApplySteps, Installing,
               Installed, PutBack
<1>9. CASE RemoveDisplaced
  <2>1. /\ dir' = Stage(dir, worker.id, NoFile) /\ possible' = possible \cup {dir'}
        /\ worker.at = "remove" /\ Goto("syncRemoval")
    BY <1>9 DEF RemoveDisplaced, Mutates, Written, At
  <2>2. dir'.target = dir.target
    BY <1>2, <2>1, DirectoryReads
  <2>3. dir.target = After(worker.id)
    BY <1>3, <2>1 DEF MutationOk, Installed
  <2>. QED  BY <1>1, <1>2, <2>1, <2>2, <2>3, MutatesTo DEF WriteSteps, ApplySteps, Installing,
               Installed, PutBack
<1>10. CASE SyncRemoval
  <2>1. dir' = dir /\ possible' = {dir'} /\ worker.at = "syncRemoval" /\ Decides("committed")
    BY <1>10 DEF SyncRemoval, Synced, At
  <2>2. dir.target = After(worker.id)
    BY <1>3, <2>1 DEF MutationOk, Installed
  <2>. QED  BY <1>1, <1>2, <2>1, <2>2, DecidesTo
<1>11. CASE ApplyFails
  <2>1. /\ dir' = ApplyUnwound(dir, worker.id) /\ possible' = possible \cup {dir'}
        /\ Goto("close")
    BY <1>11 DEF ApplyFails, Written
  <2>2. dir'.target = dir.target
    BY <1>2, <2>1, DirectoryReads DEF ApplyUnwound
  <2>. QED  BY <1>1, <1>2, <2>1, <2>2, MutatesTo DEF WriteSteps, Installing, Installed, PutBack
<1>. QED  BY <1>4, <1>5, <1>6, <1>7, <1>8, <1>9, <1>10, <1>11

\* The way back.
LEMMA RestoreDisk ==
    ASSUME ExecutionInv, ExecutionInv', DiskInv,
           \/ CloseFailed \/ CreateRestore \/ ReuseRestore \/ RestoreFile \/ ExchangeBack
           \/ SyncBack \/ RemoveBack \/ SyncRestore
    PROVE  DiskInv'
<1>1. worker.at \in WriteSteps /\ UNCHANGED <<before, mount>> /\ edits' = edits
  BY DEF CloseFailed, CreateRestore, ReuseRestore, RestoreFile, ExchangeBack, SyncBack,
     RemoveBack, SyncRestore, Mutates, At, WriteSteps, RestoreSteps, bounds
<1>2. /\ worker.id \in Ids /\ dir \in Directory /\ dir \in possible
      /\ before[worker.id] \in Content /\ After(worker.id) \in Content
      /\ NoFile \in Content /\ Partial \in Content
  BY <1>1, AtWork
<1>3. MutationOk /\ BackupOk
  BY DEF DiskInv
<1>4. CASE CloseFailed
  <2>1. CASE TargetState(dir, worker.id) = "Before"
    <3>1. /\ dir' = CleanStage(dir, worker.id, After(worker.id))
          /\ possible' = possible \cup {dir'} /\ Decides("closed")
      BY <1>4, <2>1 DEF CloseFailed, Written
    <3>2. dir'.target = dir.target /\ dir.target = before[worker.id]
      BY <1>2, <1>3, <2>1, <3>1, DirectoryReads, States
    <3>. QED  BY <1>1, <1>2, <3>1, <3>2, DecidesTo
  <2>2. CASE TargetState(dir, worker.id) # "Before"
    <3>1. UNCHANGED disk /\ (Goto("restore") \/ Decides("manual"))
      BY <1>4, <2>2 DEF CloseFailed
    <3>2. CASE Goto("restore")
      BY <1>1, <1>2, <3>1, <3>2, MutatesTo DEF disk, WriteSteps, RestoreSteps, Installing,
         Installed, PutBack
    <3>3. CASE Decides("manual")
      BY <1>1, <1>2, <3>1, <3>3, DecidesTo DEF disk
    <3>. QED  BY <3>1, <3>2, <3>3
  <2>. QED  BY <2>1, <2>2
<1>5. CASE CreateRestore
  <2>1. /\ dir' = Restore(dir, worker.id, Partial) /\ possible' = possible \cup {dir'}
        /\ TargetState(dir, worker.id) = "After" /\ Goto("restoreFile")
    BY <1>5 DEF CreateRestore, Restorable, Mutates, Written
  <2>2. dir'.target = dir.target /\ dir.target = After(worker.id)
    BY <1>2, <1>3, <2>1, DirectoryReads, States
  <2>. QED  BY <1>1, <1>2, <2>1, <2>2, MutatesTo DEF WriteSteps, RestoreSteps, Installing,
               Installed, PutBack
<1>6. CASE ReuseRestore
  <2>1. /\ UNCHANGED disk /\ TargetState(dir, worker.id) = "After" /\ Goto("exchangeBack")
        /\ dir.restore[worker.id] = before[worker.id]
    BY <1>6 DEF ReuseRestore, Restorable, Mutates
  <2>2. dir.target = After(worker.id)
    BY <1>2, <1>3, <2>1, States
  <2>. QED  BY <1>1, <1>2, <2>1, <2>2, MutatesTo DEF disk, WriteSteps, RestoreSteps, Installing,
               Installed, PutBack
<1>7. CASE RestoreFile
  <2>1. /\ dir' = Restore(dir, worker.id, before[worker.id]) /\ possible' = {dir'}
        /\ worker.at = "restoreFile" /\ Goto("exchangeBack")
    BY <1>7 DEF RestoreFile, Mutates, Synced, At
  <2>2. dir'.target = dir.target /\ dir'.restore[worker.id] = before[worker.id]
    BY <1>2, <2>1, DirectoryReads
  <2>3. dir.target = After(worker.id)
    BY <1>3, <2>1 DEF MutationOk, Installed
  <2>. QED  BY <1>1, <1>2, <2>1, <2>2, <2>3, MutatesTo DEF WriteSteps, RestoreSteps, Installing,
               Installed, PutBack
<1>8. CASE ExchangeBack
  <2>1. /\ dir' = ExchangedBack(dir, worker.id) /\ possible' = possible \cup {dir'}
        /\ worker.at = "exchangeBack" /\ Goto("syncBack")
    BY <1>8 DEF ExchangeBack, Mutates, Written, At
  <2>2. dir'.target = dir.restore[worker.id]
    BY <1>2, <2>1, DirectoryReads
  <2>3. dir.restore[worker.id] = before[worker.id]
    BY <1>3, <2>1 DEF MutationOk
  <2>. QED  BY <1>1, <1>2, <2>1, <2>2, <2>3, MutatesTo DEF WriteSteps, RestoreSteps, Installing,
               Installed, PutBack
<1>9. CASE SyncBack
  <2>1. dir' = dir /\ possible' = {dir'} /\ worker.at = "syncBack" /\ Goto("removeBack")
    BY <1>9 DEF SyncBack, Mutates, Synced, At
  <2>2. dir.target = before[worker.id]
    BY <1>3, <2>1 DEF MutationOk, PutBack
  <2>. QED  BY <1>1, <1>2, <2>1, <2>2, MutatesTo DEF WriteSteps, RestoreSteps, Installing,
               Installed, PutBack
<1>10. CASE RemoveBack
  <2>1. /\ dir' = CleanStage(Restore(dir, worker.id, NoFile), worker.id, before[worker.id])
        /\ possible' = possible \cup {dir'} /\ worker.at = "removeBack" /\ Goto("syncRestore")
    BY <1>10 DEF RemoveBack, Mutates, Written, At
  <2>2. Restore(dir, worker.id, NoFile) \in Directory
    BY <1>2, DirectoryChanges
  <2>3. dir'.target = dir.target
    BY <1>2, <2>1, <2>2, DirectoryReads
  <2>4. dir.target = before[worker.id]
    BY <1>3, <2>1 DEF MutationOk, PutBack
  <2>. QED  BY <1>1, <1>2, <2>1, <2>3, <2>4, MutatesTo DEF WriteSteps, RestoreSteps, Installing,
               Installed, PutBack
<1>11. CASE SyncRestore
  <2>1. /\ dir' = dir /\ possible' = {dir'} /\ worker.at = "syncRestore"
        /\ Decides(Restored(worker.kind)) /\ Restored(worker.kind) # "committed"
    BY <1>11 DEF SyncRestore, Synced, At, Restored
  <2>2. dir.target = before[worker.id]
    BY <1>3, <2>1 DEF MutationOk, PutBack
  <2>. QED  BY <1>1, <1>2, <2>1, <2>2, DecidesTo
<1>. QED  BY <1>4, <1>5, <1>6, <1>7, <1>8, <1>9, <1>10, <1>11

\* A restore that fails or is not possible.
LEMMA RestoreFailsDisk ==
    ASSUME ExecutionInv, ExecutionInv', DiskInv, RestoreFails PROVE DiskInv'
<1>1. /\ worker.at \in WriteSteps /\ worker.at # "none" /\ before' = before /\ edits' = edits
  BY DEF RestoreFails, WriteSteps, RestoreSteps, Fault, bounds
<1>2. /\ worker.id \in Ids /\ dir \in Directory /\ dir \in possible /\ NoFile \in Content
  BY <1>1, AtWork
<1>3. PICK d : d = RestoreUnwound(dir, worker.id) /\ (RestoreEnds(d) \/ Error(d))
  BY DEF RestoreFails
<1>4. d.target = dir.target
  BY <1>2, <1>3, DirectoryReads DEF RestoreUnwound
<1>5. CASE Error(d)
  BY <1>1, <1>4, <1>5, ErrorQuiet
<1>6. CASE RestoreEnds(d) /\ ~Error(d)
  <2>1. /\ Written(d) /\ mount' = mount
        /\ Decides(IF TargetState(d, worker.id) = "Before" THEN Restored(worker.kind) ELSE "manual")
    BY <1>6 DEF RestoreEnds
  <2>2. PICK outcome : /\ Decides(outcome) /\ outcome # "committed"
                       /\ outcome = "manual" \/ TargetState(d, worker.id) = "Before"
    BY <2>1 DEF Restored
  <2>3. outcome \in {"closed", "rolledBack"} => dir.target = before[worker.id]
    BY <1>2, <1>4, <2>2, States DEF DiskInv
  <2>4. possible' \subseteq possible \cup {dir'} /\ dir'.target = dir.target
    BY <1>4, <2>1 DEF Written
  <2>. QED  BY <1>1, <1>2, <2>1, <2>2, <2>3, <2>4, DecidesTo
<1>. QED  BY <1>3, <1>5, <1>6

\* The lease is taken and the mount becomes writable.
LEMMA AcquireDisk ==
    ASSUME ExecutionInv, ExecutionInv', DiskInv, Acquire PROVE DiskInv'
<1>1. PICK to \in {"restore", "refresh"} : Goto(to)
  BY DEF Acquire
<1>2. worker.at = "acquire" /\ worker.id \in Ids /\ dir \in possible
  BY DEF Acquire, At, ExecutionInv, JobOwned, FileType
<1>3. worker'.at = to /\ to \in WriteSteps
  BY <1>1 DEF Goto, ExecutionInv, JobType, Job, WriteSteps, RestoreSteps
<1>4. mount' = "rw" /\ UNCHANGED <<before, disk>> /\ edits' = edits
  BY DEF Acquire, bounds
<1>5. MutationOk' /\ DecisionOk'
  BY <1>3 DEF MutationOk, DecisionOk, Installing, Installed, PutBack
<1>. QED  BY <1>2, <1>3, <1>4, <1>5, WritingStep DEF disk

\* The disk at the start.
LEMMA InitDisk == Init => DiskInv
<1>. SUFFICES ASSUME Init PROVE DiskInv
  OBVIOUS
<1>1. worker.at = "none" /\ service.phase = "down" /\ possible = {dir} /\ mount = "none"
  BY NoJobType DEF Init
<1>2. dir.target = Original /\ before = [id \in Ids |-> NoFile]
  BY DEF Init
<1>3. BackupOk
  BY <1>1, <1>2, Contents, ExecutionAssumption DEF BackupOk, After
<1>4. Mounted /\ Flushed /\ MutationOk /\ DecisionOk /\ Observed
  BY <1>1 DEF Mounted, Flushed, MutationOk, DecisionOk, Observed, HoldsRepair, HoldsRollback,
     WriteSteps, ApplySteps, RestoreSteps, Installing, Installed, PutBack
<1>. QED  BY <1>3, <1>4 DEF DiskInv

\* Every action keeps it.
LEMMA StepKeepsDisk == ExecutionInv /\ ExecutionInv' /\ DiskInv /\ [Next]_vars => DiskInv'
<1>. SUFFICES ASSUME ExecutionInv, ExecutionInv', DiskInv, [Next]_vars PROVE DiskInv'
  OBVIOUS
<1>1. CASE Requests
  BY <1>1, ObservedSteps, QuietSteps DEF Requests
<1>2. CASE Mutation
  BY <1>2, ApplyDisk, RestoreDisk DEF Mutation
<1>3. CASE Progress /\ ~Mutation
  BY <1>3, ObservedSteps, QuietSteps, ErrorQuietSteps, AcquireDisk, ApplyDisk, RestoreDisk,
     ReleaseDisk, ClassifyDisk DEF Progress
<1>4. CASE Failures
  BY <1>4, QuietSteps, ErrorQuietSteps, ApplyDisk, RestoreFailsDisk DEF Failures
<1>5. CASE Start \/ Killed \/ PowerLoss \/ Edit
  BY <1>5, QuietSteps, StopSteps, EditDisk
<1>6. CASE UNCHANGED vars
  BY <1>6 DEF vars, bounds, DiskInv, Mounted, Flushed, BackupOk, MutationOk, DecisionOk, Observed,
     HoldsRepair, HoldsRollback, OnDisk, After
<1>. QED  BY <1>1, <1>2, <1>3, <1>4, <1>5, <1>6 DEF Next

\* At every step of every job the target holds what the step relies on, and without the
\* writable mount nothing is left to be written.
THEOREM DiskInvariant == Spec => []DiskInv
<1>1. Init => DiskInv
  BY InitDisk
<1>2. ExecutionInv /\ ExecutionInv' /\ DiskInv /\ [Next]_vars => DiskInv'
  BY StepKeepsDisk
<1>. QED  BY <1>1, <1>2, ExecutionInvariant, PTL DEF Spec

\* A step of the service swaps exactly the backup and the replacement.
LEMMA TargetMoves ==
    ASSUME ExecutionInv, DiskInv, Next, dir'.target # dir.target
    PROVE  \/ Edit \/ PowerLoss
           \/ /\ mount = "rw"
              /\ {dir.target, dir'.target} = {before[worker.id], After(worker.id)}
<1>1. CASE Exchange
  <2>1. worker.at = "exchange" /\ worker.at \in WriteSteps /\ dir' = Exchanged(dir, worker.id)
    BY <1>1 DEF Exchange, Mutates, Written, At, WriteSteps, ApplySteps
  <2>2. dir'.target = dir.stage[worker.id]
    BY <2>1, AtWork, DirectoryReads
  <2>3. /\ mount = "rw" /\ dir.target = before[worker.id]
        /\ dir.stage[worker.id] = After(worker.id)
    BY <2>1 DEF DiskInv, Mounted, MutationOk, Installing
  <2>. QED  BY <2>2, <2>3
<1>2. CASE ExchangeBack
  <2>1. worker.at = "exchangeBack" /\ worker.at \in WriteSteps
        /\ dir' = ExchangedBack(dir, worker.id)
    BY <1>2 DEF ExchangeBack, Mutates, Written, At, WriteSteps, RestoreSteps
  <2>2. dir'.target = dir.restore[worker.id]
    BY <2>1, AtWork, DirectoryReads
  <2>3. /\ mount = "rw" /\ dir.target = After(worker.id)
        /\ dir.restore[worker.id] = before[worker.id]
    BY <2>1 DEF DiskInv, Mounted, MutationOk, Installed
  <2>. QED  BY <2>2, <2>3
<1>3. CASE \/ CreateStage \/ StageFile \/ SyncExchange \/ RemoveDisplaced \/ SyncRemoval
           \/ CreateRestore \/ ReuseRestore \/ RestoreFile \/ SyncBack \/ RemoveBack
           \/ SyncRestore \/ CloseFailed \/ ApplyFails \/ RestoreFails
  <2>1. worker.at \in WriteSteps
    BY <1>3 DEF CreateStage, StageFile, SyncExchange, RemoveDisplaced, SyncRemoval,
       CreateRestore, ReuseRestore, RestoreFile, SyncBack, RemoveBack, SyncRestore, CloseFailed,
       ApplyFails, RestoreFails, Mutates, At, WriteSteps, ApplySteps, RestoreSteps
  <2>2. /\ worker.id \in Ids /\ dir \in Directory
        /\ before[worker.id] \in Content /\ After(worker.id) \in Content
        /\ NoFile \in Content /\ Partial \in Content
    BY <2>1, AtWork
  <2>3. \E c \in Content : dir' \in {dir, Stage(dir, worker.id, c), Restore(dir, worker.id, c),
                                     CleanStage(dir, worker.id, c),
                                     CleanStage(Restore(dir, worker.id, NoFile), worker.id, c)}
    <3>1. CASE CloseFailed \/ ApplyFails
      BY <1>3, <2>2, <3>1 DEF CloseFailed, ApplyFails, ApplyUnwound, Written, disk
    <3>2. CASE RestoreFails
      <4>1. PICK d : d = RestoreUnwound(dir, worker.id) /\ (RestoreEnds(d) \/ Error(d))
        BY <3>2 DEF RestoreFails
      <4>2. dir' = d
        BY <4>1 DEF RestoreEnds, Error, Unmounted, Synced, Written
      <4>. QED  BY <2>2, <4>1, <4>2 DEF RestoreUnwound
    <3>. QED  BY <1>3, <2>2, <3>1, <3>2 DEF CreateStage, StageFile, SyncExchange,
                 RemoveDisplaced, SyncRemoval, CreateRestore, ReuseRestore, RestoreFile, SyncBack,
                 RemoveBack, SyncRestore, Mutates, Written, Synced, disk
  <2>4. Restore(dir, worker.id, NoFile) \in Directory
    BY <2>2, DirectoryChanges
  <2>5. dir'.target = dir.target
    BY <2>2, <2>3, <2>4, DirectoryReads
  <2>. QED  BY <2>5
<1>4. CASE \/ PersistFails \/ AcquireRefused \/ ResolveStale
           \/ AcquireFails \/ MountedFails \/ ResolveFails
           \/ RecoverFails \/ Release \/ Killed
  <2>1. dir' = dir
    BY <1>4 DEF PersistFails, AcquireRefused, ResolveStale, AcquireFails, MountedFails,
       ResolveFails,
       RecoverFails, Release, Killed, Error, Unmounted, Synced
  <2>. QED  BY <2>1
<1>5. CASE \/ Requests \/ PrepareRepair \/ CancelPrepared \/ PersistPending \/ Acquire \/ Refresh
           \/ ResolvePending \/ NothingToRecover \/ Classify \/ PrepareRollback
           \/ AuthorizeRollback \/ PrepareFails \/ DecisionFails \/ RollbackUnavailable
           \/ AuthorizeRefused \/ AuthorizeFails \/ Start
  <2>1. UNCHANGED disk
    BY <1>5 DEF Requests, RequestPrepare, RequestRollback, RequestDecision,
       RequestRollbackApproval, CancelRollback, PrepareRepair, CancelPrepared, PersistPending,
       Acquire, Refresh, ResolvePending, NothingToRecover, Classify, PrepareRollback,
       AuthorizeRollback, PrepareFails, DecisionFails, RollbackUnavailable, AuthorizeRefused,
       AuthorizeFails, Start
  <2>. QED  BY <2>1 DEF disk
<1>. QED  BY <1>1, <1>2, <1>3, <1>4, <1>5 DEF Next, Progress, Mutation, Failures

\* "Recovery never overwrites a post-repair third state": apart from edits and power
\* losses, the target only ever changes from the exact backup to the exact replacement or
\* back, under the writable mount of that job (apply_exact_replacement,
\* restore_exact_backup).
THEOREM ThirdStateKept == Spec => KeepsThirdState
<1>1. ExecutionInv /\ DiskInv /\ [Next]_vars
        => [dir'.target # dir.target =>
              \/ edits' # edits \/ boot' # boot
              \/ /\ mount = "rw"
                 /\ {dir.target, dir'.target} = {before[worker.id], After(worker.id)}]_vars
  <2>1. ASSUME ExecutionInv, Edit PROVE edits' # edits
    <3>1. edits' = edits + 1 /\ edits \in Nat
      BY <2>1, ExecutionAssumption DEF Edit, ExecutionInv, BoundType
    <3>. QED  BY <3>1
  <2>2. ASSUME ExecutionInv, PowerLoss PROVE boot' # boot
    <3>1. boot' = boot + 1 /\ boot \in Nat
      BY <2>2 DEF PowerLoss, NextBoot, ExecutionInv, VaultTypeOK
    <3>. QED  BY <3>1
  <2>. QED  BY <2>1, <2>2, TargetMoves
<1>. QED  BY <1>1, ExecutionInvariant, DiskInvariant, PTL DEF Spec, KeepsThirdState

\* What a step may ask of the Vault: one operation for the job's own transaction.
Asks ==
    \/ worker.at = "prepare" /\ Reserve(worker.id)
    \/ worker.at = "persist" /\ Persist(worker.id)
    \/ worker.at \in {"persist", "cancel"} /\ CancelReservation(worker.id)
    \/ worker.at = "acquire" /\ ConsumeLease(worker.kind, worker.id)
    \/ worker.at = "resolve" /\ Record(worker.kind, worker.id, worker.outcome)
    \/ worker.at = "authorize" /\ BeginChild(worker.id)

\* The Vault changes only while the disk rests, and a backup only with its reservation.
LEMMA VaultMoves ==
    ASSUME ExecutionInv, DiskInv, Next
    PROVE  \/ tx' = tx /\ before' = before
           \/ /\ Asks /\ worker.id \in Ids /\ possible = {dir} /\ UNCHANGED disk
              /\ \/ before' = before
                 \/ /\ worker.at = "prepare" /\ Reserve(worker.id)
                    /\ before' = [before EXCEPT ![worker.id] = dir.target]
<1>1. CASE \/ PrepareRepair \/ PrepareFails \/ CancelPrepared \/ DecisionFails \/ PersistPending
           \/ PersistFails \/ Acquire \/ AcquireFails \/ ResolvePending \/ ResolveFails
           \/ AuthorizeRollback \/ AuthorizeFails
  <2>1. worker.at \in {"prepare", "cancel", "persist", "acquire", "resolve", "authorize"}
    BY <1>1 DEF PrepareRepair, PrepareFails, CancelPrepared, DecisionFails, PersistPending,
       PersistFails, Acquire, AcquireFails, ResolvePending, ResolveFails, AuthorizeRollback,
       AuthorizeFails, At
  <2>2. worker.id \in Ids /\ possible = {dir}
    BY <2>1 DEF ExecutionInv, JobOwned, MountOwned, DiskInv, Flushed, WriteSteps, ApplySteps,
       RestoreSteps
  <2>3. UNCHANGED disk
    BY <1>1, <2>2 DEF PrepareRepair, PrepareFails, CancelPrepared, DecisionFails, PersistPending,
       PersistFails, Acquire, AcquireFails, ResolvePending, ResolveFails, AuthorizeRollback,
       AuthorizeFails, Error, Unmounted, Synced, disk
  <2>4. tx' = tx \/ Asks
    BY <1>1 DEF PrepareRepair, PrepareFails, CancelPrepared, DecisionFails, PersistPending,
       PersistFails, Acquire, AcquireFails, ResolvePending, ResolveFails, AuthorizeRollback,
       AuthorizeFails, At, Asks, vaultVars
  <2>5. CASE PrepareRepair
    <3>1. /\ worker.at = "prepare" /\ Reserve(worker.id)
          /\ before' = [before EXCEPT ![worker.id] = dir.target]
      BY <2>5 DEF PrepareRepair, At
    <3>. QED  BY <2>2, <2>3, <3>1 DEF Asks
  <2>6. CASE ~PrepareRepair
    <3>1. before' = before
      BY <1>1, <2>6 DEF PrepareFails, CancelPrepared, DecisionFails, PersistPending,
         PersistFails, Acquire, AcquireFails, ResolvePending, ResolveFails, AuthorizeRollback,
         AuthorizeFails
    <3>. QED  BY <2>2, <2>3, <2>4, <3>1
  <2>. QED  BY <2>5, <2>6
<1>2. CASE \/ Requests \/ Refresh \/ Mutation \/ CloseFailed \/ Release \/ AcquireRefused
           \/ ResolveStale \/ NothingToRecover \/ Classify \/ PrepareRollback
  BY <1>2 DEF Requests, RequestPrepare, RequestRollback, RequestDecision,
     RequestRollbackApproval, CancelRollback, Refresh, CloseFailed, Release, AcquireRefused,
     ResolveStale, NothingToRecover, Classify, PrepareRollback, Mutation, CreateStage,
     StageFile, Exchange,
     SyncExchange, RemoveDisplaced, SyncRemoval, CreateRestore, ReuseRestore, RestoreFile,
     ExchangeBack, SyncBack, RemoveBack, SyncRestore, Mutates, vaultVars
<1>3. CASE \/ MountedFails \/ ApplyFails \/ RestoreFails \/ RecoverFails \/ RollbackUnavailable
           \/ AuthorizeRefused \/ Start \/ Killed \/ PowerLoss \/ Edit
  BY <1>3 DEF MountedFails, ApplyFails, RestoreFails, RecoverFails, RollbackUnavailable,
     AuthorizeRefused, Start, Killed, PowerLoss, Edit, NextBoot, vaultVars
<1>. QED  BY <1>1, <1>2, <1>3 DEF Next, Progress, Failures

\* An outcome enters the Vault only as the job's decision.
LEMMA OutcomeRecorded ==
    ASSUME ExecutionInv, DiskInv, Next, NEW id \in Ids
    PROVE  /\ tx[id].phase # "committed" /\ tx'[id].phase = "committed"
                => worker.at = "resolve" /\ worker.id = id /\ worker.outcome = "committed"
           /\ tx[id].phase # "closed" /\ tx'[id].phase = "closed"
                => worker.at = "resolve" /\ worker.id = id /\ worker.outcome = "closed"
           /\ tx[id].child # "rolledBack" /\ tx'[id].child = "rolledBack"
                => worker.at = "resolve" /\ worker.id = id /\ worker.outcome = "rolledBack"
<1>1. CASE tx' = tx
  BY <1>1
<1>2. tx \in [Ids -> TransactionStatus]
  BY DEF ExecutionInv, VaultTypeOK
<1>3. CASE Asks /\ worker.id \in Ids
  <2>1. CASE \/ Reserve(worker.id) \/ Persist(worker.id) \/ CancelReservation(worker.id)
             \/ ConsumeLease(worker.kind, worker.id) \/ BeginChild(worker.id)
    BY <1>2, <1>3, <2>1 DEF Reserve, Persist, CancelReservation, ConsumeLease, Lease, LeaseChild,
       BeginChild, TransactionStatus, FreeSlot
  <2>2. CASE worker.at = "resolve" /\ Record(worker.kind, worker.id, worker.outcome)
    BY <1>2, <1>3, <2>2 DEF Record, Resolve, ResolveChild, TransactionStatus
  <2>. QED  BY <1>3, <2>1, <2>2 DEF Asks
<1>. QED  BY <1>1, <1>3, VaultMoves

\* What a resolution says is on the disk for good when it is recorded, unless somebody
\* edited the file since the write mount was dropped (release_write_mount before
\* resolve_pending), for any number of repairs, faults, deaths and edits.
THEOREM ResolutionOnDisk == Spec => SettledOnDisk
<1> DEFINE Recorded(id) ==
      /\ tx[id].phase # "committed" /\ tx'[id].phase = "committed" => OnDisk(id, After(id))
      /\ tx[id].phase # "closed" /\ tx'[id].phase = "closed" => OnDisk(id, before[id])
      /\ tx[id].child # "rolledBack" /\ tx'[id].child = "rolledBack" => OnDisk(id, before[id])
<1>1. ExecutionInv /\ DiskInv /\ [Next]_vars => [\A id \in Ids : Recorded(id)]_vars
  <2>. SUFFICES ASSUME ExecutionInv, DiskInv, Next, NEW id \in Ids PROVE Recorded(id)
    OBVIOUS
  <2>1. worker.at = "resolve" =>
          /\ worker.outcome = "committed" => OnDisk(worker.id, After(worker.id))
          /\ worker.outcome \in {"closed", "rolledBack"} => OnDisk(worker.id, before[worker.id])
    BY DEF DiskInv, DecisionOk
  <2>. QED  BY <2>1, OutcomeRecorded
<1>. QED  BY <1>1, ExecutionInvariant, DiskInvariant, PTL DEF Spec, SettledOnDisk

(***************************************************************************)
(* The third layer: how transactions, backups and the target relate.       *)
(***************************************************************************)
\* At most one transaction is open, and only a committed repair has a child.
IsOpen(id) == tx[id].phase \in Unresolved \/ tx[id].child \in Unresolved
OneOpen == \A i, j \in Ids : IsOpen(i) /\ IsOpen(j) => i = j
ChildOfCommitted == \A id \in Ids : tx[id].child # "none" => tx[id].phase = "committed"

\* A repair whose replacement may be on the target now, or under a later one.
Live(id) ==
    tx[id].phase \in Unresolved \/ (tx[id].phase = "committed" /\ tx[id].child # "rolledBack")
CommittedAlone(id) == tx[id].phase = "committed" /\ tx[id].child = "none"

\* Repairs of one file are stacked: a replacement on the target is that of a live repair,
\* the backup of a live repair is that of a committed one, which is therefore covered and
\* not on the target, and no two live repairs cover the same one.
TargetLive == \A d \in possible : d.target \in Ids => Live(d.target)
BackupCommitted == \A id \in Ids : Live(id) /\ before[id] \in Ids => CommittedAlone(before[id])
CommittedCovers ==
    \A id \in Ids : CommittedAlone(id) /\ before[id] \in Ids =>
        \A d \in possible : d.target # before[id]
BackupsDiffer ==
    \A i, j \in Ids : Live(i) /\ Live(j) /\ before[i] \in Ids /\ before[i] = before[j] => i = j

ChainInv ==
    /\ OneOpen /\ ChildOfCommitted
    /\ TargetLive /\ BackupCommitted /\ CommittedCovers /\ BackupsDiffer

\* A step adds at most the directory it makes to what a power loss may leave.
LEMMA PossibleMoves ==
    ASSUME ExecutionInv, DiskInv, Next, NEW d \in possible'
    PROVE  \/ \E e \in possible : d.target = e.target
           \/ d.target = Foreign
           \/ mount = "rw" /\ d.target \in {before[worker.id], After(worker.id)}
<1>1. d \in possible \/ d = dir'
  <2>1. CASE \/ Requests \/ PrepareRepair \/ CancelPrepared \/ PersistPending \/ Acquire \/ Refresh
             \/ ResolvePending \/ NothingToRecover \/ Classify \/ PrepareRollback
             \/ AuthorizeRollback \/ PrepareFails \/ DecisionFails \/ RollbackUnavailable
             \/ AuthorizeRefused \/ AuthorizeFails \/ Start
    BY <2>1 DEF Requests, RequestPrepare, RequestRollback, RequestDecision,
       RequestRollbackApproval, CancelRollback, PrepareRepair, CancelPrepared, PersistPending,
       Acquire, Refresh, ResolvePending, NothingToRecover, Classify, PrepareRollback,
       AuthorizeRollback, PrepareFails, DecisionFails, RollbackUnavailable, AuthorizeRefused,
       AuthorizeFails, Start, disk
  <2>2. CASE \/ PersistFails \/ AcquireRefused \/ ResolveStale
             \/ AcquireFails \/ MountedFails \/ ResolveFails
             \/ RecoverFails \/ Release \/ Killed \/ PowerLoss \/ Edit
    BY <2>2 DEF PersistFails, AcquireRefused, ResolveStale, AcquireFails, MountedFails,
       ResolveFails,
       RecoverFails, Release, Killed, PowerLoss, Edit, Error, Unmounted, Synced
  <2>3. CASE RestoreFails
    <3>1. \E e : RestoreEnds(e) \/ Error(e)
      BY <2>3 DEF RestoreFails
    <3>. QED  BY <3>1 DEF RestoreEnds, Error, Unmounted, Synced, Written
  <2>4. CASE Mutation \/ CloseFailed \/ ApplyFails
    BY <2>4 DEF Mutation, CreateStage, StageFile, Exchange, SyncExchange, RemoveDisplaced,
       SyncRemoval, CreateRestore, ReuseRestore, RestoreFile, ExchangeBack, SyncBack, RemoveBack,
       SyncRestore, Mutates, CloseFailed, ApplyFails, Written, Synced, disk
  <2>. QED  BY <2>1, <2>2, <2>3, <2>4 DEF Next, Progress, Failures
<1>2. CASE d \in possible
  BY <1>2
<1>3. CASE d = dir' /\ dir'.target = dir.target
  BY <1>3 DEF ExecutionInv, FileType
<1>4. CASE d = dir' /\ dir'.target # dir.target
  <2>1. CASE Edit
    BY <1>4, <2>1 DEF Edit, Synced, ExecutionInv, FileType, Directory
  <2>2. CASE PowerLoss
    BY <1>4, <2>2 DEF PowerLoss, Unmounted, Synced
  <2>. QED  BY <1>4, <2>1, <2>2, TargetMoves
<1>. QED  BY <1>1, <1>2, <1>3, <1>4

\* A change of the disk keeps the stack.
LEMMA ChainDisk ==
    ASSUME ExecutionInv, DiskInv, ChainInv, Next, tx' = tx, before' = before
    PROVE  ChainInv'
<1>1. OneOpen' /\ ChildOfCommitted' /\ BackupCommitted' /\ BackupsDiffer'
  BY DEF ChainInv, OneOpen, ChildOfCommitted, BackupCommitted, BackupsDiffer, IsOpen, Live,
     CommittedAlone
<1>2. mount = "rw" =>
        /\ worker.id \in Ids /\ Live(worker.id) /\ ~CommittedAlone(worker.id)
        /\ before[worker.id] \in Ids => CommittedAlone(before[worker.id])
  <2>1. mount = "rw" =>
          worker.id \in Ids /\ "pending" \in {tx[worker.id].phase, tx[worker.id].child}
    BY DEF ExecutionInv, WriteAuthority, Status
  <2>2. mount = "rw" => Live(worker.id) /\ ~CommittedAlone(worker.id)
    BY <2>1 DEF ChainInv, ChildOfCommitted, Live, CommittedAlone, Unresolved
  <2>. QED  BY <2>1, <2>2 DEF ChainInv, BackupCommitted
<1>3. TargetLive'
  <2>. SUFFICES ASSUME NEW d \in possible', d.target \in Ids PROVE Live(d.target)'
    BY DEF TargetLive
  <2>1. Live(d.target)
    <3>1. CASE \E e \in possible : d.target = e.target
      BY <3>1 DEF ChainInv, TargetLive
    <3>2. CASE d.target = Foreign
      BY <3>2, Contents
    <3>3. CASE mount = "rw" /\ d.target \in {before[worker.id], After(worker.id)}
      BY <1>2, <3>3 DEF After, Live, CommittedAlone
    <3>. QED  BY <3>1, <3>2, <3>3, PossibleMoves
  <2>. QED  BY <2>1 DEF Live
<1>4. CommittedCovers'
  <2>. SUFFICES ASSUME NEW id \in Ids, CommittedAlone(id), before[id] \in Ids,
                       NEW d \in possible'
                PROVE  d.target # before[id]
    BY DEF CommittedCovers, CommittedAlone
  <2>1. Live(id) /\ CommittedAlone(before[id])
    BY DEF ChainInv, BackupCommitted, Live, CommittedAlone
  <2>2. CASE \E e \in possible : d.target = e.target
    BY <2>2 DEF ChainInv, CommittedCovers
  <2>3. CASE d.target = Foreign
    BY <2>3, Contents
  <2>4. CASE mount = "rw" /\ d.target = After(worker.id)
    BY <1>2, <2>1, <2>4 DEF After
  <2>5. CASE mount = "rw" /\ d.target = before[worker.id]
    BY <1>2, <2>1, <2>5 DEF ChainInv, BackupsDiffer
  <2>. QED  BY <2>2, <2>3, <2>4, <2>5, PossibleMoves
<1>. QED  BY <1>1, <1>3, <1>4 DEF ChainInv

\* An operation that opens, settles and commits nothing keeps the stack.
LEMMA ChainSame ==
    ASSUME ChainInv, UNCHANGED disk,
           \A i \in Ids : /\ IsOpen(i)' => IsOpen(i)
                          /\ Live(i)' <=> Live(i)
                          /\ CommittedAlone(i)' <=> CommittedAlone(i)
                          /\ (tx[i].child # "none" => tx[i].phase = "committed")'
                          /\ Live(i) => before'[i] = before[i]
    PROVE  ChainInv'
<1>1. OneOpen' /\ ChildOfCommitted'
  BY DEF ChainInv, OneOpen, ChildOfCommitted
<1>2. TargetLive'
  BY DEF ChainInv, TargetLive, disk
<1>3. BackupCommitted' /\ BackupsDiffer'
  BY DEF ChainInv, BackupCommitted, BackupsDiffer
<1>4. CommittedCovers'
  <2>1. \A i \in Ids : CommittedAlone(i)' => Live(i) /\ CommittedAlone(i)
    BY DEF Live, CommittedAlone
  <2>. QED  BY <2>1 DEF ChainInv, CommittedCovers, disk
<1>. QED  BY <1>1, <1>2, <1>3, <1>4 DEF ChainInv

\* A reservation made or cancelled, a lease, a transaction left to a human.
LEMMA ChainPlain ==
    ASSUME ExecutionInv, ChainInv, UNCHANGED disk, worker.id \in Ids,
           \/ before' = before
           \/ Reserve(worker.id) /\ before' = [before EXCEPT ![worker.id] = dir.target],
           \/ Reserve(worker.id) \/ CancelReservation(worker.id)
           \/ ConsumeLease(worker.kind, worker.id) \/ Record(worker.kind, worker.id, "manual")
    PROVE  ChainInv'
<1>. PICK w \in Ids : w = worker.id
  OBVIOUS
<1>1. tx \in [Ids -> TransactionStatus] /\ w \in Ids /\ before \in [Ids -> Content]
  BY DEF ExecutionInv, VaultTypeOK, FileType
<1>2. tx[w].child # "none" => tx[w].phase = "committed"
  BY <1>1 DEF ChainInv, ChildOfCommitted
<1>3. \A i \in Ids : i # w => tx'[i] = tx[i]
  BY <1>1 DEF Reserve, CancelReservation, ConsumeLease, Lease, LeaseChild, Record, Resolve,
     ResolveChild
<1>4. /\ IsOpen(w)' => IsOpen(w)
      /\ Live(w)' <=> Live(w)
      /\ CommittedAlone(w)' <=> CommittedAlone(w)
      /\ (tx[w].child # "none" => tx[w].phase = "committed")'
      /\ Reserve(w) => ~Live(w)
  <2> DEFINE old == tx[w]
             new == tx'[w]
  <2>1. CASE Reserve(w)
    <3>1. old.phase = "free" /\ new.phase = "reserved" /\ new.child = old.child
      BY <1>1, <2>1 DEF Reserve, TransactionStatus
    <3>. QED  BY <1>2, <3>1 DEF IsOpen, Live, CommittedAlone, Unresolved
  <2>2. CASE CancelReservation(w)
    <3>1. old.phase = "reserved" /\ new.phase = "free" /\ new.child = "none"
      BY <1>1, <2>2 DEF CancelReservation, FreeSlot
    <3>. QED  BY <1>2, <3>1 DEF IsOpen, Live, CommittedAlone, Unresolved, Reserve
  <2>3. CASE ConsumeLease(worker.kind, w)
    <3>1. new.phase = old.phase /\ new.child = old.child /\ ~Reserve(w)
      <4>1. CASE worker.kind = "repair"
        BY <1>1, <2>3, <4>1 DEF ConsumeLease, Lease, TransactionStatus, Reserve
      <4>2. CASE worker.kind # "repair"
        <5>1. old.child = "pending" /\ new.phase = old.phase /\ new.child = old.child
          BY <1>1, <2>3, <4>2 DEF ConsumeLease, LeaseChild, TransactionStatus
        <5>. QED  BY <1>2, <5>1 DEF Reserve
      <4>. QED  BY <4>1, <4>2
    <3>. QED  BY <1>2, <3>1 DEF IsOpen, Live, CommittedAlone
  <2>4. CASE Record(worker.kind, w, "manual")
    <3>1. CASE worker.kind = "repair"
      <4>1. old.phase = "pending" /\ new.phase = "manual" /\ new.child = old.child
        BY <1>1, <2>4, <3>1 DEF Record, Resolve, TransactionStatus, Unresolved
      <4>. QED  BY <1>2, <4>1 DEF IsOpen, Live, CommittedAlone, Unresolved, Reserve
    <3>2. CASE worker.kind # "repair"
      <4>1. old.child = "pending" /\ new.child = "manual" /\ new.phase = old.phase
        BY <1>1, <2>4, <3>2 DEF Record, ResolveChild, TransactionStatus, Unresolved
      <4>. QED  BY <1>2, <4>1 DEF IsOpen, Live, CommittedAlone, Unresolved, Reserve
    <3>. QED  BY <3>1, <3>2
  <2>. QED  BY <2>1, <2>2, <2>3, <2>4
<1>5. \A i \in Ids : Live(i) => before'[i] = before[i]
  BY <1>1, <1>4
<1>6. \A i \in Ids \ {w} : /\ IsOpen(i)' => IsOpen(i)
                           /\ Live(i)' <=> Live(i)
                           /\ CommittedAlone(i)' <=> CommittedAlone(i)
                           /\ (tx[i].child # "none" => tx[i].phase = "committed")'
  BY <1>3 DEF IsOpen, Live, CommittedAlone, ChainInv, ChildOfCommitted
<1>. QED  BY <1>4, <1>5, <1>6, ChainSame

\* Nothing is open: every live repair is committed and has no child.
LEMMA NothingOpenLive ==
    ASSUME ExecutionInv, NothingOpen, NEW id \in Ids, Live(id)
    PROVE  CommittedAlone(id) /\ ~IsOpen(id)
<1>1. tx[id].phase \notin Unresolved /\ tx[id].child \notin Unresolved
  BY DEF NothingOpen, UnresolvedRepairs, UnresolvedRollbacks
<1>2. tx[id].child \in ChildPhase
  BY DEF ExecutionInv, VaultTypeOK, TransactionStatus
<1>. QED  BY <1>1, <1>2 DEF Live, CommittedAlone, IsOpen, Unresolved, ChildPhase

\* The repair becomes pending on top of the stack.
LEMMA ChainPersist ==
    ASSUME ExecutionInv, DiskInv, ChainInv, worker.at = "persist", worker.id \in Ids,
           Persist(worker.id), UNCHANGED <<disk, before>>
    PROVE  ChainInv'
<1>. PICK w \in Ids : w = worker.id
  OBVIOUS
<1>1. tx \in [Ids -> TransactionStatus] /\ w \in Ids /\ NothingOpen
  BY DEF ExecutionInv, VaultTypeOK, Persist
<1>2. (\A i \in Ids : i # w => tx'[i] = tx[i]) /\ tx[w].phase = "reserved"
      /\ tx'[w].phase = "pending" /\ tx'[w].child = tx[w].child
  BY <1>1 DEF Persist, TransactionStatus
<1>3. tx[w].child = "none"
  BY <1>1, <1>2 DEF ChainInv, ChildOfCommitted
<1>4. \A i \in Ids : ~IsOpen(i)
  BY <1>1 DEF NothingOpen, UnresolvedRepairs, UnresolvedRollbacks, IsOpen
<1>5. \A i \in Ids : i # w => /\ ~IsOpen(i)'
                              /\ Live(i)' <=> Live(i)
                              /\ CommittedAlone(i)' <=> CommittedAlone(i)
                              /\ Live(i) => CommittedAlone(i)
  BY <1>1, <1>2, <1>4, NothingOpenLive DEF IsOpen, Live, CommittedAlone
<1>6. /\ ~Live(w) /\ Live(w)' /\ ~CommittedAlone(w) /\ ~CommittedAlone(w)'
  BY <1>2, <1>3 DEF Live, CommittedAlone, Unresolved
<1>7. dir.target = before[w] /\ dir \in possible
  BY DEF DiskInv, Observed, HoldsRepair, ExecutionInv, FileType
<1>8. OneOpen'
  BY <1>5 DEF OneOpen
<1>9. ChildOfCommitted'
  BY <1>1, <1>2, <1>3 DEF ChainInv, ChildOfCommitted
<1>10. TargetLive'
  BY <1>5, <1>6 DEF ChainInv, TargetLive, disk
<1>11. BackupCommitted'
  <2>. SUFFICES ASSUME NEW i \in Ids, Live(i)', before[i] \in Ids PROVE CommittedAlone(before[i])'
    BY DEF BackupCommitted
  <2>1. CommittedAlone(before[i])
    <3>1. CASE i = w
      <4>1. Live(before[i])
        BY <1>7, <3>1 DEF ChainInv, TargetLive
      <4>. QED  BY <1>1, <4>1, NothingOpenLive
    <3>2. CASE i # w
      BY <1>5, <3>2 DEF ChainInv, BackupCommitted
    <3>. QED  BY <3>1, <3>2
  <2>2. before[i] # w
    BY <1>6, <2>1
  <2>. QED  BY <1>5, <2>1, <2>2
<1>12. CommittedCovers'
  BY <1>5, <1>6 DEF ChainInv, CommittedCovers, disk
<1>13. BackupsDiffer'
  <2>. SUFFICES ASSUME NEW i \in Ids, NEW j \in Ids, Live(i)', Live(j)', before[i] \in Ids,
                       before[i] = before[j], i # j
                PROVE  FALSE
    BY DEF BackupsDiffer
  <2>1. CASE i # w /\ j # w
    BY <1>5, <2>1 DEF ChainInv, BackupsDiffer
  <2>2. ASSUME NEW k \in Ids, k # w, Live(k)', before[k] \in Ids, before[k] = before[w]
        PROVE  FALSE
    <3>1. CommittedAlone(k)
      BY <1>5, <2>2
    <3>. QED  BY <1>7, <2>2, <3>1 DEF ChainInv, CommittedCovers
  <2>. QED  BY <2>1, <2>2
<1>. QED  BY <1>8, <1>9, <1>10, <1>11, <1>12, <1>13 DEF ChainInv

\* A repair is committed: its replacement covers its backup.
LEMMA ChainCommit ==
    ASSUME ExecutionInv, DiskInv, ChainInv, worker.at = "resolve", worker.id \in Ids,
           worker.outcome = "committed", Resolve(worker.id, "committed"),
           UNCHANGED <<disk, before>>
    PROVE  ChainInv'
<1>. PICK w \in Ids : w = worker.id
  OBVIOUS
<1>1. tx \in [Ids -> TransactionStatus]
  BY DEF ExecutionInv, VaultTypeOK
<1>2. (\A i \in Ids : i # w => tx'[i] = tx[i]) /\ tx[w].phase \in Unresolved
      /\ tx'[w].phase = "committed" /\ tx'[w].child = tx[w].child
  BY <1>1 DEF Resolve, TransactionStatus
<1>3. tx[w].child = "none"
  BY <1>2 DEF ChainInv, ChildOfCommitted, Unresolved
<1>4. \A i \in Ids : /\ IsOpen(i)' => IsOpen(i)
                     /\ Live(i)' <=> Live(i)
                     /\ CommittedAlone(i) => CommittedAlone(i)'
                     /\ i # w => (CommittedAlone(i)' <=> CommittedAlone(i))
  BY <1>2, <1>3 DEF IsOpen, Live, CommittedAlone, Unresolved
<1>5. OneOpen' /\ ChildOfCommitted'
  BY <1>2, <1>4 DEF ChainInv, OneOpen, ChildOfCommitted
<1>6. TargetLive' /\ BackupCommitted' /\ BackupsDiffer'
  BY <1>4 DEF ChainInv, TargetLive, BackupCommitted, BackupsDiffer, disk
<1>7. \A d \in possible : before[w] \in Ids => d.target # before[w]
  <2>1. OnDisk(w, After(w)) /\ before[w] # After(w)
    BY DEF DiskInv, DecisionOk, BackupOk
  <2>. QED  BY <2>1, Contents DEF OnDisk
<1>8. CommittedCovers'
  BY <1>4, <1>7 DEF ChainInv, CommittedCovers, disk
<1>. QED  BY <1>5, <1>6, <1>8 DEF ChainInv

\* A repair is closed or rolled back: its replacement is gone from the target.
LEMMA ChainClose ==
    ASSUME ExecutionInv, DiskInv, ChainInv, worker.at = "resolve", worker.id \in Ids,
           worker.outcome \in {"closed", "rolledBack"},
           \/ Resolve(worker.id, "closed") \/ ResolveChild(worker.id, "rolledBack"),
           UNCHANGED <<disk, before>>
    PROVE  ChainInv'
<1>. PICK w \in Ids : w = worker.id
  OBVIOUS
<1>1. tx \in [Ids -> TransactionStatus]
  BY DEF ExecutionInv, VaultTypeOK
<1>2. \A i \in Ids : i # w => tx'[i] = tx[i]
  BY <1>1 DEF Resolve, ResolveChild
<1>3. /\ ~Live(w)' /\ ~CommittedAlone(w)' /\ ~CommittedAlone(w) /\ ~IsOpen(w)'
      /\ tx'[w].child # "none" => tx'[w].phase = "committed"
  <2>0. tx[w].child # "none" => tx[w].phase = "committed"
    BY DEF ChainInv, ChildOfCommitted
  <2>1. CASE Resolve(w, "closed")
    <3>1. tx[w].phase \in Unresolved /\ tx'[w].phase = "closed" /\ tx'[w].child = tx[w].child
      BY <1>1, <2>1 DEF Resolve, TransactionStatus
    <3>. QED  BY <2>0, <3>1 DEF Live, CommittedAlone, IsOpen, Unresolved
  <2>2. CASE ResolveChild(w, "rolledBack")
    <3>1. tx[w].child \in Unresolved /\ tx'[w].child = "rolledBack" /\ tx'[w].phase = tx[w].phase
      BY <1>1, <2>2 DEF ResolveChild, TransactionStatus
    <3>. QED  BY <2>0, <3>1 DEF Live, CommittedAlone, IsOpen, Unresolved
  <2>. QED  BY <2>1, <2>2
<1>4. \A i \in Ids : /\ IsOpen(i)' => IsOpen(i)
                     /\ Live(i)' => Live(i) /\ i # w
                     /\ i # w => (Live(i)' <=> Live(i))
                     /\ CommittedAlone(i)' <=> CommittedAlone(i)
  BY <1>2, <1>3 DEF IsOpen, Live, CommittedAlone
<1>5. OneOpen' /\ ChildOfCommitted'
  BY <1>2, <1>3, <1>4 DEF ChainInv, OneOpen, ChildOfCommitted
<1>6. \A d \in possible : d.target # w
  <2>1. OnDisk(w, before[w]) /\ before[w] # w
    BY DEF DiskInv, DecisionOk, BackupOk, After
  <2>. QED  BY <2>1, Contents DEF OnDisk
<1>7. TargetLive'
  BY <1>4, <1>6 DEF ChainInv, TargetLive, disk
<1>8. BackupCommitted' /\ BackupsDiffer' /\ CommittedCovers'
  BY <1>4 DEF ChainInv, BackupCommitted, BackupsDiffer, CommittedCovers, disk
<1>. QED  BY <1>5, <1>7, <1>8 DEF ChainInv

\* A rollback is begun of the repair on the target, which nothing covers.
LEMMA ChainBegin ==
    ASSUME ExecutionInv, DiskInv, ChainInv, worker.at = "authorize", worker.id \in Ids,
           BeginChild(worker.id), UNCHANGED <<disk, before>>
    PROVE  ChainInv'
<1>. PICK w \in Ids : w = worker.id
  OBVIOUS
<1>1. tx \in [Ids -> TransactionStatus] /\ NothingOpen
  BY DEF ExecutionInv, VaultTypeOK, BeginChild
<1>2. (\A i \in Ids : i # w => tx'[i] = tx[i]) /\ CommittedAlone(w)
      /\ tx'[w].phase = tx[w].phase /\ tx'[w].child = "pending"
  BY <1>1 DEF BeginChild, TransactionStatus, CommittedAlone
<1>3. \A i \in Ids : ~IsOpen(i)
  BY <1>1 DEF NothingOpen, UnresolvedRepairs, UnresolvedRollbacks, IsOpen
<1>4. \A i \in Ids : /\ i # w => ~IsOpen(i)' /\ (CommittedAlone(i)' <=> CommittedAlone(i))
                     /\ Live(i)' <=> Live(i)
  BY <1>2, <1>3 DEF IsOpen, Live, CommittedAlone, Unresolved
<1>5. ~CommittedAlone(w)'
  BY <1>2 DEF CommittedAlone
<1>6. OneOpen' /\ ChildOfCommitted'
  <2>1. OneOpen'
    BY <1>4 DEF OneOpen
  <2>2. ChildOfCommitted'
    BY <1>2 DEF ChainInv, ChildOfCommitted, CommittedAlone
  <2>. QED  BY <2>1, <2>2
<1>7. TargetLive' /\ BackupsDiffer'
  BY <1>4 DEF ChainInv, TargetLive, BackupsDiffer, disk
<1>8. CommittedCovers'
  BY <1>4, <1>5 DEF ChainInv, CommittedCovers, disk
<1>9. BackupCommitted'
  <2>. SUFFICES ASSUME NEW i \in Ids, Live(i), before[i] \in Ids PROVE CommittedAlone(before[i])'
    BY <1>4 DEF BackupCommitted
  <2>1. CommittedAlone(i) /\ CommittedAlone(before[i])
    BY <1>1, NothingOpenLive DEF ChainInv, BackupCommitted
  <2>2. dir.target = w /\ dir \in possible
    BY DEF DiskInv, Observed, HoldsRollback, After, ExecutionInv, FileType
  <2>3. before[i] # w
    BY <2>1, <2>2 DEF ChainInv, CommittedCovers
  <2>. QED  BY <1>4, <2>1, <2>3
<1>. QED  BY <1>6, <1>7, <1>8, <1>9 DEF ChainInv

\* The stack at the start.
LEMMA InitChain == Init => ChainInv
<1>. SUFFICES ASSUME Init PROVE ChainInv
  OBVIOUS
<1>1. /\ \A i \in Ids : tx[i].phase = "free" /\ tx[i].child = "none"
      /\ \A d \in possible : d.target = Original
  BY DEF Init, VaultInit, FreeSlot
<1>2. \A i \in Ids : ~IsOpen(i) /\ ~Live(i) /\ ~CommittedAlone(i)
  BY <1>1 DEF IsOpen, Live, CommittedAlone, Unresolved
<1>. QED  BY <1>1, <1>2, Contents DEF ChainInv, OneOpen, ChildOfCommitted, TargetLive,
             BackupCommitted, CommittedCovers, BackupsDiffer

\* Every action keeps it.
LEMMA StepKeepsChain == ExecutionInv /\ DiskInv /\ ChainInv /\ [Next]_vars => ChainInv'
<1>. SUFFICES ASSUME ExecutionInv, DiskInv, ChainInv, [Next]_vars PROVE ChainInv'
  OBVIOUS
<1>1. CASE UNCHANGED vars
  BY <1>1 DEF vars, ChainInv, OneOpen, ChildOfCommitted, TargetLive, BackupCommitted,
     CommittedCovers, BackupsDiffer, IsOpen, Live, CommittedAlone
<1>2. CASE Next /\ tx' = tx /\ before' = before
  BY <1>2, ChainDisk
<1>3. CASE /\ Asks /\ worker.id \in Ids /\ UNCHANGED disk
           /\ \/ before' = before
              \/ /\ worker.at = "prepare" /\ Reserve(worker.id)
                 /\ before' = [before EXCEPT ![worker.id] = dir.target]
  <2>1. CASE Reserve(worker.id) \/ CancelReservation(worker.id)
             \/ ConsumeLease(worker.kind, worker.id)
    BY <1>3, <2>1, ChainPlain
  <2>2. CASE worker.at # "prepare"
    <3>0. before' = before
      BY <1>3, <2>2
    <3>1. CASE worker.at = "persist" /\ Persist(worker.id)
      BY <1>3, <3>0, <3>1, ChainPersist
    <3>2. CASE worker.at = "authorize" /\ BeginChild(worker.id)
      BY <1>3, <3>0, <3>2, ChainBegin
    <3>3. CASE worker.at = "resolve" /\ Record(worker.kind, worker.id, worker.outcome)
      <4>1. CASE worker.outcome = "manual"
        BY <1>3, <3>0, <3>3, <4>1, ChainPlain
      <4>2. CASE worker.outcome = "committed" /\ Resolve(worker.id, "committed")
        BY <1>3, <3>0, <3>3, <4>2, ChainCommit
      <4>3. CASE \/ worker.outcome = "closed" /\ Resolve(worker.id, "closed")
                 \/ worker.outcome = "rolledBack" /\ ResolveChild(worker.id, "rolledBack")
        BY <1>3, <3>0, <3>3, <4>3, ChainClose
      <4>4. \/ worker.outcome = "manual"
            \/ worker.outcome = "committed" /\ Resolve(worker.id, "committed")
            \/ worker.outcome = "closed" /\ Resolve(worker.id, "closed")
            \/ worker.outcome = "rolledBack" /\ ResolveChild(worker.id, "rolledBack")
        BY <3>3 DEF Record, Resolve, ResolveChild
      <4>. QED  BY <4>1, <4>2, <4>3, <4>4
    <3>. QED  BY <1>3, <2>1, <2>2, <3>1, <3>2, <3>3 DEF Asks
  <2>. QED  BY <1>3, <2>1, <2>2 DEF Asks
<1>. QED  BY <1>1, <1>2, <1>3, VaultMoves

\* Repairs of one file stack up: at most one transaction is open, a replacement on the
\* target belongs to a repair that was not taken back, and a committed repair that later
\* ones cover is not on the target.
THEOREM ChainInvariant == Spec => []ChainInv
<1>1. Init => ChainInv
  BY InitChain
<1>2. ExecutionInv /\ DiskInv /\ ChainInv /\ [Next]_vars => ChainInv'
  BY StepKeepsChain
<1>. QED  BY <1>1, <1>2, ExecutionInvariant, DiskInvariant, PTL DEF Spec

(***************************************************************************)
(* The fourth layer: what the service shows and accepts.                   *)
(***************************************************************************)
\* The receipt of a committed repair, still true.
SourceReceipt(id) ==
    service.receipt = [outcome |-> "committed", id |-> id] /\ CommittedAlone(id)

PhaseOfJob ==
    /\ service.phase \in {"preparing", "rollbackPreparing"} => worker.at = "prepare"
    /\ worker.at = "prepare" =>
         service.phase = IF worker.kind = "repair" THEN "preparing" ELSE "rollbackPreparing"
    /\ worker.at = "authorize" => service.phase = "rollbackExecuting" /\ NothingOpen

\* A starting service recovers rollbacks before repairs.
StartingOk ==
    service.phase = "starting" =>
        worker.origin = "recovery" /\ (worker.kind = "repair" => UnresolvedRollbacks = {})

\* The receipts a request or a refusal falls back to.
ReceiptOk ==
    /\ service.phase = "idle" => service.receipt = NoReceipt
    /\ service.phase = "rollbackPreparing" =>
         service.receipt = NoReceipt \/ \E id \in Ids : SourceReceipt(id)
    /\ HoldsRollback => SourceReceipt(worker.id)
    /\ service.phase = "terminal" /\ service.receipt.outcome = "committed" => NothingOpen

ReportInv == PhaseOfJob /\ StartingOk /\ ReceiptOk /\ OpenBlocks /\ ReceiptTrue

\* The job ends: what counts is the receipt.
LEMMA EndsReport ==
    ASSUME NEW receipt \in Receipt, Ends(receipt),
           receipt.outcome = "committed" => NothingOpen',
           receipt.id # NoId =>
             /\ receipt.outcome = "committed" => CommittedAlone(receipt.id)'
             /\ receipt.outcome = "closed" => tx'[receipt.id].phase = "closed"
             /\ receipt.outcome = "rolledBack" => tx'[receipt.id].child = "rolledBack"
             /\ receipt.outcome \notin {"committed", "closed", "rolledBack"} =>
                  "manual" \in {tx'[receipt.id].phase, tx'[receipt.id].child}
    PROVE  ReportInv'
<1>1. /\ service'.phase = "terminal" /\ service'.receipt = receipt
      /\ worker' = NoJob /\ worker'.at = "none"
  BY NoJobType DEF Ends, Shows
<1>2. PhaseOfJob' /\ StartingOk' /\ OpenBlocks'
  BY <1>1 DEF PhaseOfJob, StartingOk, OpenBlocks
<1>3. ReceiptOk'
  BY <1>1 DEF ReceiptOk, HoldsRollback
<1>4. ReceiptTrue'
  BY <1>1 DEF ReceiptTrue, CommittedAlone
<1>. QED  BY <1>2, <1>3, <1>4 DEF ReportInv

\* A receipt that names no transaction.
LEMMA EndsUnnamed ==
    ASSUME NEW outcome \in {"failed", "cancelled", "manual"},
           Ends([outcome |-> outcome, id |-> NoId])
    PROVE  ReportInv'
<1>1. [outcome |-> outcome, id |-> NoId] \in Receipt
  BY DEF Receipt
<1>. QED  BY <1>1, EndsReport

\* The job goes on: nothing is shown, nothing new is accepted.
LEMMA WorkReport ==
    ASSUME ExecutionInv, ReportInv, worker.at \notin {"none", "prepare"},
           worker'.at \notin {"none", "prepare", "authorize"}, service' = service,
           service.phase = "starting" => /\ worker'.origin = "recovery"
                                         /\ worker'.kind = "repair" => UnresolvedRollbacks' = {}
    PROVE  ReportInv'
<1>1. service.phase \notin Resting /\ service.phase \notin {"preparing", "rollbackPreparing"}
  BY DEF ExecutionInv, JobOwned, ReportInv, PhaseOfJob
<1>2. PhaseOfJob' /\ StartingOk' /\ OpenBlocks'
  BY <1>1 DEF PhaseOfJob, StartingOk, OpenBlocks, Resting
<1>3. ReceiptOk' /\ ReceiptTrue'
  BY <1>1 DEF ReceiptOk, HoldsRollback, ReceiptTrue, Resting
<1>. QED  BY <1>2, <1>3 DEF ReportInv

\* The same job at its next step; the Vault's rollbacks are left alone.
LEMMA SameJobReport ==
    ASSUME ExecutionInv, ReportInv, worker.at \notin {"none", "prepare"},
           worker'.at \notin {"none", "prepare", "authorize"}, service' = service,
           worker'.origin = worker.origin, worker'.kind = worker.kind,
           UnresolvedRollbacks' = UnresolvedRollbacks
    PROVE  ReportInv'
<1>1. service.phase = "starting" =>
        worker.origin = "recovery" /\ (worker.kind = "repair" => UnresolvedRollbacks = {})
  BY DEF ReportInv, StartingOk
<1>. QED  BY <1>1, WorkReport

\* A service that is down shows nothing.
LEMMA DownReport ==
    ASSUME Shows("down", NoReceipt), worker' = NoJob PROVE ReportInv'
<1>1. service'.phase = "down" /\ worker'.at = "none"
  BY NoJobType DEF Shows
<1>. QED  BY <1>1 DEF ReportInv, PhaseOfJob, StartingOk, ReceiptOk, OpenBlocks, ReceiptTrue,
             HoldsRollback

\* An error turns the execution to recovery, or ends it.
LEMMA ErrorReport ==
    ASSUME ExecutionInv, ReportInv, worker.at \notin {"none", "prepare"}, NEW d, Error(d)
    PROVE  ReportInv'
<1>1. CASE worker.origin = "execute"
  <2>1. worker' = NewJob("recover", NoId, worker.kind, "recovery") /\ service' = service
    BY <1>1 DEF Error
  <2>2. worker'.at = "recover" /\ service.phase # "starting"
    BY <1>1, <2>1 DEF NewJob, ReportInv, StartingOk
  <2>. QED  BY <2>1, <2>2, WorkReport
<1>2. CASE worker.origin # "execute"
  <2>1. RecoveryFails
    BY <1>2 DEF Error
  <2>2. CASE service.phase = "starting"
    BY <2>1, <2>2, DownReport DEF RecoveryFails
  <2>3. CASE service.phase = "executing"
    BY <2>1, <2>3, EndsUnnamed DEF RecoveryFails
  <2>4. CASE service.phase \notin {"starting", "executing"}
    <3>1. Ends(Failed)
      BY <2>1, <2>4 DEF RecoveryFails
    <3>. QED  BY <3>1, EndsUnnamed DEF Failed
  <2>. QED  BY <2>2, <2>3, <2>4
<1>. QED  BY <1>1, <1>2

\* Failures of every kind.
LEMMA ErrorReports ==
    ASSUME ExecutionInv, ReportInv,
           \/ PersistFails \/ AcquireRefused \/ ResolveStale
           \/ AcquireFails \/ MountedFails \/ ResolveFails
           \/ RecoverFails
    PROVE  ReportInv'
<1>1. Error(dir) /\ worker.at \notin {"none", "prepare"}
  BY DEF PersistFails, AcquireRefused, ResolveStale, AcquireFails, MountedFails, ResolveFails,
     RecoverFails, At
<1>. QED  BY <1>1, ErrorReport

\* The steps of one job.
LEMMA WorkReports ==
    ASSUME ExecutionInv, ReportInv,
           \/ PersistPending \/ Acquire \/ Refresh \/ Mutation \/ CloseFailed \/ ApplyFails
           \/ RestoreFails \/ Release
    PROVE  ReportInv'
<1>1. worker.at \in WriteSteps \cup {"persist", "acquire"}
  BY DEF PersistPending, Acquire, Refresh, CloseFailed, ApplyFails, RestoreFails, Release,
     Mutation, CreateStage, StageFile, Exchange, SyncExchange, RemoveDisplaced, SyncRemoval,
     CreateRestore, ReuseRestore, RestoreFile, ExchangeBack, SyncBack, RemoveBack, SyncRestore,
     Mutates, At, WriteSteps, ApplySteps, RestoreSteps
<1>2. worker.at \notin {"none", "prepare"} /\ worker \in Job
  BY <1>1 DEF WriteSteps, ApplySteps, RestoreSteps, ExecutionInv, JobType
<1>3. CASE RestoreFails /\ \E d : Error(d)
  BY <1>2, <1>3, ErrorReport
<1>4. CASE ~(RestoreFails /\ \E d : Error(d))
  <2>1. service' = service
    <3>1. CASE RestoreFails
      BY <1>4, <3>1 DEF RestoreFails, RestoreEnds
    <3>2. CASE ~RestoreFails
      BY <3>2 DEF PersistPending, Acquire, Refresh, CloseFailed, ApplyFails, Release,
         Mutation, CreateStage, StageFile, Exchange, SyncExchange, RemoveDisplaced, SyncRemoval,
         CreateRestore, ReuseRestore, RestoreFile, ExchangeBack, SyncBack, RemoveBack,
         SyncRestore, Mutates
    <3>. QED  BY <3>1, <3>2
  <2>2. \/ \E to : Goto(to) /\ to \notin {"none", "prepare", "authorize"}
        \/ \E outcome : Decides(outcome)
    <3>1. CASE RestoreFails
      BY <1>4, <3>1 DEF RestoreFails, RestoreEnds
    <3>2. CASE CloseFailed
      <4>1. Decides("closed") \/ Decides("manual") \/ Goto("restore")
        BY <3>2 DEF CloseFailed
      <4>. QED  BY <4>1
    <3>3. CASE Acquire \/ Refresh
      <4>1. Goto("restore") \/ Goto("refresh") \/ Goto("apply")
        BY <3>3 DEF Acquire, Refresh
      <4>. QED  BY <4>1
    <3>4. CASE Release
      <4>1. Goto("resolve") \/ Goto("resolveStale")
        BY <3>4 DEF Release
      <4>. QED  BY <4>1
    <3>5. CASE \/ PersistPending \/ Mutation \/ ApplyFails
      BY <3>5 DEF PersistPending, ApplyFails, Mutation, CreateStage, StageFile,
         Exchange, SyncExchange, RemoveDisplaced, SyncRemoval, CreateRestore, ReuseRestore,
         RestoreFile, ExchangeBack, SyncBack, RemoveBack, SyncRestore, Mutates
    <3>. QED  BY <3>1, <3>2, <3>3, <3>4, <3>5
  <2>3. worker'.at \notin {"none", "prepare", "authorize"}
        /\ worker'.origin = worker.origin /\ worker'.kind = worker.kind
    BY <1>2, <2>2 DEF Goto, Decides, Job
  <2>4. UnresolvedRollbacks' = UnresolvedRollbacks
    <3>1. tx \in [Ids -> TransactionStatus]
      BY DEF ExecutionInv, VaultTypeOK
    <3>2. tx' = tx \/ Persist(worker.id) \/ ConsumeLease(worker.kind, worker.id)
      BY DEF PersistPending, Acquire, Refresh, CloseFailed, ApplyFails, RestoreFails, Release,
         Mutation, CreateStage, StageFile, Exchange, SyncExchange, RemoveDisplaced, SyncRemoval,
         CreateRestore, ReuseRestore, RestoreFile, ExchangeBack, SyncBack, RemoveBack,
         SyncRestore, Mutates, vaultVars
    <3>3. \A id \in Ids : tx'[id].child = tx[id].child
      BY <3>1, <3>2 DEF Persist, ConsumeLease, Lease, LeaseChild, TransactionStatus
    <3>. QED  BY <3>3 DEF UnresolvedRollbacks
  <2>. QED  BY <1>2, <2>1, <2>3, <2>4, SameJobReport
<1>. QED  BY <1>3, <1>4

\* What happens to a service while nothing is open.
LEMMA RequestReports == ASSUME ExecutionInv, ReportInv, Requests PROVE ReportInv'
<1>1. UNCHANGED vaultVars /\ NothingOpen' = NothingOpen
  BY DEF Requests, RequestPrepare, RequestRollback, RequestDecision, RequestRollbackApproval,
     CancelRollback, vaultVars, NothingOpen, UnresolvedRepairs, UnresolvedRollbacks
<1>2. worker \in Job /\ service \in [phase : ServicePhase, receipt : Receipt]
  BY DEF ExecutionInv, JobType
<1>3. ASSUME NEW id \in Ids, RequestPrepare(id) PROVE ReportInv'
  <2>1. NothingOpen
    BY <1>3 DEF RequestPrepare, ReportInv, OpenBlocks
  <2>2. /\ service' = [phase |-> "preparing", receipt |-> NoReceipt]
        /\ worker'.at = "prepare" /\ worker'.kind = "repair"
    BY <1>3 DEF RequestPrepare, Shows, NewJob
  <2>. QED  BY <1>1, <2>1, <2>2 DEF ReportInv, PhaseOfJob, StartingOk, ReceiptOk, OpenBlocks,
               ReceiptTrue, HoldsRollback
<1>4. ASSUME NEW id \in Ids, RequestRollback(id) PROVE ReportInv'
  <2>1. /\ service'.phase = "rollbackPreparing" /\ service'.receipt = service.receipt
        /\ worker'.at = "prepare" /\ worker'.kind = "rollback"
    BY <1>4 DEF RequestRollback, Shows, NewJob
  <2>2. NothingOpen /\ (service.receipt = NoReceipt \/ SourceReceipt(id))
    <3>1. CASE service.phase = "idle"
      BY <3>1 DEF ReportInv, OpenBlocks, ReceiptOk
    <3>2. CASE service = [phase |-> "terminal", receipt |-> [outcome |-> "committed", id |-> id]]
      <4>1. /\ service.phase = "terminal" /\ service.receipt = [outcome |-> "committed", id |-> id]
            /\ service.receipt.outcome = "committed" /\ service.receipt.id = id /\ id # NoId
        BY <3>2, Contents
      <4>2. NothingOpen
        BY <4>1 DEF ReportInv, ReceiptOk
      <4>3. CommittedAlone(id)
        BY <4>1 DEF ReportInv, ReceiptTrue, CommittedAlone
      <4>. QED  BY <4>1, <4>2, <4>3 DEF SourceReceipt
    <3>. QED  BY <1>4, <3>1, <3>2 DEF RequestRollback
  <2>3. service'.receipt = NoReceipt \/ SourceReceipt(id)'
    BY <1>1, <2>1, <2>2 DEF SourceReceipt, CommittedAlone, vaultVars
  <2>4. ReceiptOk'
    BY <2>1, <2>3 DEF ReceiptOk, HoldsRollback
  <2>. QED  BY <1>1, <2>1, <2>2, <2>4 DEF ReportInv, PhaseOfJob, StartingOk, OpenBlocks,
               ReceiptTrue
<1>5. ASSUME NEW step \in {"persist", "cancel"}, RequestDecision(step) PROVE ReportInv'
  <2>1. service' = [phase |-> "executing", receipt |-> NoReceipt] /\ worker'.at = step
    BY <1>2, <1>5 DEF RequestDecision, Shows, Goto, Job
  <2>. QED  BY <2>1 DEF ReportInv, PhaseOfJob, StartingOk, ReceiptOk, OpenBlocks, ReceiptTrue,
               HoldsRollback
<1>6. CASE RequestRollbackApproval
  <2>1. /\ service.phase = "rollbackPrepared" /\ service'.phase = "rollbackExecuting"
        /\ service'.receipt = service.receipt
        /\ worker'.at = "authorize" /\ worker'.id = worker.id
    BY <1>2, <1>6 DEF RequestRollbackApproval, Shows, Goto, Job
  <2>2. NothingOpen /\ SourceReceipt(worker.id)
    BY <2>1 DEF ReportInv, OpenBlocks, ReceiptOk, HoldsRollback
  <2>3. SourceReceipt(worker.id)'
    BY <1>1, <2>1, <2>2 DEF SourceReceipt, CommittedAlone, vaultVars
  <2>. QED  BY <1>1, <2>1, <2>2, <2>3 DEF ReportInv, PhaseOfJob, StartingOk, ReceiptOk,
               OpenBlocks, ReceiptTrue, HoldsRollback
<1>7. CASE CancelRollback
  <2>1. service.phase = "rollbackPrepared" /\ Ends(service.receipt)
    BY <1>7 DEF CancelRollback
  <2>2. NothingOpen /\ SourceReceipt(worker.id)
    BY <2>1 DEF ReportInv, OpenBlocks, ReceiptOk, HoldsRollback
  <2>3. PICK r \in Receipt : r = service.receipt
    BY <1>2
  <2>4. r.outcome = "committed" /\ r.id = worker.id
    BY <2>2, <2>3 DEF SourceReceipt
  <2>5. CommittedAlone(r.id)'
    BY <1>1, <2>2, <2>4 DEF SourceReceipt, CommittedAlone, vaultVars
  <2>. QED  BY <1>1, <2>1, <2>2, <2>3, <2>4, <2>5, EndsReport
<1>. QED  BY <1>3, <1>4, <1>5, <1>6, <1>7 DEF Requests

\* Preparing, deciding and authorizing.
LEMMA PreparationReports ==
    ASSUME ExecutionInv, DiskInv, ChainInv, ReportInv,
           \/ PrepareRepair \/ PrepareFails \/ CancelPrepared \/ DecisionFails
           \/ PrepareRollback \/ RollbackUnavailable \/ AuthorizeRollback \/ AuthorizeRefused
           \/ AuthorizeFails
    PROVE  ReportInv'
<1>1. /\ worker \in Job /\ service \in [phase : ServicePhase, receipt : Receipt]
      /\ tx \in [Ids -> TransactionStatus]
  BY DEF ExecutionInv, JobType, VaultTypeOK
<1>2. CASE PrepareFails \/ DecisionFails \/ AuthorizeFails
  <2>1. Ends(Failed)
    BY <1>2 DEF PrepareFails, DecisionFails, AuthorizeFails
  <2>. QED  BY <2>1, EndsUnnamed DEF Failed
<1>3. CASE CancelPrepared
  BY <1>3, EndsUnnamed DEF CancelPrepared
<1>4. CASE PrepareRepair
  <2>1. /\ service' = [phase |-> "prepared", receipt |-> NoReceipt] /\ worker'.at = "none"
        /\ Reserve(worker.id)
    BY <1>1, <1>4 DEF PrepareRepair, Shows, Goto, Job
  <2>2. NothingOpen'
    BY <1>1, <2>1 DEF Reserve, NothingOpen, UnresolvedRepairs, UnresolvedRollbacks, Unresolved,
       TransactionStatus
  <2>. QED  BY <2>1, <2>2 DEF ReportInv, PhaseOfJob, StartingOk, ReceiptOk, OpenBlocks,
               ReceiptTrue, HoldsRollback
<1>5. CASE PrepareRollback
  <2>1. /\ service' = [phase |-> "rollbackPrepared",
                       receipt |-> [outcome |-> "committed", id |-> worker.id]]
        /\ worker'.at = "none" /\ worker'.id = worker.id /\ UNCHANGED vaultVars
        /\ RollbackPossible(worker.id) /\ worker.at = "prepare" /\ worker.kind = "rollback"
    BY <1>1, <1>5 DEF PrepareRollback, Shows, Goto, Job, At
  <2>2. service.phase = "rollbackPreparing" /\ worker.id \in Ids
    BY <2>1 DEF ReportInv, PhaseOfJob, ExecutionInv, JobOwned
  <2>3. NothingOpen /\ NothingOpen'
    BY <2>1, <2>2 DEF ReportInv, OpenBlocks, vaultVars, NothingOpen, UnresolvedRepairs,
       UnresolvedRollbacks
  <2>4. Live(worker.id)
    BY <2>1, <2>2 DEF RollbackPossible, After, ChainInv, TargetLive, ExecutionInv, FileType
  <2>5. CommittedAlone(worker.id)
    BY <2>2, <2>3, <2>4, NothingOpenLive
  <2>6. SourceReceipt(worker.id)'
    BY <2>1, <2>5 DEF SourceReceipt, CommittedAlone, vaultVars
  <2>. QED  BY <2>1, <2>3, <2>6 DEF ReportInv, PhaseOfJob, StartingOk, ReceiptOk, OpenBlocks,
               ReceiptTrue, HoldsRollback
<1>6. CASE RollbackUnavailable
  <2>1. /\ worker' = NoJob /\ UNCHANGED vaultVars
        /\ Shows(IF service.receipt = NoReceipt THEN "idle" ELSE "terminal", service.receipt)
        /\ worker.at = "prepare" /\ worker.kind = "rollback"
    BY <1>6 DEF RollbackUnavailable, At
  <2>2. service.phase = "rollbackPreparing" /\ worker'.at = "none"
    BY <2>1, NoJobType DEF ReportInv, PhaseOfJob
  <2>3. NothingOpen /\ NothingOpen'
    BY <2>1, <2>2 DEF ReportInv, OpenBlocks, vaultVars, NothingOpen, UnresolvedRepairs,
       UnresolvedRollbacks
  <2>4. CASE service.receipt = NoReceipt
    <3>1. service' = [phase |-> "idle", receipt |-> NoReceipt]
      BY <2>1, <2>4 DEF Shows
    <3>. QED  BY <2>2, <2>3, <3>1 DEF ReportInv, PhaseOfJob, StartingOk, ReceiptOk, OpenBlocks,
                 ReceiptTrue, HoldsRollback
  <2>5. CASE service.receipt # NoReceipt
    <3>1. PICK id \in Ids : SourceReceipt(id)
      BY <2>2, <2>5 DEF ReportInv, ReceiptOk
    <3>2. Ends(service.receipt)
      BY <2>1, <2>5 DEF Ends
    <3>3. PICK r \in Receipt : r = service.receipt
      BY <1>1
    <3>4. r.outcome = "committed" /\ r.id = id /\ CommittedAlone(r.id)'
      BY <2>1, <3>1, <3>3 DEF SourceReceipt, CommittedAlone, vaultVars
    <3>. QED  BY <2>3, <3>2, <3>3, <3>4, EndsReport
  <2>. QED  BY <2>4, <2>5
<1>7. CASE AuthorizeRollback
  <2>1. /\ worker.at = "authorize" /\ service' = service
        /\ worker' = NewJob("recover", NoId, "rollback", "execute") /\ worker'.at = "recover"
    BY <1>7 DEF AuthorizeRollback, At, NewJob
  <2>2. service.phase = "rollbackExecuting"
    BY <2>1 DEF ReportInv, PhaseOfJob
  <2>. QED  BY <2>1, <2>2, WorkReport
<1>8. CASE AuthorizeRefused
  <2>1. worker.at = "authorize" /\ Ends(service.receipt) /\ UNCHANGED vaultVars
    BY <1>8 DEF AuthorizeRefused, At
  <2>2. NothingOpen /\ SourceReceipt(worker.id)
    BY <2>1 DEF ReportInv, PhaseOfJob, ReceiptOk, HoldsRollback
  <2>3. PICK r \in Receipt : r = service.receipt
    BY <1>1
  <2>4. r.outcome = "committed" /\ r.id = worker.id
    BY <2>2, <2>3 DEF SourceReceipt
  <2>5. CommittedAlone(r.id)' /\ NothingOpen'
    BY <2>1, <2>2, <2>4 DEF SourceReceipt, CommittedAlone, vaultVars, NothingOpen,
       UnresolvedRepairs, UnresolvedRollbacks
  <2>. QED  BY <2>1, <2>3, <2>4, <2>5, EndsReport
<1>. QED  BY <1>2, <1>3, <1>4, <1>5, <1>6, <1>7, <1>8

\* The outcome is recorded and shown.
LEMMA ResolveReport ==
    ASSUME ExecutionInv, ChainInv, ReportInv, ResolvePending PROVE ReportInv'
<1>1. /\ worker \in Job /\ worker.id \in Ids /\ tx \in [Ids -> TransactionStatus]
  BY DEF ResolvePending, At, ExecutionInv, JobType, JobOwned, VaultTypeOK
<1>2. PICK r \in Receipt : r = [outcome |-> worker.outcome, id |-> worker.id]
  BY <1>1 DEF Receipt, Job
<1>3. Ends(r) /\ Record(worker.kind, worker.id, worker.outcome) /\ r.id \in Ids
      /\ r.id = worker.id /\ r.outcome = worker.outcome
  BY <1>1, <1>2 DEF ResolvePending
<1>4. \A i \in Ids : i # r.id => tx'[i] = tx[i]
  BY <1>1, <1>3 DEF Record, Resolve, ResolveChild
<1>5. tx[r.id].child # "none" => tx[r.id].phase = "committed"
  BY <1>3 DEF ChainInv, ChildOfCommitted
<1>6. CASE worker.kind = "repair"
  <2>1. /\ tx[r.id].phase \in Unresolved /\ r.outcome \in {"committed", "closed", "manual"}
        /\ tx'[r.id].phase = r.outcome /\ tx'[r.id].child = tx[r.id].child
    BY <1>1, <1>3, <1>6 DEF Record, Resolve, TransactionStatus
  <2>2. tx'[r.id].child = "none"
    BY <1>5, <2>1 DEF Unresolved
  <2>3. r.outcome = "committed" => NothingOpen' /\ CommittedAlone(r.id)'
    <3>1. \A i \in Ids : i # r.id => tx'[i].phase \notin Unresolved /\ tx'[i].child \notin Unresolved
      BY <1>3, <1>4, <2>1 DEF ChainInv, OneOpen, IsOpen
    <3>. QED  BY <2>1, <2>2, <3>1 DEF NothingOpen, UnresolvedRepairs, UnresolvedRollbacks,
                 Unresolved, CommittedAlone
  <2>. QED  BY <1>3, <2>1, <2>3, EndsReport
<1>7. CASE worker.kind # "repair"
  <2>1. r.outcome \in {"rolledBack", "manual"} /\ tx'[r.id].child = r.outcome
    BY <1>1, <1>3, <1>7 DEF Record, ResolveChild, TransactionStatus
  <2>. QED  BY <1>3, <2>1, EndsReport
<1>. QED  BY <1>6, <1>7

\* Recovery looks for what is open.
LEMMA RecoverReports ==
    ASSUME ExecutionInv, ReportInv, NothingToRecover \/ Classify PROVE ReportInv'
<1>1. /\ worker \in Job /\ worker.at = "recover" /\ tx' = tx
      /\ tx \in [Ids -> TransactionStatus]
  BY DEF NothingToRecover, Classify, At, ExecutionInv, JobType, VaultTypeOK, vaultVars
<1>2. /\ NothingOpen' = NothingOpen /\ UnresolvedRollbacks' = UnresolvedRollbacks
  BY <1>1 DEF NothingOpen, UnresolvedRepairs, UnresolvedRollbacks
<1>3. CASE NothingToRecover
  <2>1. CASE service.phase # "starting"
    <3>1. Ends(Failed)
      BY <1>3, <2>1 DEF NothingToRecover
    <3>. QED  BY <3>1, EndsUnnamed DEF Failed
  <2>2. CASE service.phase = "starting" /\ worker.kind = "rollback"
    <3>1. /\ worker' = NewJob("recover", NoId, "repair", "recovery") /\ service' = service
          /\ UnresolvedRollbacks = {}
      BY <1>3, <2>2 DEF NothingToRecover, Open
    <3>2. worker'.at = "recover" /\ worker'.origin = "recovery"
      BY <3>1 DEF NewJob
    <3>. QED  BY <1>1, <1>2, <3>1, <3>2, WorkReport
  <2>3. CASE service.phase = "starting" /\ worker.kind = "repair"
    <3>1. /\ service' = [phase |-> "idle", receipt |-> NoReceipt] /\ worker' = NoJob
          /\ UnresolvedRepairs = {}
      BY <1>3, <2>3 DEF NothingToRecover, Open, Shows
    <3>2. NothingOpen' /\ worker'.at = "none"
      BY <1>2, <2>3, <3>1, NoJobType DEF ReportInv, StartingOk, NothingOpen
    <3>. QED  BY <3>1, <3>2 DEF ReportInv, PhaseOfJob, StartingOk, ReceiptOk, OpenBlocks,
                 ReceiptTrue, HoldsRollback
  <2>. QED  BY <1>1, <2>1, <2>2, <2>3 DEF Job
<1>4. CASE Classify
  <2>1. PICK id \in Open(worker.kind) :
          \/ Status(worker.kind, id) = "manual" /\ Ends([outcome |-> "manual", id |-> id])
          \/ /\ service' = service
             /\ \/ \E outcome : worker' = [[worker EXCEPT !.id = id]
                                             EXCEPT !.at = "resolve", !.outcome = outcome]
                \/ worker' = [[worker EXCEPT !.id = id] EXCEPT !.at = "acquire"]
    BY <1>4 DEF Classify
  <2>2. id \in Ids
    BY DEF Open, UnresolvedRepairs, UnresolvedRollbacks
  <2>3. CASE Status(worker.kind, id) = "manual" /\ Ends([outcome |-> "manual", id |-> id])
    <3>1. PICK r \in Receipt : r = [outcome |-> "manual", id |-> id]
      BY <2>2 DEF Receipt
    <3>2. Ends(r) /\ r.outcome = "manual" /\ "manual" \in {tx'[r.id].phase, tx'[r.id].child}
      BY <1>1, <2>3, <3>1 DEF Status
    <3>. QED  BY <3>2, EndsReport
  <2>4. CASE /\ service' = service
             /\ \/ \E outcome : worker' = [[worker EXCEPT !.id = id]
                                             EXCEPT !.at = "resolve", !.outcome = outcome]
                \/ worker' = [[worker EXCEPT !.id = id] EXCEPT !.at = "acquire"]
    <3>1. worker'.at \in {"resolve", "acquire"}
          /\ worker'.origin = worker.origin /\ worker'.kind = worker.kind
      BY <1>1, <2>4 DEF Job
    <3>. QED  BY <1>1, <1>2, <2>4, <3>1, SameJobReport
  <2>. QED  BY <2>1, <2>3, <2>4
<1>. QED  BY <1>3, <1>4

\* Starts, deaths, power losses, edits and steps that change nothing.
LEMMA EnvironmentReports ==
    ASSUME ReportInv, Start \/ Killed \/ PowerLoss \/ Edit \/ UNCHANGED vars PROVE ReportInv'
<1>1. CASE Start
  <2>1. service'.phase = "starting" /\ worker' = NewJob("recover", NoId, "rollback", "recovery")
    BY <1>1 DEF Start, Shows
  <2>2. worker'.at = "recover" /\ worker'.kind = "rollback" /\ worker'.origin = "recovery"
    BY <2>1 DEF NewJob
  <2>. QED  BY <2>1, <2>2 DEF ReportInv, PhaseOfJob, StartingOk, ReceiptOk, OpenBlocks,
               ReceiptTrue, HoldsRollback
<1>2. CASE Killed \/ PowerLoss
  BY <1>2, DownReport DEF Killed, PowerLoss
<1>3. CASE Edit \/ UNCHANGED vars
  <2>1. service' = service /\ worker' = worker /\ tx' = tx
    BY <1>3 DEF Edit, vars, vaultVars
  <2>. QED  BY <2>1 DEF ReportInv, PhaseOfJob, StartingOk, ReceiptOk, OpenBlocks, ReceiptTrue,
               HoldsRollback, SourceReceipt, CommittedAlone, NothingOpen, UnresolvedRepairs,
               UnresolvedRollbacks
<1>. QED  BY <1>1, <1>2, <1>3

\* The service shows nothing at the start.
LEMMA InitReport == Init => ReportInv
<1>. SUFFICES ASSUME Init PROVE ReportInv
  OBVIOUS
<1>1. service.phase = "down" /\ worker.at = "none"
  BY NoJobType DEF Init
<1>. QED  BY <1>1 DEF ReportInv, PhaseOfJob, StartingOk, ReceiptOk, OpenBlocks, ReceiptTrue,
             HoldsRollback

\* Every action keeps it.
LEMMA StepKeepsReport ==
    ExecutionInv /\ DiskInv /\ ChainInv /\ ReportInv /\ [Next]_vars => ReportInv'
<1>. SUFFICES ASSUME ExecutionInv, DiskInv, ChainInv, ReportInv, [Next]_vars PROVE ReportInv'
  OBVIOUS
<1>1. CASE Requests
  BY <1>1, RequestReports
<1>2. CASE Progress
  BY <1>2, PreparationReports, WorkReports, ErrorReports, ResolveReport, RecoverReports
     DEF Progress
<1>3. CASE Failures
  BY <1>3, PreparationReports, WorkReports, ErrorReports DEF Failures
<1>4. CASE Start \/ Killed \/ PowerLoss \/ Edit \/ UNCHANGED vars
  BY <1>4, EnvironmentReports
<1>. QED  BY <1>1, <1>2, <1>3, <1>4 DEF Next

\* What the service shows and accepts, at every step of every job.
THEOREM ReportInvariant == Spec => []ReportInv
<1>1. Init => ReportInv
  BY InitReport
<1>2. ExecutionInv /\ DiskInv /\ ChainInv /\ ReportInv /\ [Next]_vars => ReportInv'
  BY StepKeepsReport
<1>. QED  BY <1>1, <1>2, ExecutionInvariant, DiskInvariant, ChainInvariant, PTL DEF Spec

\* An interrupted or ambiguous repair blocks later mutations: while a transaction is open
\* the service is in no phase that takes a request for another one (begin_prepare,
\* begin_rollback_prepare), after any failure, death, power loss and restart.
THEOREM OpenTransactionBlocks == Spec => []OpenBlocks
<1>1. ReportInv => OpenBlocks
  BY DEF ReportInv
<1>. QED  BY <1>1, ReportInvariant, PTL

\* A receipt on display says of its transaction what the Vault says, also when it is the
\* one a refused or cancelled rollback falls back to.
THEOREM ReceiptsAreTrue == Spec => []ReceiptTrue
<1>1. ReportInv => ReceiptTrue
  BY DEF ReportInv
<1>. QED  BY <1>1, ReportInvariant, PTL

=============================================================================

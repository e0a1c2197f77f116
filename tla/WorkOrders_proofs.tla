------------------------ MODULE WorkOrders_proofs ------------------------
(***************************************************************************)
(* Work orders: proofs for any number of orders, claims and faults and for *)
(* any times.                                                              *)
(***************************************************************************)
EXTENDS WorkOrders, TLAPS

(***************************************************************************)
(* The type invariant, in groups of variables.                             *)
(***************************************************************************)
PlaneType ==
    /\ orders \in [Orders -> WorkOrder]
    /\ claims \subseteq [nonce : Nat, issued : Nat, lease : Lease]
    /\ retained \subseteq [request : Request, lease : Lease, receipt : Nat]
    /\ sequence \in Nat /\ leases \in Nat
    /\ granted \subseteq Nat \X Nat

JournalType ==
    /\ journal \in Journal
    /\ journal.at = "claim" => journal.request \in Claim
    /\ journal.at = "result" => journal.request \in Result
    /\ journal.at \notin {"claim", "result"} => journal.request = Nothing
    /\ journal.at \in {"lease", "execution", "result"} <=> journal.lease # NoLease

WorkType ==
    /\ record \in [lease : Nat, state : {"none", "pending", "completed"}, digest : Nat]
    /\ collected \in [leases : SUBSET (Orders \X Nat), last : Nat]

CycleType ==
    /\ cycle \in Cycle
    /\ cycle.call # "none" => cycle.awake /\ journal.at \in {"claim", "result"}

CountType == clock \in 0..MaxClock /\ nonces \in 0..MaxClaims /\ faults \in 0..MaxFaults

\* The groups are the type invariant.
LEMMA TypeGroups ==
    TypeOK <=> PlaneType /\ JournalType /\ WorkType /\ CycleType /\ CountType
               /\ late \subseteq Request
BY DEF TypeOK, PlaneType, JournalType, WorkType, CycleType, CountType

\* The same of the next state.
LEMMA TypeGroupsNext ==
    ASSUME PlaneType', JournalType', WorkType', CycleType', CountType', late' \subseteq Request
    PROVE  TypeOK'
BY DEF TypeOK, PlaneType, JournalType, WorkType, CycleType, CountType

\* The missing lease is no lease of an order.
LEMMA NoLeaseType == NoLease \in Lease /\ NoLease.id = 0 /\ NoLease \notin OrderLease
<1>1. NoLease.order = 0 /\ 0 \notin Orders
  BY OrderAssumption DEF NoLease, Orders
<1>. QED  BY <1>1 DEF NoLease, Lease, OrderLease

\* Any other is one.
LEMMA LeaseCases ==
    ASSUME NEW lease \in Lease, lease # NoLease
    PROVE  /\ lease \in OrderLease /\ lease.order \in Orders
           /\ lease.id \in Nat /\ lease.leasedAt \in Nat /\ lease.expires \in Nat
BY DEF Lease, OrderLease

\* The numbers of a lease, missing or not.
LEMMA LeaseFields ==
    ASSUME NEW lease \in Lease
    PROVE  lease.id \in Nat /\ lease.leasedAt \in Nat /\ lease.expires \in Nat
BY DEF Lease, OrderLease, NoLease

\* The operation tells the two requests apart.
LEMMA RequestCases ==
    ASSUME NEW request \in Request
    PROVE  /\ request.op = "claim" => request \in Claim /\ request.nonce \in Nat
                                      /\ request.issued \in Nat
           /\ request.op = "result" => request \in Result /\ request.order \in Orders
                                       /\ request.outcome \in {"succeeded", "rejected"}
BY DEF Request, Claim, Result

\* Rounding down to a second stays a time.
LEMMA WholeSecondType == ASSUME NEW t \in Nat PROVE WholeSecond(t) \in Nat
<1>1. t % Second \in 0..(Second - 1) /\ t = Second * (t \div Second) + (t % Second)
      /\ t \div Second \in Nat
  BY TimeAssumption
<1>2. Second * (t \div Second) \in Nat
  BY <1>1, TimeAssumption
<1>. QED  BY <1>1, <1>2 DEF WholeSecond

\* Expiring and releasing keep the shape of the table.
LEMMA ExpiredOrders ==
    ASSUME PlaneType
    PROVE  expireWorkOrders(orders) \in [Orders -> WorkOrder]
<1>1. ASSUME NEW o \in Orders, NEW w \in WorkOrder
      PROVE  [w EXCEPT !.status = "expired"] \in WorkOrder
  BY DEF WorkOrder, Status
<1>. QED  BY <1>1 DEF expireWorkOrders, PlaneType

\* So does releasing.
LEMMA ReleasedOrders ==
    ASSUME NEW os \in [Orders -> WorkOrder]
    PROVE  releaseExpiredLeases(os) \in [Orders -> WorkOrder]
<1>1. ASSUME NEW w \in WorkOrder
      PROVE  [w EXCEPT !.status = "queued", !.lease = NoLease] \in WorkOrder
  BY NoLeaseType DEF WorkOrder, Status
<1>. QED  BY <1>1 DEF releaseExpiredLeases

\* And both together.
LEMMA CurrentType == ASSUME PlaneType PROVE CurrentOrders \in [Orders -> WorkOrder]
BY ExpiredOrders, ReleasedOrders DEF CurrentOrders

\* A new status keeps it too.
LEMMA SetStatus ==
    ASSUME NEW os \in [Orders -> WorkOrder], NEW o \in Orders, NEW status \in Status
    PROVE  [os EXCEPT ![o].status = status] \in [Orders -> WorkOrder]
BY DEF WorkOrder

\* What a claim can be answered with.
LEMMA LeasesForType ==
    ASSUME PlaneType, CountType, NEW request
    PROVE  LeasesFor(request) \subseteq Lease
<1>1. clock \in Nat /\ leases \in Nat /\ LeaseEnd \in Nat
  BY TimeAssumption, WorkOrderBounds DEF CountType, PlaneType, LeaseEnd
<1>2. ASSUME NEW o \in Orders
      PROVE  [order |-> o, id |-> leases + 1, leasedAt |-> clock, expires |-> LeaseEnd]
                \in Lease
  BY <1>1 DEF Lease, OrderLease
<1>3. NewLeases \subseteq Lease
  BY <1>2 DEF NewLeases, Queued
<1>4. GivenTo(request) \subseteq Lease
  BY DEF GivenTo, LiveClaims, PlaneType
<1>. QED  BY <1>3, <1>4, NoLeaseType DEF LeasesFor

\* A request that arrives is one that was signed, and late requests only get fewer.
LEMMA ArrivesType ==
    ASSUME JournalType, CycleType, late \subseteq Request,
           NEW request, NEW source \in Sources, Arrives(request, source)
    PROVE  request \in Request /\ late' \subseteq Request
<1>1. CASE source = "call"
  <2>1. cycle.call = "sent" /\ request = journal.request /\ late' = late
    BY <1>1 DEF Arrives
  <2>2. journal.at = "claim" \/ journal.at = "result"
    BY <2>1 DEF CycleType
  <2>. QED  BY <2>1, <2>2 DEF JournalType, Request
<1>2. CASE source = "late"
  BY <1>2 DEF Arrives
<1>. QED  BY <1>1, <1>2 DEF Sources

\* The cycle and the responses after an answer, or after a death in its place.
LEMMA AnswersType ==
    ASSUME CycleType, NEW source \in Sources, NEW request, Arrives(request, source),
           journal' = journal,
           NEW answer \in Answer, Answers(source, answer)
    PROVE  CycleType'
<1>1. CASE source = "call"
  <2>1. cycle.call = "sent" /\ cycle' = [cycle EXCEPT !.call = "answered", !.answer = answer]
    BY <1>1 DEF Arrives, Answers
  <2>2. cycle.awake /\ journal.at \in {"claim", "result"} /\ cycle \in Cycle
    BY <2>1 DEF CycleType
  <2>. QED  BY <2>1, <2>2 DEF CycleType, Cycle
<1>2. CASE source = "late"
  BY <1>2 DEF Answers, CycleType
<1>. QED  BY <1>1, <1>2 DEF Sources

\* A response, or a death before it: receipts, sequence and cycle stay well formed.
LEMMA ResponseType ==
    ASSUME PlaneType, CycleType, CountType,
           NEW source \in Sources, NEW request \in Request, Arrives(request, source),
           journal' = journal, NEW lease \in Lease,
           commitServiceResponse(request, source, lease) \/ DiesBeforeResponse(source)
    PROVE  /\ retained' \subseteq [request : Request, lease : Lease, receipt : Nat]
           /\ sequence' \in Nat /\ CycleType' /\ faults' \in 0..MaxFaults
<1>1. CASE commitServiceResponse(request, source, lease)
  <2>1. sequence' = sequence + 1 /\ sequence' \in Nat /\ faults' = faults
    BY <1>1 DEF commitServiceResponse, PlaneType
  <2>2. [request |-> request, lease |-> lease, receipt |-> sequence']
            \in [request : Request, lease : Lease, receipt : Nat]
    BY <2>1
  <2>3. retained' \subseteq [request : Request, lease : Lease, receipt : Nat]
    BY <1>1, <2>2 DEF commitServiceResponse, NewestOf, PlaneType
  <2>4. [ok |-> TRUE, lease |-> lease, receipt |-> sequence'] \in Answer
    BY <2>1 DEF Answer
  <2>5. CycleType'
    BY <1>1, <2>4, AnswersType DEF commitServiceResponse
  <2>. QED  BY <2>1, <2>3, <2>5 DEF CountType
<1>2. CASE DiesBeforeResponse(source)
  <2>1. sequence' = sequence /\ retained' = retained
        /\ faults < MaxFaults /\ faults' = faults + 1
    BY <1>2 DEF DiesBeforeResponse, Fault
  <2>2. CycleType'
    <3>1. CASE source = "call"
      <4>1. cycle.call = "sent" /\ cycle' = [cycle EXCEPT !.call = "dropped"]
        BY <1>2, <3>1 DEF Arrives, DiesBeforeResponse
      <4>2. cycle.awake /\ journal.at \in {"claim", "result"} /\ cycle \in Cycle
        BY <4>1 DEF CycleType
      <4>. QED  BY <4>1, <4>2 DEF CycleType, Cycle
    <3>2. CASE source = "late"
      BY <1>2, <3>2 DEF DiesBeforeResponse, CycleType
    <3>. QED  BY <3>1, <3>2 DEF Sources
  <2>3. faults' \in 0..MaxFaults
    BY <2>1, WorkOrderBounds DEF CountType
  <2>. QED  BY <2>1, <2>2, <2>3 DEF PlaneType
<1>. QED  BY <1>1, <1>2

(***************************************************************************)
(* The steps.                                                              *)
(***************************************************************************)
LEMMA OperatorType == ASSUME TypeOK, Operator PROVE TypeOK'
<1>1. PlaneType
  BY TypeGroups
<1>2. expireWorkOrders(orders) \in [Orders -> WorkOrder]
  BY <1>1, ExpiredOrders
<1>3. ASSUME NEW os \in [Orders -> WorkOrder], Changes(os) PROVE TypeOK'
  BY <1>3 DEF Changes, TypeOK, device
<1>4. ASSUME NEW o \in Orders, NEW status \in Status,
             Changes([expireWorkOrders(orders) EXCEPT ![o].status = status])
      PROVE  TypeOK'
  BY <1>2, <1>3, <1>4, SetStatus
<1>5. ASSUME NEW o \in Orders, createWorkOrder(o) PROVE TypeOK'
  <2>1. (IF o \in Repairs THEN "pending_approval" ELSE "queued") \in Status
    BY DEF Status
  <2>. QED  BY <1>4, <1>5, <2>1 DEF createWorkOrder
<1>6. ASSUME NEW o \in Orders, approveWorkOrder(o) PROVE TypeOK'
  BY <1>4, <1>6 DEF approveWorkOrder, Status
<1>7. ASSUME NEW o \in Orders, cancelWorkOrder(o) PROVE TypeOK'
  BY <1>4, <1>7 DEF cancelWorkOrder, Status
<1>8. CASE ViewOrders
  BY <1>2, <1>3, <1>8 DEF ViewOrders
<1>. QED  BY <1>5, <1>6, <1>7, <1>8 DEF Operator

\* A claim that is granted an order or none.
LEMMA HandleClaimType ==
    ASSUME TypeOK, NEW request, NEW source \in Sources, HandleClaim(request, source)
    PROVE  TypeOK'
<1>. USE TypeGroups
<1>1. Arrives(request, source) /\ request.op = "claim"
      /\ UNCHANGED <<clock, journal, record, nonces, collected>>
  BY DEF HandleClaim, device
<1>2. request \in Request /\ late' \subseteq Request
  BY <1>1, ArrivesType
<1>3. request.nonce \in Nat /\ request.issued \in Nat
  BY <1>1, <1>2, RequestCases
<1>4. PICK lease \in LeasesFor(request) :
        /\ claimWorkOrder(request, lease)
        /\ commitServiceResponse(request, source, lease) \/ DiesBeforeResponse(source)
  BY DEF HandleClaim
<1>5. lease \in Lease
  BY LeasesForType
<1>6. /\ retained' \subseteq [request : Request, lease : Lease, receipt : Nat]
      /\ sequence' \in Nat /\ CycleType' /\ faults' \in 0..MaxFaults
  BY <1>1, <1>2, <1>4, <1>5, ResponseType
<1>7. orders' \in [Orders -> WorkOrder]
  <2>1. CASE lease = NoLease
    BY <1>4, <2>1, CurrentType DEF claimWorkOrder
  <2>2. CASE lease # NoLease
    <3>1. lease.order \in Orders
      BY <1>5, <2>2, LeaseCases
    <3>2. ASSUME NEW w \in WorkOrder
          PROVE  [[w EXCEPT !.status = "leased"] EXCEPT !.lease = lease] \in WorkOrder
      BY <1>5 DEF WorkOrder, Status
    <3>3. orders' = [CurrentOrders EXCEPT ![lease.order].status = "leased",
                                          ![lease.order].lease = lease]
      BY <1>4, <2>2 DEF claimWorkOrder
    <3>. QED  BY <1>5, <3>1, <3>3, CurrentType DEF WorkOrder, Status
  <2>. QED  BY <2>1, <2>2
<1>8. claims' \subseteq [nonce : Nat, issued : Nat, lease : Lease]
  <2>1. claims' = LiveClaims \cup
            {[nonce |-> request.nonce, issued |-> request.issued, lease |-> lease]}
    BY <1>4 DEF claimWorkOrder
  <2>2. LiveClaims \subseteq [nonce : Nat, issued : Nat, lease : Lease]
    BY DEF LiveClaims, PlaneType
  <2>. QED  BY <1>3, <1>5, <2>1, <2>2
<1>9. leases' \in Nat
  BY <1>4 DEF claimWorkOrder, PlaneType
<1>10. granted' \subseteq Nat \X Nat
  <2>1. <<request.nonce, lease.id>> \in Nat \X Nat
    BY <1>3, <1>5, LeaseFields
  <2>. QED  BY <1>4, <2>1 DEF claimWorkOrder, PlaneType
<1>11. PlaneType'
  BY <1>6, <1>7, <1>8, <1>9, <1>10 DEF PlaneType
<1>12. JournalType' /\ WorkType' /\ CountType'
  BY <1>1, <1>6 DEF JournalType, WorkType, CountType
<1>. QED  BY <1>2, <1>6, <1>11, <1>12, TypeGroupsNext

\* A result that is recorded.
LEMMA HandleResultType ==
    ASSUME TypeOK, NEW request, NEW source \in Sources, HandleResult(request, source)
    PROVE  TypeOK'
<1>. USE TypeGroups
<1>1. Arrives(request, source) /\ request.op = "result"
      /\ UNCHANGED <<clock, claims, leases, granted, journal, record, nonces, collected>>
  BY DEF HandleResult, device
<1>2. request \in Request /\ late' \subseteq Request
  BY <1>1, ArrivesType
<1>3. request \in Result /\ request.order \in Orders /\ request.outcome \in Status
  BY <1>1, <1>2, RequestCases DEF Status
<1>4. commitServiceResponse(request, source, NoLease) \/ DiesBeforeResponse(source)
  BY DEF HandleResult
<1>5. /\ retained' \subseteq [request : Request, lease : Lease, receipt : Nat]
      /\ sequence' \in Nat /\ CycleType' /\ faults' \in 0..MaxFaults
  BY <1>1, <1>2, <1>4, NoLeaseType, ResponseType
<1>6. orders' \in [Orders -> WorkOrder]
  <2>1. orders' = [expireWorkOrders(orders) EXCEPT ![request.order].status = request.outcome,
                                                   ![request.order].result = request]
    BY DEF HandleResult
  <2>. QED  BY <1>3, <2>1, ExpiredOrders DEF WorkOrder
<1>7. PlaneType'
  BY <1>1, <1>5, <1>6 DEF PlaneType
<1>8. JournalType' /\ WorkType' /\ CountType'
  BY <1>1, <1>5 DEF JournalType, WorkType, CountType
<1>. QED  BY <1>2, <1>5, <1>7, <1>8, TypeGroupsNext

\* A request that is replayed or refused.
LEMMA AnsweredType ==
    ASSUME TypeOK, NEW request, NEW source \in Sources,
           ReplayResponse(request, source) \/ Refuse(request, source)
    PROVE  TypeOK'
<1>. USE TypeGroups
<1>1. Arrives(request, source) /\ UNCHANGED <<clock, plane, device, faults>>
  BY DEF ReplayResponse, Refuse
<1>2. late' \subseteq Request
  BY <1>1, ArrivesType
<1>3. \E answer \in Answer : Answers(source, answer)
  <2>1. CASE ReplayResponse(request, source)
    <3>1. PICK r \in ResponseTo(request) :
            Answers(source, [ok |-> TRUE, lease |-> r.lease, receipt |-> r.receipt])
      BY <2>1 DEF ReplayResponse
    <3>2. r.lease \in Lease /\ r.receipt \in Nat
      BY DEF ResponseTo, PlaneType
    <3>3. [ok |-> TRUE, lease |-> r.lease, receipt |-> r.receipt] \in Answer
      BY <3>2 DEF Answer
    <3>. QED  BY <3>1, <3>3
  <2>2. CASE Refuse(request, source)
    <3>1. Refusal \in Answer
      BY NoLeaseType DEF Refusal, Answer
    <3>. QED  BY <2>2, <3>1 DEF Refuse
  <2>. QED  BY <2>1, <2>2
<1>4. journal' = journal
  BY <1>1 DEF device
<1>5. CycleType'
  BY <1>1, <1>3, <1>4, AnswersType
<1>6. PlaneType' /\ JournalType' /\ WorkType' /\ CountType'
  BY <1>1 DEF plane, device, PlaneType, JournalType, WorkType, CountType
<1>. QED  BY <1>2, <1>5, <1>6, TypeGroupsNext

\* A step of the device leaves the control plane and the requests on their way alone.
LEMMA DeviceStep ==
    ASSUME TypeOK, UNCHANGED <<clock, server>>, faults' \in 0..MaxFaults,
           JournalType', WorkType', CycleType', nonces' \in 0..MaxClaims
    PROVE  TypeOK'
<1>1. PlaneType' /\ late' \subseteq Request
  BY TypeGroups DEF PlaneType, server, plane
<1>2. CountType'
  BY TypeGroups DEF CountType
<1>. QED  BY <1>1, <1>2, TypeGroupsNext

\* A sleeping cycle is well formed.
LEMMA AsleepType == Asleep \in Cycle /\ Asleep.call = "none"
<1>1. Refusal \in Answer
  BY NoLeaseType DEF Refusal, Answer
<1>. QED  BY <1>1 DEF Asleep, Cycle

\* Every ending leaves one.
LEMMA EndsCycleType == ASSUME EndsCycle PROVE CycleType'
BY AsleepType DEF EndsCycle, CycleType

\* An idle journal is well formed.
LEMMA IdleType ==
    ASSUME NEW n \in Nat,
           journal' = [at |-> "idle", request |-> Nothing, lease |-> NoLease, receipt |-> n]
    PROVE  JournalType'
<1>1. journal' \in Journal
  BY NoLeaseType DEF Journal, Stage
<1>2. journal'.at = "idle" /\ journal'.request = Nothing /\ journal'.lease = NoLease
  OBVIOUS
<1>. QED  BY <1>1, <1>2 DEF JournalType

\* So is every stage entered with what belongs to it.
LEMMA EnterType ==
    ASSUME JournalType, NEW stage \in Stage, NEW request \in Request \cup {Nothing},
           NEW lease \in Lease, Enter(stage, request, lease),
           stage = "claim" => request \in Claim,
           stage = "result" => request \in Result,
           stage \notin {"claim", "result"} => request = Nothing,
           stage \in {"lease", "execution", "result"} <=> lease # NoLease
    PROVE  JournalType'
<1>1. journal' = [at |-> stage, request |-> request, lease |-> lease,
                  receipt |-> journal.receipt]
  BY DEF Enter, JournalType, Journal
<1>2. journal.receipt \in Nat
  BY DEF JournalType, Journal
<1>. QED  BY <1>1, <1>2 DEF JournalType, Journal

\* What the device signs is a result.
LEMMA SignedResultType ==
    ASSUME TypeOK, journal.at \in {"lease", "execution"},
           NEW outcome \in {"succeeded", "rejected"}, NEW digest \in Nat
    PROVE  SignedResult(outcome, digest) \in Result
<1>1. journal.lease.order \in Orders /\ journal.lease.id \in Nat
  BY LeaseCases DEF TypeOK, Journal
<1>2. cycle.now \in Nat
  BY DEF TypeOK, Cycle
<1>. QED  BY <1>1, <1>2 DEF SignedResult, Result

\* The stages whose steps only move the cycle.
LEMMA CycleSteps ==
    ASSUME TypeOK, \/ StartCycle \/ Send \/ AnswerRefused \/ RecoveryRequired \/ CallDropped
                   \/ Dies
    PROVE  TypeOK'
<1>. USE TypeGroups
<1>1. UNCHANGED <<clock, server, journal, record, nonces, collected>>
      /\ faults' \in 0..MaxFaults
  BY WorkOrderBounds DEF StartCycle, Send, AnswerRefused, RecoveryRequired, CallDropped, Dies,
     device, Fault, CountType
<1>2. CycleType'
  <2>1. CASE StartCycle
    <3>1. WholeSecond(clock) \in Nat
      BY WholeSecondType, WorkOrderBounds DEF CountType
    <3>. QED  BY <2>1, <3>1, AsleepType DEF StartCycle, CycleType, Asleep, Cycle
  <2>2. CASE Send
    <3>1. cycle.awake /\ journal.at \in {"claim", "result"}
          /\ cycle' = [cycle EXCEPT !.call = "sent"]
      BY <2>2 DEF Send, At
    <3>. QED  BY <1>1, <3>1 DEF CycleType, Cycle
  <2>3. CASE AnswerRefused \/ RecoveryRequired \/ CallDropped \/ Dies
    BY <2>3, EndsCycleType DEF AnswerRefused, RecoveryRequired, CallDropped, Dies
  <2>. QED  BY <2>1, <2>2, <2>3
<1>3. JournalType' /\ WorkType' /\ nonces' \in 0..MaxClaims
  BY <1>1 DEF JournalType, WorkType, CountType
<1>. QED  BY <1>1, <1>2, <1>3, DeviceStep

\* The steps that only move the journal, and may end the cycle.
LEMMA JournalSteps ==
    ASSUME TypeOK, \/ SignClaim \/ ClaimAnswered \/ LeaseLapsed \/ Deny \/ PrepareExecution
                   \/ SignResult \/ ResultAnswered
    PROVE  TypeOK'
<1>. USE TypeGroups
<1>1. UNCHANGED <<clock, server, record, collected, faults>>
  BY DEF SignClaim, ClaimAnswered, LeaseLapsed, Deny, PrepareExecution, SignResult,
     ResultAnswered
<1>2. WorkType' /\ faults' \in 0..MaxFaults
  BY <1>1 DEF WorkType, CountType
<1>3. ASSUME At("idle") \/ At("lease") \/ At("execution"), cycle' = cycle PROVE CycleType'
  BY <1>3 DEF CycleType, At
<1>4. CASE SignClaim
  <2>1. nonces' = nonces + 1 /\ nonces < MaxClaims /\ At("idle") /\ cycle' = cycle
        /\ Enter("claim", [op |-> "claim", nonce |-> nonces', issued |-> cycle.now], NoLease)
    BY <1>4 DEF SignClaim
  <2>2. nonces' \in 0..MaxClaims /\ nonces' \in Nat /\ cycle.now \in Nat
    BY <2>1, WorkOrderBounds DEF CountType, CycleType, Cycle
  <2>3. [op |-> "claim", nonce |-> nonces', issued |-> cycle.now] \in Claim
    BY <2>2 DEF Claim
  <2>4. JournalType'
    BY <2>1, <2>3, NoLeaseType, EnterType DEF Stage, Request
  <2>. QED  BY <1>1, <1>2, <1>3, <2>1, <2>2, <2>4, DeviceStep
<1>5. CASE ClaimAnswered
  <2>1. nonces' = nonces /\ cycle.awake /\ cycle.answer \in Answer
    BY <1>5 DEF ClaimAnswered, Answered, CycleType, Cycle
  <2>2. cycle.answer.lease \in Lease /\ cycle.answer.receipt \in Nat
    BY <2>1 DEF Answer
  <2>3. CASE cycle.answer.lease = NoLease
    <3>1. JournalType' /\ CycleType'
      BY <1>5, <2>2, <2>3, IdleType, EndsCycleType DEF ClaimAnswered, Idle
    <3>. QED  BY <1>1, <1>2, <2>1, <3>1, DeviceStep DEF CountType
  <2>4. CASE cycle.answer.lease # NoLease
    <3>1. /\ journal' = [at |-> "lease", request |-> Nothing, lease |-> cycle.answer.lease,
                         receipt |-> cycle.answer.receipt]
          /\ cycle' = [cycle EXCEPT !.call = "none", !.answer = Refusal]
      BY <1>5, <2>4 DEF ClaimAnswered
    <3>2. JournalType'
      BY <2>2, <2>4, <3>1 DEF JournalType, Journal, Stage
    <3>3. Refusal \in Answer
      BY NoLeaseType DEF Refusal, Answer
    <3>4. CycleType'
      BY <3>1, <3>3 DEF CycleType, Cycle
    <3>. QED  BY <1>1, <1>2, <2>1, <3>2, <3>4, DeviceStep DEF CountType
  <2>. QED  BY <2>3, <2>4
<1>6. CASE LeaseLapsed
  <2>1. JournalType' /\ CycleType' /\ nonces' \in 0..MaxClaims
    BY <1>6, NoLeaseType, EnterType, EndsCycleType DEF LeaseLapsed, Stage, CountType
  <2>. QED  BY <1>1, <1>2, <2>1, DeviceStep
<1>7. CASE Deny
  <2>1. journal.at = "lease" /\ journal.lease \in Lease /\ journal.lease # NoLease
    BY <1>7 DEF Deny, At, JournalType, Journal
  <2>2. SignedResult("rejected", 0) \in Result
    BY <2>1, SignedResultType
  <2>3. JournalType'
    BY <1>7, <2>1, <2>2, EnterType DEF Deny, Stage, Request
  <2>4. CycleType' /\ nonces' \in 0..MaxClaims
    BY <1>3, <1>7 DEF Deny, CountType
  <2>. QED  BY <1>1, <1>2, <2>3, <2>4, DeviceStep
<1>8. CASE PrepareExecution
  <2>1. journal.at = "lease" /\ journal.lease \in Lease /\ journal.lease # NoLease
    BY <1>8 DEF PrepareExecution, At, JournalType, Journal
  <2>2. JournalType'
    BY <1>8, <2>1, EnterType DEF PrepareExecution, Stage
  <2>3. CycleType' /\ nonces' \in 0..MaxClaims
    BY <1>3, <1>8 DEF PrepareExecution, CountType
  <2>. QED  BY <1>1, <1>2, <2>2, <2>3, DeviceStep
<1>9. CASE SignResult
  <2>1. journal.at = "execution" /\ journal.lease \in Lease /\ journal.lease # NoLease
        /\ record.digest \in Nat
    BY <1>9 DEF SignResult, Executing, At, JournalType, Journal, WorkType
  <2>2. SignedResult("succeeded", record.digest) \in Result
    BY <2>1, SignedResultType
  <2>3. JournalType'
    BY <1>9, <2>1, <2>2, EnterType DEF SignResult, Stage, Request
  <2>4. CycleType' /\ nonces' \in 0..MaxClaims
    BY <1>3, <1>9 DEF SignResult, Executing, CountType
  <2>. QED  BY <1>1, <1>2, <2>3, <2>4, DeviceStep
<1>10. CASE ResultAnswered
  <2>1. cycle.answer.receipt \in Nat
    BY DEF CycleType, Cycle, Answer
  <2>2. JournalType' /\ CycleType' /\ nonces' \in 0..MaxClaims
    BY <1>10, <2>1, IdleType, EndsCycleType DEF ResultAnswered, Idle, CountType
  <2>. QED  BY <1>1, <1>2, <2>2, DeviceStep
<1>. QED  BY <1>4, <1>5, <1>6, <1>7, <1>8, <1>9, <1>10

\* The handoff's steps.
LEMMA CollectionSteps ==
    ASSUME TypeOK, BeginCollection \/ FinishCollection \/ CollectionFails
    PROVE  TypeOK'
<1>. USE TypeGroups
<1>1. UNCHANGED <<clock, server, journal, nonces>> /\ faults' \in 0..MaxFaults
  BY WorkOrderBounds DEF BeginCollection, FinishCollection, CollectionFails, Fault, CountType
<1>2. JournalType' /\ nonces' \in 0..MaxClaims
  BY <1>1 DEF JournalType, CountType
<1>3. journal.lease.order \in Orders /\ journal.lease.id \in Nat /\ At("execution")
  <2>1. At("execution")
    BY DEF BeginCollection, FinishCollection, CollectionFails, Executing
  <2>. QED  BY <2>1, LeaseCases DEF At, JournalType, Journal
<1>4. CycleType'
  <2>1. CASE cycle' = cycle
    BY <1>1, <2>1 DEF CycleType
  <2>2. CASE EndsCycle
    BY <2>2, EndsCycleType
  <2>. QED  BY <2>1, <2>2 DEF BeginCollection, FinishCollection, CollectionFails
<1>5. WorkType'
  <2>1. CASE BeginCollection
    BY <1>3, <2>1 DEF BeginCollection, WorkType
  <2>2. CASE FinishCollection \/ CollectionFails
    <3>1. collected' = [leases |-> collected.leases \cup
                                      {<<journal.lease.order, journal.lease.id>>},
                        last |-> collected.last + 1]
      BY <2>2 DEF FinishCollection, CollectionFails
    <3>2. collected' \in [leases : SUBSET (Orders \X Nat), last : Nat]
      BY <1>3, <3>1 DEF WorkType
    <3>3. collected'.last \in Nat
      BY <3>2
    <3>4. record' \in [lease : Nat, state : {"none", "pending", "completed"}, digest : Nat]
      BY <2>2, <3>3 DEF FinishCollection, CollectionFails, WorkType
    <3>. QED  BY <3>2, <3>4 DEF WorkType
  <2>. QED  BY <2>1, <2>2
<1>. QED  BY <1>1, <1>2, <1>4, <1>5, DeviceStep

\* A call that fails, its request lost or still on its way.
LEMMA CallFailsType == ASSUME TypeOK, CallFails PROVE TypeOK'
<1>. USE TypeGroups
<1>1. UNCHANGED <<clock, plane, journal, record, nonces, collected>> /\ faults' \in 0..MaxFaults
  BY WorkOrderBounds DEF CallFails, device, Fault, CountType
<1>2. CycleType'
  BY EndsCycleType DEF CallFails
<1>3. late' \subseteq Request
  <2>1. CASE late' = late
    BY <2>1
  <2>2. CASE cycle.call = "sent" /\ late' = late \cup {journal.request}
    <3>1. journal.at = "claim" \/ journal.at = "result"
      BY <2>2 DEF CycleType
    <3>2. journal.request \in Request
      BY <3>1 DEF JournalType, Request
    <3>. QED  BY <2>2, <3>2
  <2>. QED  BY <2>1, <2>2 DEF CallFails
<1>4. PlaneType' /\ JournalType' /\ WorkType' /\ CountType'
  BY <1>1 DEF plane, PlaneType, JournalType, WorkType, CountType
<1>. QED  BY <1>2, <1>3, <1>4, TypeGroupsNext

\* Time passes.
LEMMA TickType == ASSUME TypeOK, Tick PROVE TypeOK'
<1>1. clock' \in 0..MaxClock
  BY WorkOrderBounds DEF Tick, TypeOK
<1>. QED  BY <1>1 DEF Tick, TypeOK, server, plane, device

\* The first state.
LEMMA InitType == Init => TypeOK
<1>. SUFFICES ASSUME Init PROVE TypeOK
  OBVIOUS
<1>1. NoLease \in Lease
  BY NoLeaseType
<1>2. orders \in [Orders -> WorkOrder]
  BY <1>1 DEF Init, WorkOrder, Status
<1>3. journal \in Journal /\ journal.at = "idle" /\ journal.request = Nothing
      /\ journal.lease = NoLease
  BY <1>1 DEF Init, Idle, Journal, Stage
<1>. QED  BY <1>2, <1>3, AsleepType, WorkOrderBounds DEF Init, TypeOK

\* The shape of every variable, for any number of orders and any times: in particular a
\* request is journalled exactly at the stages that send one, and a lease is held
\* exactly from the answered claim to the answered result.
THEOREM WorkOrdersTyped == Spec => []TypeOK
<1>1. ASSUME TypeOK, [Next]_vars PROVE TypeOK'
  <2>1. CASE Operator
    BY <1>1, <2>1, OperatorType
  <2>2. CASE Engine
    BY <1>1, <2>2, CycleSteps, JournalSteps, CollectionSteps DEF Engine
  <2>3. ASSUME NEW source \in Sources, Handler(source) PROVE TypeOK'
    BY <1>1, <2>3, HandleClaimType, HandleResultType, AnsweredType DEF Handler
  <2>4. CASE CollectionFails \/ CallFails \/ Dies \/ Tick
    BY <1>1, <2>4, CollectionSteps, CallFailsType, CycleSteps, TickType
  <2>5. CASE UNCHANGED vars
    BY <1>1, <2>5 DEF TypeOK, vars, plane, device
  <2>. QED  BY <1>1, <2>1, <2>2, <2>3, <2>4, <2>5 DEF Next
<1>. QED  BY <1>1, InitType, PTL DEF Spec

(***************************************************************************)
(* The inductive invariant.                                                *)
(***************************************************************************)
\* The claims that can still arrive, and the ones that have: a nonce is drawn once, so
\* it names one claim, issued at one time, and was given one lease.
ClaimsOut == {r \in late \cup {journal.request} : r.op = "claim"}

NoncesDrawn ==
    /\ \A r \in ClaimsOut : r.nonce <= nonces
    /\ \A c \in claims : c.nonce <= nonces
    /\ \A x \in retained : x.request.op = "claim" => x.request.nonce <= nonces
    /\ \A g \in granted : g[1] <= nonces
    /\ \A r, s \in ClaimsOut : r.nonce = s.nonce => r = s
    /\ \A c \in claims, r \in ClaimsOut : c.nonce = r.nonce => c.issued = r.issued
    /\ \A c, d \in claims : c.nonce = d.nonce => c.lease = d.lease

\* A claim has lapsed when the control plane does not take it any more.
Lapsed(r) == clock > r.issued + ClockSkew

\* While a claim can still be taken, what it was given is on record.
GrantsKept ==
    \A r \in ClaimsOut, g \in granted :
        g[1] = r.nonce =>
            \/ \E c \in claims : c.nonce = r.nonce /\ c.issued = r.issued /\ c.lease.id = g[2]
            \/ Lapsed(r)

ClaimInv == NoncesDrawn /\ GrantsKept /\ ClaimLeasesOnce

\* Only the claim the journal is at can be given a new lease: every other one is on
\* record or has lapsed.
Settled(r) == (\E c \in claims : c.nonce = r.nonce /\ c.issued = r.issued) \/ Lapsed(r)

ClaimsSettled ==
    /\ \A r \in late : r.op = "claim" => Settled(r) \/ (journal.at = "claim" /\ r = journal.request)
    /\ \A x \in retained : x.request.op = "claim" => Settled(x.request)
    /\ cycle.call = "answered" /\ cycle.answer.ok /\ journal.at = "claim" => Settled(journal.request)

\* The result of an order is the one its status tells of, and what was answered at the
\* result stage is recorded.
ResultsRecorded ==
    /\ \A o \in Orders : orders[o].result # Nothing =>
            orders[o].status = orders[o].result.outcome /\ orders[o].result.order = o
    /\ \A x \in retained : x.request.op = "result" => orders[x.request.order].result = x.request
    /\ cycle.call = "answered" /\ cycle.answer.ok /\ journal.at = "result" =>
            orders[journal.request.order].result = journal.request

\* The lease the device holds, or is going to be answered with, before its result.
Offered(lease) ==
    \/ \E c \in claims : c.nonce = journal.request.nonce /\ c.lease = lease
    \/ \E x \in retained : x.request = journal.request /\ x.lease = lease
    \/ cycle.call = "answered" /\ cycle.answer.ok /\ cycle.answer.lease = lease
Held(lease) ==
    \/ journal.at = "claim" /\ Offered(lease)
    \/ journal.at \in {"lease", "execution"} /\ lease = journal.lease

ResultsOut == {r \in late \cup {journal.request} \cup {orders[o].result : o \in Orders} :
                 r.op = "result"}

\* Nothing was done under that lease, and its order was given to nobody else since.
HeldIsFresh ==
    \A lease \in OrderLease : Held(lease) =>
        /\ lease.id \in 1..leases
        /\ orders[lease.order].lease.id \in {0, lease.id}
        /\ orders[lease.order].result = Nothing
        /\ \A r \in ResultsOut : r.lease # lease.id
        /\ journal.at # "execution" =>
            record.lease # lease.id /\ \A e \in collected.leases : e[2] # lease.id

\* What the device has done, the journal or the control plane tells of; a result
\* succeeded if and only if something was done.
WorkKept ==
    /\ record.lease <= leases
    /\ \A r \in ResultsOut :
        /\ r.lease \in 1..leases
        /\ r.outcome = "succeeded" <=> <<r.order, r.lease>> \in collected.leases
        /\ r.lease = record.lease => r.digest = record.digest
    /\ \A e \in collected.leases :
        /\ e[2] \in 1..leases
        /\ \/ /\ journal.at \in {"execution", "result"}
              /\ journal.lease.order = e[1] /\ journal.lease.id = e[2]
           \/ orders[e[1]].result # Nothing /\ orders[e[1]].result.lease = e[2]
    /\ journal.at = "result" =>
        journal.request.order = journal.lease.order /\ journal.request.lease = journal.lease.id
    /\ journal.at = "execution" /\ record.lease = journal.lease.id /\ record.state = "completed" =>
        <<journal.lease.order, journal.lease.id>> \in collected.leases

OrderInv == ClaimsSettled /\ ResultsRecorded /\ HeldIsFresh /\ WorkKept /\ ExecutedUnderOneLease

\* What a step does to the orders it does not decide on: results stay, a recorded order
\* keeps its status, and a lease is at most taken away.
OrderKept(o) ==
    /\ orders'[o].result = orders[o].result
    /\ orders[o].result # Nothing => orders'[o].status = orders[o].status
    /\ orders'[o].lease.id \in {0, orders[o].lease.id}

\* Overdue orders expire, overdue leases are taken away, and nothing else changes.
LEMMA ExpiredKept ==
    ASSUME TypeOK, ResultsRecorded, NEW o \in Orders
    PROVE  LET e == expireWorkOrders(orders)[o]
           IN /\ e.result = orders[o].result /\ e.lease = orders[o].lease
              /\ e.status \in {orders[o].status, "expired"}
              /\ orders[o].result # Nothing => e.status = orders[o].status
<1>1. orders[o] \in WorkOrder
  BY DEF TypeOK
<1>2. orders[o].result # Nothing => orders[o].status \in {"succeeded", "rejected"}
  <2>1. SUFFICES ASSUME orders[o].result # Nothing
                 PROVE  orders[o].status \in {"succeeded", "rejected"}
    OBVIOUS
  <2>2. orders[o].result \in Result
    BY <1>1, <2>1 DEF WorkOrder
  <2>. QED  BY <2>1, <2>2 DEF ResultsRecorded, Result
<1>. QED  BY <1>1, <1>2 DEF expireWorkOrders, WorkOrder

\* The same with the leases released.
LEMMA CurrentKept ==
    ASSUME TypeOK, ResultsRecorded, NEW o \in Orders
    PROVE  LET c == CurrentOrders[o]
           IN /\ c.result = orders[o].result /\ c.lease.id \in {0, orders[o].lease.id}
              /\ c.status \in {orders[o].status, "expired", "queued"}
              /\ orders[o].result # Nothing =>
                    c.status = orders[o].status /\ c.status \in {"succeeded", "rejected"}
<1>1. orders[o] \in WorkOrder /\ expireWorkOrders(orders)[o] \in WorkOrder
  BY ExpiredOrders, TypeGroups DEF TypeOK
<1>2. orders[o].result # Nothing => orders[o].status \in {"succeeded", "rejected"}
  <2>1. SUFFICES ASSUME orders[o].result # Nothing
                 PROVE  orders[o].status \in {"succeeded", "rejected"}
    OBVIOUS
  <2>2. orders[o].result \in Result
    BY <1>1, <2>1 DEF WorkOrder
  <2>. QED  BY <2>1, <2>2 DEF ResultsRecorded, Result
<1>3. CurrentOrders[o] = IF expireWorkOrders(orders)[o].status = "leased"
                             /\ expireWorkOrders(orders)[o].lease.expires <= clock
                         THEN [expireWorkOrders(orders)[o] EXCEPT !.status = "queued",
                                                                  !.lease = NoLease]
                         ELSE expireWorkOrders(orders)[o]
  BY DEF CurrentOrders, releaseExpiredLeases
<1>. HIDE DEF expireWorkOrders
<1>. QED  BY <1>1, <1>2, <1>3, ExpiredKept, NoLeaseType DEF WorkOrder

(***************************************************************************)
(* Quiet steps: the tables of claims, leases and responses, the journal    *)
(* and the handoff's record stay; an answer that reaches the device is a   *)
(* refusal or a retained response.                                         *)
(***************************************************************************)
QuietStep ==
    /\ UNCHANGED <<claims, retained, leases, granted, journal, record, nonces, collected>>
    /\ \A o \in Orders : OrderKept(o)
    /\ late' \subseteq late \cup {journal.request}
    /\ clock <= clock'
    /\ cycle'.call = "answered" =>
        \/ cycle'.answer = Refusal
        \/ cycle.call = "answered" /\ cycle'.answer = cycle.answer
        \/ cycle'.answer.ok /\ \E x \in retained : /\ x.request = journal.request
                                                 /\ x.lease = cycle'.answer.lease

\* A request that is journalled is of the operation of its stage.
LEMMA StageOfRequest ==
    ASSUME TypeOK
    PROVE  /\ journal.request.op = "claim" <=> journal.at = "claim"
           /\ journal.request.op = "result" <=> journal.at = "result"
           /\ journal.at = "claim" => journal.request.issued \in Nat /\ journal.request.nonce \in Nat
BY DEF TypeOK, Claim, Result, Nothing, Journal, Stage

\* Claims keep their nonces, and what was given to one stays on record.
LEMMA ClaimFrame ==
    ASSUME TypeOK, ClaimInv, claims' = claims, granted' = granted, ClaimsOut' \subseteq ClaimsOut,
           nonces' = nonces, clock' \in Nat, clock <= clock',
           \A x \in retained' : x.request.op = "claim" => x \in retained
    PROVE  ClaimInv'
<1>1. \A r \in ClaimsOut : r \in Claim /\ r.issued \in Nat
  BY StageOfRequest, RequestCases DEF ClaimsOut, TypeOK, Request
<1>2. clock \in Nat /\ ClockSkew \in Nat
  BY TimeAssumption, WorkOrderBounds DEF TypeOK
<1>3. \A r \in ClaimsOut : Lapsed(r) => Lapsed(r)'
  BY <1>1, <1>2 DEF Lapsed
<1>4. NoncesDrawn'
  BY DEF ClaimInv, NoncesDrawn
<1>5. GrantsKept'
  BY <1>3 DEF ClaimInv, GrantsKept
<1>. QED  BY <1>4, <1>5 DEF ClaimInv, ClaimLeasesOnce

\* A settled claim stays settled.
LEMMA SettledStays ==
    ASSUME TypeOK, claims' = claims, clock' \in Nat, clock <= clock',
           NEW r, r.issued \in Nat, Settled(r)
    PROVE  (\E c \in claims' : c.nonce = r.nonce /\ c.issued = r.issued)
           \/ clock' > r.issued + ClockSkew
<1>1. clock \in Nat /\ ClockSkew \in Nat
  BY TimeAssumption, WorkOrderBounds DEF TypeOK
<1>. QED  BY <1>1 DEF Settled, Lapsed

\* The claims stay settled.
LEMMA QuietSettled ==
    ASSUME TypeOK, TypeOK', ClaimsSettled, QuietStep
    PROVE  ClaimsSettled'
<1>1. journal' = journal /\ claims' = claims /\ retained' = retained
      /\ clock <= clock' /\ clock' \in Nat
  BY WorkOrderBounds DEF QuietStep, TypeOK
<1>2. ASSUME NEW r, r.issued \in Nat, Settled(r) PROVE Settled(r)'
  BY <1>1, <1>2, SettledStays DEF Settled, Lapsed
<1>3. ASSUME NEW r \in late', r.op = "claim"
      PROVE  (Settled(r) \/ (journal.at = "claim" /\ r = journal.request))'
  <2>1. r \in late \/ r = journal.request
    BY <1>3 DEF QuietStep
  <2>2. r.issued \in Nat
    BY <1>3, RequestCases DEF TypeOK
  <2>. QED  BY <1>1, <1>2, <1>3, <2>1, <2>2, StageOfRequest DEF ClaimsSettled
<1>4. ASSUME NEW x \in retained, x.request.op = "claim" PROVE Settled(x.request)'
  <2>1. x.request.issued \in Nat
    BY <1>4, RequestCases DEF TypeOK
  <2>. QED  BY <1>2, <1>4, <2>1 DEF ClaimsSettled
<1>5. ASSUME cycle'.call = "answered", cycle'.answer.ok, journal.at = "claim"
      PROVE  Settled(journal.request)'
  <2>1. journal.request.issued \in Nat /\ journal.request.op = "claim"
    BY <1>5, StageOfRequest
  <2>2. Settled(journal.request)
    BY <1>5, <2>1 DEF QuietStep, ClaimsSettled, Refusal
  <2>. QED  BY <1>1, <2>1, <2>2, SettledStays DEF Settled, Lapsed
<1>. QED  BY <1>1, <1>3, <1>4, <1>5 DEF ClaimsSettled

\* What was answered is recorded.
LEMMA QuietRecorded ==
    ASSUME TypeOK, TypeOK', ResultsRecorded, QuietStep
    PROVE  ResultsRecorded'
<1>1. journal' = journal /\ retained' = retained /\ \A o \in Orders : OrderKept(o)
  BY DEF QuietStep
<1>2. \A x \in retained : x.request.op = "result" => x.request.order \in Orders
  BY RequestCases DEF TypeOK
<1>3. journal.at = "result" => journal.request.order \in Orders
  BY DEF TypeOK, Result
<1>4. ASSUME cycle'.call = "answered", cycle'.answer.ok, journal.at = "result"
      PROVE  orders[journal.request.order].result = journal.request
  BY <1>4, StageOfRequest DEF QuietStep, ResultsRecorded, Refusal
<1>. QED  BY <1>1, <1>2, <1>3, <1>4 DEF ResultsRecorded, OrderKept

\* The lease held stays unused.
LEMMA QuietFresh ==
    ASSUME TypeOK, TypeOK', HeldIsFresh, QuietStep
    PROVE  HeldIsFresh' /\ ResultsOut' \subseteq ResultsOut
<1>1. UNCHANGED <<claims, retained, leases, journal, record, collected>>
      /\ \A o \in Orders : OrderKept(o)
  BY DEF QuietStep
<1>2. ResultsOut' \subseteq ResultsOut
  <2>1. \A o \in Orders : orders'[o].result = orders[o].result
    BY <1>1 DEF OrderKept
  <2>. QED  BY <1>1, <2>1 DEF ResultsOut, QuietStep
<1>3. ASSUME NEW lease \in OrderLease, Held(lease)' PROVE Held(lease)
  <2>1. lease # NoLease
    BY NoLeaseType
  <2>2. CASE cycle'.call = "answered" /\ cycle'.answer.ok /\ cycle'.answer.lease = lease
    <3>1. cycle'.answer # Refusal
      BY <2>1, <2>2 DEF Refusal
    <3>2. \/ cycle.call = "answered" /\ cycle.answer.ok /\ cycle.answer.lease = lease
          \/ \E x \in retained : x.request = journal.request /\ x.lease = lease
      BY <2>2, <3>1 DEF QuietStep
    <3>. QED  BY <1>1, <1>3, <3>2 DEF Held, Offered
  <2>3. CASE ~(cycle'.call = "answered" /\ cycle'.answer.ok /\ cycle'.answer.lease = lease)
    BY <1>1, <1>3, <2>3 DEF Held, Offered
  <2>. QED  BY <2>2, <2>3
<1>4. ASSUME NEW lease \in OrderLease, Held(lease)'
      PROVE  /\ orders'[lease.order].lease.id \in {0, lease.id}
             /\ orders'[lease.order].result = Nothing
  <2>1. lease.order \in Orders
    BY DEF OrderLease
  <2>. QED  BY <1>1, <1>3, <1>4, <2>1 DEF HeldIsFresh, OrderKept
<1>. QED  BY <1>1, <1>2, <1>3, <1>4 DEF HeldIsFresh

\* A quiet step keeps everything.
LEMMA QuietInv ==
    ASSUME TypeOK, TypeOK', ClaimInv, OrderInv, QuietStep
    PROVE  ClaimInv' /\ OrderInv'
<1>1. UNCHANGED <<claims, retained, granted, nonces, leases, journal, record, collected>>
      /\ clock <= clock' /\ clock' \in Nat /\ \A o \in Orders : OrderKept(o)
  BY WorkOrderBounds DEF QuietStep, TypeOK
<1>2. ClaimsOut' \subseteq ClaimsOut
  BY DEF QuietStep, ClaimsOut
<1>3. ClaimInv'
  BY <1>1, <1>2, ClaimFrame
<1>4. ClaimsSettled' /\ ResultsRecorded' /\ HeldIsFresh' /\ ResultsOut' \subseteq ResultsOut
  BY QuietSettled, QuietRecorded, QuietFresh DEF OrderInv
<1>5. \A e \in collected.leases : e[1] \in Orders
  BY DEF TypeOK
<1>6. WorkKept' /\ ExecutedUnderOneLease'
  BY <1>1, <1>4, <1>5 DEF OrderInv, WorkKept, ExecutedUnderOneLease, OrderKept
<1>. QED  BY <1>3, <1>4, <1>6 DEF OrderInv

\* Orders that stay as they are.
LEMMA SameOrders == ASSUME TypeOK, orders' = orders PROVE \A o \in Orders : OrderKept(o)
BY DEF OrderKept

\* The operator's steps are quiet.
LEMMA OperatorQuiet ==
    ASSUME TypeOK, ResultsRecorded, Operator
    PROVE  QuietStep
<1>1. ASSUME NEW os, Changes(os), \A o \in Orders : OrderKept(o) PROVE QuietStep
  BY <1>1 DEF Changes, QuietStep, device, TypeOK
<1>2. expireWorkOrders(orders) \in [Orders -> WorkOrder]
  BY ExpiredOrders, TypeGroups
<1>3. CASE orders' = expireWorkOrders(orders) /\ Changes(expireWorkOrders(orders))
  BY <1>1, <1>3, ExpiredKept DEF OrderKept
<1>4. ASSUME NEW o \in Orders, NEW status \in Status, orders[o].result = Nothing,
             Changes([expireWorkOrders(orders) EXCEPT ![o].status = status])
      PROVE  QuietStep
  <2>1. orders' = [expireWorkOrders(orders) EXCEPT ![o].status = status]
    BY <1>4 DEF Changes
  <2>2. ASSUME NEW q \in Orders PROVE OrderKept(q)
    <3>1. orders'[q].result = expireWorkOrders(orders)[q].result
          /\ orders'[q].lease = expireWorkOrders(orders)[q].lease
          /\ (q # o => orders'[q].status = expireWorkOrders(orders)[q].status)
      BY <1>2, <2>1 DEF WorkOrder
    <3>. QED  BY <1>4, <3>1, ExpiredKept DEF OrderKept
  <2>. QED  BY <1>1, <1>4, <2>2
<1>5. ASSUME NEW o \in Orders,
             \/ orders[o].status = "absent"
             \/ expireWorkOrders(orders)[o].status \in {"pending_approval", "queued"}
      PROVE  orders[o].result = Nothing
  <2>1. ASSUME orders[o].result # Nothing PROVE orders[o].status \in {"succeeded", "rejected"}
    <3>1. orders[o].result \in Result
      BY <2>1 DEF TypeOK, WorkOrder
    <3>. QED  BY <2>1, <3>1 DEF ResultsRecorded, Result
  <2>. QED  BY <1>5, <2>1, ExpiredKept
<1>6. ASSUME NEW o \in Orders, createWorkOrder(o) PROVE QuietStep
  <2>1. (IF o \in Repairs THEN "pending_approval" ELSE "queued") \in Status
    BY DEF Status
  <2>. QED  BY <1>4, <1>5, <1>6, <2>1 DEF createWorkOrder
<1>7. ASSUME NEW o \in Orders, approveWorkOrder(o) PROVE QuietStep
  BY <1>4, <1>5, <1>7 DEF approveWorkOrder, Status
<1>8. ASSUME NEW o \in Orders, cancelWorkOrder(o) PROVE QuietStep
  BY <1>4, <1>5, <1>8 DEF cancelWorkOrder, Status
<1>9. CASE ViewOrders
  BY <1>3, <1>9 DEF ViewOrders, Changes
<1>. QED  BY <1>6, <1>7, <1>8, <1>9 DEF Operator

\* A replayed or refused request is quiet.
LEMMA AnsweredQuiet ==
    ASSUME TypeOK, NEW request, NEW source \in Sources,
           ReplayResponse(request, source) \/ Refuse(request, source)
    PROVE  QuietStep
<1>1. Arrives(request, source) /\ UNCHANGED <<clock, plane, device, faults>>
  BY DEF ReplayResponse, Refuse
<1>2. late' \subseteq late /\ clock <= clock'
  BY <1>1, WorkOrderBounds DEF Arrives, TypeOK
<1>3. \A o \in Orders : OrderKept(o)
  BY <1>1, SameOrders DEF plane
<1>4. cycle'.call = "answered" =>
        \/ cycle'.answer = Refusal
        \/ cycle.call = "answered" /\ cycle'.answer = cycle.answer
        \/ cycle'.answer.ok /\ \E x \in retained : /\ x.request = journal.request
                                                 /\ x.lease = cycle'.answer.lease
  <2>1. CASE source = "late"
    BY <2>1 DEF ReplayResponse, Refuse, Answers
  <2>2. CASE source = "call" /\ ReplayResponse(request, source)
    <3>1. PICK x \in ResponseTo(request) :
            cycle' = [cycle EXCEPT !.call = "answered",
                        !.answer = [ok |-> TRUE, lease |-> x.lease, receipt |-> x.receipt]]
      BY <2>2 DEF ReplayResponse, Answers
    <3>2. x \in retained /\ x.request = journal.request
      BY <1>1, <2>2 DEF ResponseTo, Arrives
    <3>. QED  BY <3>1, <3>2 DEF TypeOK, Cycle
  <2>3. CASE source = "call" /\ Refuse(request, source)
    BY <2>3 DEF Refuse, Answers, TypeOK, Cycle
  <2>. QED  BY <2>1, <2>2, <2>3 DEF Sources
<1>. QED  BY <1>1, <1>2, <1>3, <1>4 DEF QuietStep, plane, device

\* So is a step that only moves the cycle, the clock or the requests on their way.
LEMMA CycleQuiet ==
    ASSUME TypeOK, \/ StartCycle \/ Send \/ AnswerRefused \/ RecoveryRequired \/ CallDropped
                   \/ Dies \/ CallFails \/ Tick
    PROVE  QuietStep
<1>1. UNCHANGED <<orders, claims, retained, leases, granted, journal, record, nonces, collected>>
  BY DEF StartCycle, Send, AnswerRefused, RecoveryRequired, CallDropped, Dies, CallFails, Tick,
     device, server, plane
<1>2. clock <= clock'
  BY WorkOrderBounds DEF StartCycle, Send, AnswerRefused, RecoveryRequired, CallDropped, Dies,
     CallFails, Tick, TypeOK
<1>3. late' \subseteq late \cup {journal.request}
  BY DEF StartCycle, Send, AnswerRefused, RecoveryRequired, CallDropped, Dies, CallFails, Tick,
     server
<1>4. cycle'.call # "answered" \/ cycle' = cycle
  <2>1. CASE AnswerRefused \/ RecoveryRequired \/ CallDropped \/ Dies \/ CallFails
    BY <2>1, AsleepType DEF AnswerRefused, RecoveryRequired, CallDropped, Dies, CallFails,
       EndsCycle
  <2>2. CASE StartCycle
    BY <2>2 DEF StartCycle, Asleep
  <2>3. CASE Send \/ Tick
    BY <2>3 DEF Send, Tick, TypeOK, Cycle
  <2>. QED  BY <2>1, <2>2, <2>3
<1>5. \A o \in Orders : OrderKept(o)
  BY <1>1, SameOrders
<1>. QED  BY <1>1, <1>2, <1>3, <1>4, <1>5 DEF QuietStep

(***************************************************************************)
(* The requests the control plane takes.                                   *)
(***************************************************************************)
\* What a response adds, or a death in its place.
LEMMA ResponseKept ==
    ASSUME TypeOK, NEW request, NEW source \in Sources, NEW lease, Arrives(request, source),
           commitServiceResponse(request, source, lease) \/ DiesBeforeResponse(source)
    PROVE  /\ \A x \in retained' : x \in retained \/ (x.request = request /\ x.lease = lease)
           /\ cycle'.call = "answered" =>
                \/ cycle.call = "answered" /\ cycle'.answer = cycle.answer
                \/ request = journal.request /\ cycle'.answer.lease = lease
           /\ late' \subseteq late /\ request \in late \cup {journal.request}
<1>1. late' \subseteq late /\ request \in late \cup {journal.request}
  BY DEF Arrives, Sources
<1>2. \A x \in retained' : x \in retained \/ (x.request = request /\ x.lease = lease)
  <2>1. CASE commitServiceResponse(request, source, lease)
    <3>1. retained' \subseteq retained \cup
                {[request |-> request, lease |-> lease, receipt |-> sequence']}
      BY <2>1 DEF commitServiceResponse, NewestOf
    <3>. QED  BY <3>1
  <2>2. CASE DiesBeforeResponse(source)
    BY <2>2 DEF DiesBeforeResponse
  <2>. QED  BY <2>1, <2>2
<1>3. cycle \in Cycle
  BY DEF TypeOK
<1>4. CASE source = "late"
  BY <1>1, <1>2, <1>4 DEF commitServiceResponse, DiesBeforeResponse, Answers
<1>5. CASE source = "call"
  <2>1. request = journal.request
    BY <1>5 DEF Arrives
  <2>2. \/ cycle' = [cycle EXCEPT !.call = "answered",
                        !.answer = [ok |-> TRUE, lease |-> lease, receipt |-> sequence']]
        \/ cycle' = [cycle EXCEPT !.call = "dropped"]
    BY <1>5 DEF commitServiceResponse, DiesBeforeResponse, Answers
  <2>3. \/ cycle'.answer = [ok |-> TRUE, lease |-> lease, receipt |-> sequence']
        \/ cycle'.call = "dropped"
    BY <1>3, <2>2 DEF Cycle
  <2>4. cycle'.call = "dropped" \/ cycle'.answer.lease = lease
    BY <2>3
  <2>. QED  BY <1>1, <1>2, <2>1, <2>4
<1>. QED  BY <1>4, <1>5 DEF Sources

\* A result that is recorded.
LEMMA HandleResultInv ==
    ASSUME TypeOK, TypeOK', ClaimInv, OrderInv,
           NEW request, NEW source \in Sources, HandleResult(request, source)
    PROVE  ClaimInv' /\ OrderInv'
<1>1. /\ request.op = "result" /\ Arrives(request, source) /\ Recordable(request)
      /\ UNCHANGED <<clock, claims, leases, granted, journal, record, nonces, collected>>
      /\ commitServiceResponse(request, source, NoLease) \/ DiesBeforeResponse(source)
  BY DEF HandleResult, device
<1>2. /\ \A x \in retained' : x \in retained \/ (x.request = request /\ x.lease = NoLease)
      /\ cycle'.call = "answered" =>
            \/ cycle.call = "answered" /\ cycle'.answer = cycle.answer
            \/ request = journal.request /\ cycle'.answer.lease = NoLease
      /\ late' \subseteq late /\ request \in late \cup {journal.request}
  BY <1>1, ResponseKept
<1>3. request \in Result /\ request.order \in Orders /\ request \in ResultsOut
  BY <1>1, <1>2, ArrivesType, TypeGroups, RequestCases DEF ResultsOut
<1>4. clock' \in Nat /\ clock <= clock' /\ clock \in Nat
  BY <1>1, WorkOrderBounds DEF TypeOK
<1>5. request # Nothing /\ request.lease \in 1..leases
  <2>1. request.op = "result" /\ Nothing.op = "none"
    BY <1>1 DEF Nothing
  <2>2. request.lease \in 1..leases
    BY <1>3 DEF OrderInv, WorkKept
  <2>. QED  BY <2>1, <2>2
<1>6. /\ orders[request.order].result \in {Nothing, request}
      /\ orders[request.order].result = Nothing =>
            orders[request.order].lease.id = request.lease
  BY <1>1, <1>3, ExpiredKept DEF Recordable, OrderInv
<1>7. /\ orders'[request.order].result = request
      /\ orders'[request.order].status = request.outcome
      /\ orders'[request.order].lease = orders[request.order].lease
      /\ \A o \in Orders : o # request.order => OrderKept(o)
  <2>1. orders' = [expireWorkOrders(orders) EXCEPT ![request.order].status = request.outcome,
                                                   ![request.order].result = request]
    BY DEF HandleResult
  <2>2. expireWorkOrders(orders) \in [Orders -> WorkOrder]
    BY ExpiredOrders, TypeGroups
  <2>3. ASSUME NEW o \in Orders, o # request.order PROVE OrderKept(o)
    BY <2>1, <2>2, <2>3, ExpiredKept DEF OrderKept, OrderInv
  <2>. QED  BY <1>3, <2>1, <2>2, <2>3, ExpiredKept DEF WorkOrder, OrderInv
<1>8. ClaimInv'
  <2>1. ClaimsOut' \subseteq ClaimsOut
    BY <1>1, <1>2 DEF ClaimsOut
  <2>. QED  BY <1>1, <1>2, <1>4, <2>1, ClaimFrame
<1>9. ClaimsSettled'
  <2>1. \A r : Settled(r)' <=> Settled(r)
    BY <1>1 DEF Settled, Lapsed
  <2>2. journal.at = "claim" => request # journal.request
    BY <1>1, StageOfRequest
  <2>3. Settled(journal.request)' <=> Settled(journal.request)
    BY <1>1 DEF Settled, Lapsed
  <2>. QED  BY <1>1, <1>2, <2>1, <2>2, <2>3 DEF OrderInv, ClaimsSettled
<1>10. ResultsRecorded'
  <2>1. \A x \in retained : x.request.op = "result" => x.request.order \in Orders
    BY RequestCases DEF TypeOK
  <2>2. journal.at = "result" => journal.request.order \in Orders
    BY DEF TypeOK, Result
  <2>3. \A o \in Orders : orders[o].result # Nothing => orders'[o].result = orders[o].result
    BY <1>6, <1>7 DEF OrderKept
  <2>4. \A o \in Orders : orders'[o].result # Nothing =>
            orders'[o].status = orders'[o].result.outcome /\ orders'[o].result.order = o
    BY <1>7 DEF OrderKept, OrderInv, ResultsRecorded
  <2>5. ASSUME NEW r, r.op = "result", r.order \in Orders, orders[r.order].result = r
        PROVE  orders'[r.order].result = r
    BY <2>3, <2>5 DEF Nothing
  <2>6. \A x \in retained' : x.request.op = "result" => orders'[x.request.order].result = x.request
    BY <1>2, <1>7, <2>1, <2>5 DEF OrderInv, ResultsRecorded
  <2>7. cycle'.call = "answered" /\ cycle'.answer.ok /\ journal.at = "result" =>
            orders'[journal.request.order].result = journal.request
    BY <1>2, <1>7, <2>2, <2>5, StageOfRequest DEF OrderInv, ResultsRecorded
  <2>. QED  BY <1>1, <2>4, <2>6, <2>7 DEF ResultsRecorded
<1>11. ResultsOut' \subseteq ResultsOut
  <2>1. \A o \in Orders : orders'[o].result \in {orders[o].result, request}
    BY <1>7 DEF OrderKept
  <2>. QED  BY <1>1, <1>2, <1>3, <2>1 DEF ResultsOut
<1>12. ASSUME NEW lease \in OrderLease, Held(lease)' PROVE Held(lease)
  <2>1. lease # NoLease
    BY NoLeaseType
  <2>. QED  BY <1>1, <1>2, <1>12, <2>1 DEF Held, Offered
<1>13. HeldIsFresh'
  <2>1. ASSUME NEW lease \in OrderLease, Held(lease)'
        PROVE  /\ orders'[lease.order].lease.id \in {0, lease.id}
               /\ orders'[lease.order].result = Nothing
    <3>1. lease.order \in Orders /\ Held(lease)
      BY <1>12, <2>1 DEF OrderLease
    <3>2. /\ orders[lease.order].lease.id \in {0, lease.id}
          /\ orders[lease.order].result = Nothing /\ request.lease # lease.id
      BY <1>3, <3>1 DEF OrderInv, HeldIsFresh
    <3>3. lease.order # request.order
      BY <1>5, <1>6, <3>2
    <3>. QED  BY <1>7, <3>1, <3>2, <3>3 DEF OrderKept
  <2>. QED  BY <1>1, <1>11, <1>12, <2>1 DEF HeldIsFresh, OrderInv
<1>14. WorkKept' /\ ExecutedUnderOneLease'
  <2>1. \A o \in Orders : orders[o].result # Nothing => orders'[o].result = orders[o].result
    BY <1>6, <1>7 DEF OrderKept
  <2>2. \A e \in collected.leases : e[1] \in Orders
    BY DEF TypeOK
  <2>. QED  BY <1>1, <1>11, <2>1, <2>2 DEF OrderInv, WorkKept, ExecutedUnderOneLease
<1>. QED  BY <1>8, <1>9, <1>10, <1>13, <1>14 DEF OrderInv

\* A claim that is answered with a lease, or with none.
Grants(request, source, lease) ==
    /\ request.op = "claim" /\ Arrives(request, source)
    /\ ResponseTo(request) = {} /\ WithinSkew(request.issued)
    /\ lease \in LeasesFor(request)
    /\ claimWorkOrder(request, lease)
    /\ commitServiceResponse(request, source, lease) \/ DiesBeforeResponse(source)
    /\ UNCHANGED <<clock, device>>

\* What all grants have in common: the claim can still be taken, what its nonce was
\* given is alive, and the claims that are forgotten have lapsed.
LEMMA GrantFacts ==
    ASSUME TypeOK, ClaimInv, NEW request, NEW source \in Sources, NEW lease,
           Grants(request, source, lease)
    PROVE  /\ request \in ClaimsOut /\ request \in Claim /\ ~Lapsed(request)
           /\ \A c \in claims : c.nonce = request.nonce => c \in LiveClaims
           /\ GivenTo(request) = {} <=> \A c \in claims : c.nonce # request.nonce
           /\ \A c \in claims : c.nonce = request.nonce =>
                c.lease \in GivenTo(request) /\ lease = c.lease
           /\ lease \in GivenTo(request) =>
                \E c \in claims : c.nonce = request.nonce /\ c.lease = lease
           /\ \A c \in claims, r \in ClaimsOut :
                c.nonce = r.nonce /\ c \notin claims' => Lapsed(r)
           /\ claims' = LiveClaims \cup
                {[nonce |-> request.nonce, issued |-> request.issued, lease |-> lease]}
           /\ ClaimsOut' \subseteq ClaimsOut
<1>1. request \in late \cup {journal.request} /\ late' \subseteq late
      /\ journal' = journal /\ clock' = clock
  BY DEF Grants, Arrives, Sources, device
<1>2. request \in ClaimsOut /\ request \in Claim /\ request.issued \in Nat
      /\ ClaimsOut' \subseteq ClaimsOut
  <2>1. request \in ClaimsOut /\ ClaimsOut' \subseteq ClaimsOut
    BY <1>1 DEF Grants, ClaimsOut
  <2>2. request \in Request
    BY ArrivesType, TypeGroups DEF Grants
  <2>. QED  BY <2>1, <2>2, RequestCases DEF Grants
<1>3. clock \in Nat /\ ClockSkew \in Nat /\ clock <= request.issued + ClockSkew
  BY TimeAssumption, WorkOrderBounds DEF TypeOK, Grants, WithinSkew
<1>4. ~Lapsed(request)
  BY <1>2, <1>3 DEF Lapsed
<1>5. \A c \in claims, r \in ClaimsOut : c.nonce = r.nonce => c.issued = r.issued
  BY DEF ClaimInv, NoncesDrawn
<1>6. \A c \in claims : c.nonce = request.nonce => c \in LiveClaims
  BY <1>2, <1>3, <1>5 DEF LiveClaims
<1>7. \A c \in claims : c.nonce = request.nonce => c.lease \in GivenTo(request)
  BY <1>6 DEF GivenTo
<1>8. \A given \in GivenTo(request) :
        \E c \in claims : c.nonce = request.nonce /\ c.lease = given
  BY DEF GivenTo, LiveClaims
<1>9. \A c, d \in claims : c.nonce = d.nonce => c.lease = d.lease
  BY DEF ClaimInv, NoncesDrawn
<1>10. GivenTo(request) # {} => lease \in GivenTo(request)
  BY DEF Grants, LeasesFor
<1>11. claims' = LiveClaims \cup
            {[nonce |-> request.nonce, issued |-> request.issued, lease |-> lease]}
  BY DEF Grants, claimWorkOrder
<1>12. ASSUME NEW c \in claims, NEW r \in ClaimsOut, c.nonce = r.nonce, c \notin claims'
       PROVE  Lapsed(r)
  <2>1. c.issued = r.issued /\ c.issued \in Nat
    BY <1>5, <1>12 DEF TypeOK
  <2>2. ~(clock < c.issued + ClockSkew + 1)
    BY <1>11, <1>12 DEF LiveClaims
  <2>. QED  BY <1>3, <2>1, <2>2 DEF Lapsed
<1>. QED  BY <1>2, <1>4, <1>6, <1>7, <1>8, <1>9, <1>10, <1>11, <1>12

\* A claim is granted once.
LEMMA GrantClaims ==
    ASSUME TypeOK, ClaimInv, NEW request, NEW source \in Sources, NEW lease,
           Grants(request, source, lease)
    PROVE  ClaimInv'
<1>. DEFINE new == [nonce |-> request.nonce, issued |-> request.issued, lease |-> lease]
<1>1. /\ request \in ClaimsOut /\ ~Lapsed(request)
      /\ \A c \in claims : c.nonce = request.nonce => lease = c.lease
      /\ \A c \in claims, r \in ClaimsOut : c.nonce = r.nonce /\ c \notin claims' => Lapsed(r)
      /\ \A c \in claims' : c \in claims \/ c = new
      /\ new \in claims'
      /\ ClaimsOut' \subseteq ClaimsOut
  <2>1. claims' = LiveClaims \cup {new} /\ LiveClaims \subseteq claims
    BY GrantFacts DEF LiveClaims
  <2>2. /\ request \in ClaimsOut /\ ~Lapsed(request)
        /\ \A c \in claims : c.nonce = request.nonce => lease = c.lease
        /\ \A c \in claims, r \in ClaimsOut : c.nonce = r.nonce /\ c \notin claims' => Lapsed(r)
        /\ ClaimsOut' \subseteq ClaimsOut
    BY GrantFacts
  <2>. QED  BY <2>1, <2>2
<1>2. new.nonce = request.nonce /\ new.issued = request.issued /\ new.lease = lease
  OBVIOUS
<1>3. \A x \in retained' : x \in retained \/ x.request = request
  BY ResponseKept DEF Grants
<1>4. nonces' = nonces /\ clock' = clock /\ \A r : Lapsed(r)' <=> Lapsed(r)
  BY DEF Grants, device, Lapsed
<1>5. \A g \in granted' : g \in granted \/ g = <<request.nonce, lease.id>>
  BY DEF Grants, claimWorkOrder
<1>. HIDE DEF new
<1>6. NoncesDrawn'
  <2>1. \A c \in claims' : c.nonce <= nonces'
    BY <1>1, <1>2, <1>4 DEF ClaimInv, NoncesDrawn
  <2>2. \A x \in retained' : x.request.op = "claim" => x.request.nonce <= nonces'
    BY <1>1, <1>3, <1>4 DEF ClaimInv, NoncesDrawn
  <2>3. \A g \in granted' : g[1] <= nonces'
    BY <1>1, <1>4, <1>5 DEF ClaimInv, NoncesDrawn
  <2>4. \A c \in claims', r \in ClaimsOut' : c.nonce = r.nonce => c.issued = r.issued
    BY <1>1, <1>2 DEF ClaimInv, NoncesDrawn
  <2>5. \A c, d \in claims' : c.nonce = d.nonce => c.lease = d.lease
    BY <1>1, <1>2 DEF ClaimInv, NoncesDrawn
  <2>. QED  BY <1>1, <1>4, <2>1, <2>2, <2>3, <2>4, <2>5 DEF ClaimInv, NoncesDrawn
<1>7. ASSUME NEW g \in granted, g[1] = request.nonce PROVE lease.id = g[2]
  BY <1>1, <1>7 DEF ClaimInv, GrantsKept
<1>8. GrantsKept'
  <2>1. SUFFICES ASSUME NEW r \in ClaimsOut', NEW g \in granted', g[1] = r.nonce
                 PROVE  \/ \E c \in claims' : /\ c.nonce = r.nonce /\ c.issued = r.issued
                                              /\ c.lease.id = g[2]
                        \/ Lapsed(r)'
    BY DEF GrantsKept
  <2>2. CASE g \in granted
    BY <1>1, <1>4, <2>1, <2>2 DEF ClaimInv, GrantsKept
  <2>3. CASE g = <<request.nonce, lease.id>>
    <3>1. r = request
      BY <1>1, <2>1, <2>3 DEF ClaimInv, NoncesDrawn
    <3>. QED  BY <1>1, <1>2, <2>3, <3>1
  <2>. QED  BY <1>5, <2>1, <2>2, <2>3
<1>9. ClaimLeasesOnce'
  BY <1>5, <1>7 DEF ClaimInv, ClaimLeasesOnce
<1>. QED  BY <1>6, <1>8, <1>9 DEF ClaimInv

\* The claims that were settled are, and the one that was granted is now.
LEMMA GrantSettled ==
    ASSUME TypeOK, ClaimInv, ClaimsSettled, NEW request, NEW source \in Sources, NEW lease,
           Grants(request, source, lease)
    PROVE  ClaimsSettled'
<1>. DEFINE new == [nonce |-> request.nonce, issued |-> request.issued, lease |-> lease]
<1>1. /\ new \in claims' /\ request \in ClaimsOut
      /\ \A c \in claims : c \in claims' \/ clock > c.issued + ClockSkew
  <2>1. ASSUME NEW c \in claims, c \notin LiveClaims PROVE clock > c.issued + ClockSkew
    <3>1. clock \in Nat /\ ClockSkew \in Nat /\ c.issued \in Nat
      BY TimeAssumption, WorkOrderBounds DEF TypeOK
    <3>. QED  BY <2>1, <3>1 DEF LiveClaims
  <2>2. claims' = LiveClaims \cup {new} /\ request \in ClaimsOut
    BY GrantFacts
  <2>. QED  BY <2>1, <2>2
<1>2. new.nonce = request.nonce /\ new.issued = request.issued
  OBVIOUS
<1>3. /\ \A x \in retained' : x \in retained \/ x.request = request
      /\ cycle'.call = "answered" =>
            \/ cycle.call = "answered" /\ cycle'.answer = cycle.answer
            \/ request = journal.request
      /\ late' \subseteq late
  BY ResponseKept DEF Grants
<1>4. journal' = journal /\ clock' = clock
  BY DEF Grants, device
<1>. HIDE DEF new
<1>5. ASSUME NEW r, Settled(r) PROVE Settled(r)'
  BY <1>1, <1>4, <1>5 DEF Settled, Lapsed
<1>6. Settled(request)'
  BY <1>1, <1>2 DEF Settled
<1>7. ASSUME Settled(journal.request) \/ journal.request = request
      PROVE  Settled(journal.request)'
  BY <1>1, <1>2, <1>4, <1>7 DEF Settled, Lapsed
<1>. QED  BY <1>3, <1>4, <1>5, <1>6, <1>7 DEF ClaimsSettled

\* What a grant does to the orders: it repeats what the claim was given, or it gives the
\* oldest queued order away under a new identifier.
LEMMA GrantOrders ==
    ASSUME TypeOK, ResultsRecorded, NEW request, NEW source \in Sources, NEW lease,
           Grants(request, source, lease)
    PROVE  /\ leases <= leases' /\ leases' \in Nat
           /\ \/ /\ \A o \in Orders : OrderKept(o)
                 /\ lease = NoLease \/ lease \in GivenTo(request)
              \/ /\ GivenTo(request) = {} /\ lease.id = leases + 1 /\ leases' = leases + 1
                 /\ lease.order \in Orders
                 /\ orders[lease.order].result = Nothing
                 /\ orders'[lease.order].result = Nothing
                 /\ orders'[lease.order].lease.id = lease.id
                 /\ \A o \in Orders : o # lease.order => OrderKept(o)
<1>1. leases \in Nat /\ lease \in Lease /\ CurrentOrders \in [Orders -> WorkOrder]
  BY LeasesForType, TypeGroups, CurrentType DEF Grants, PlaneType
<1>2. leases' = (IF lease.id = leases + 1 THEN leases + 1 ELSE leases)
  BY DEF Grants, claimWorkOrder
<1>3. leases <= leases' /\ leases' \in Nat
  BY <1>1, <1>2
<1>4. CASE lease = NoLease
  <2>1. orders' = CurrentOrders
    BY <1>4 DEF Grants, claimWorkOrder
  <2>. QED  BY <1>3, <1>4, <2>1, CurrentKept DEF OrderKept
<1>5. CASE lease # NoLease
  <2>1. lease.order \in Orders
    BY <1>1, <1>5, LeaseCases
  <2>2. orders' = [CurrentOrders EXCEPT ![lease.order].status = "leased",
                                        ![lease.order].lease = lease]
    BY <1>5 DEF Grants, claimWorkOrder
  <2>3. \A o \in Orders : o # lease.order => orders'[o] = CurrentOrders[o]
    BY <1>1, <2>2
  <2>4. orders'[lease.order].result = CurrentOrders[lease.order].result
        /\ orders'[lease.order].lease = lease /\ orders'[lease.order].status = "leased"
    BY <1>1, <2>1, <2>2 DEF WorkOrder
  <2>5. \A o \in Orders : o # lease.order => OrderKept(o)
    BY <2>3, CurrentKept DEF OrderKept
  <2>6. CASE GivenTo(request) = {}
    <3>1. lease \in NewLeases
      BY <1>5, <2>6 DEF Grants, LeasesFor
    <3>2. lease.id = leases + 1 /\ lease.order \in Queued
      BY <3>1 DEF NewLeases
    <3>3. CurrentOrders[lease.order].status = "queued"
      BY <3>2 DEF Queued
    <3>4. orders[lease.order].result = Nothing /\ CurrentOrders[lease.order].result = Nothing
      BY <2>1, <3>3, CurrentKept
    <3>. QED  BY <1>2, <1>3, <2>1, <2>4, <2>5, <2>6, <3>2, <3>4
  <2>7. CASE GivenTo(request) # {}
    <3>1. lease \in GivenTo(request) /\ Active(lease)
      BY <1>5, <2>7 DEF Grants, LeasesFor
    <3>2. OrderKept(lease.order)
      BY <2>1, <2>4, <3>1, CurrentKept DEF OrderKept, Active
    <3>. QED  BY <1>3, <2>5, <3>1, <3>2
  <2>. QED  BY <2>6, <2>7
<1>. QED  BY <1>4, <1>5

\* A lease held after a grant was held before it, or is the new one, and then none was.
LEMMA GrantHeld ==
    ASSUME TypeOK, ClaimInv, ClaimsSettled, NEW request, NEW source \in Sources, NEW lease,
           Grants(request, source, lease), NEW held \in OrderLease, Held(held)'
    PROVE  /\ lease = NoLease \/ lease \in GivenTo(request) => Held(held)
           /\ GivenTo(request) = {} => held = lease /\ journal.at = "claim"
<1>. DEFINE new == [nonce |-> request.nonce, issued |-> request.issued, lease |-> lease]
<1>1. held # NoLease
  BY NoLeaseType
<1>2. /\ request \in ClaimsOut /\ ~Lapsed(request)
      /\ \A c \in claims' : c \in LiveClaims \/ c = new
      /\ LiveClaims \subseteq claims
      /\ GivenTo(request) = {} => \A c \in claims : c.nonce # request.nonce
      /\ lease \in GivenTo(request) => \E c \in claims : c.nonce = request.nonce /\ c.lease = lease
      /\ claims' = LiveClaims \cup {new}
  <2>1. claims' = LiveClaims \cup {new} /\ LiveClaims \subseteq claims
    BY GrantFacts DEF LiveClaims
  <2>. QED  BY <2>1, GrantFacts
<1>3. /\ \A x \in retained' : x \in retained \/ (x.request = request /\ x.lease = lease)
      /\ cycle'.call = "answered" =>
            \/ cycle.call = "answered" /\ cycle'.answer = cycle.answer
            \/ request = journal.request /\ cycle'.answer.lease = lease
      /\ request \in late \cup {journal.request} /\ journal' = journal
  BY ResponseKept DEF Grants, device
<1>4. new.nonce = request.nonce /\ new.lease = lease
  OBVIOUS
<1>. HIDE DEF new
<1>5. ASSUME journal.at = "claim", request.nonce = journal.request.nonce
      PROVE  request = journal.request
  <2>1. journal.request \in ClaimsOut
    BY <1>5, StageOfRequest DEF ClaimsOut
  <2>. QED  BY <1>2, <1>5, <2>1 DEF ClaimInv, NoncesDrawn
<1>6. \/ Held(held)
      \/ held = lease /\ journal.at = "claim" /\ request = journal.request
  <2>1. CASE journal.at \in {"lease", "execution"} /\ held = journal.lease
    BY <2>1 DEF Held
  <2>2. CASE journal.at = "claim" /\ Offered(held)'
    BY <1>2, <1>3, <1>4, <1>5, <2>2 DEF Held, Offered
  <2>. QED  BY <1>3, <2>1, <2>2 DEF Held
<1>7. ASSUME lease = NoLease \/ lease \in GivenTo(request) PROVE Held(held)
  BY <1>1, <1>2, <1>6, <1>7 DEF Held, Offered
<1>8. ASSUME GivenTo(request) = {} PROVE held = lease /\ journal.at = "claim"
  <2>1. ~Settled(request)
    BY <1>2, <1>8 DEF Settled
  <2>2. request.op = "claim" /\ ResponseTo(request) = {}
    BY DEF Grants
  <2>3. journal.at = "claim" /\ request = journal.request
    BY <1>3, <2>1, <2>2, StageOfRequest DEF ClaimsSettled
  <2>4. \A x \in retained : x.request # request
    BY <2>2 DEF ResponseTo
  <2>5. ~Held(held)
    BY <1>2, <1>8, <2>1, <2>3, <2>4 DEF Held, Offered, ClaimsSettled
  <2>. QED  BY <1>6, <2>3, <2>5
<1>. QED  BY <1>7, <1>8

\* A claim that is granted keeps everything.
LEMMA HandleClaimInv ==
    ASSUME TypeOK, TypeOK', ClaimInv, OrderInv,
           NEW request, NEW source \in Sources, HandleClaim(request, source)
    PROVE  ClaimInv' /\ OrderInv'
<1>1. PICK lease : Grants(request, source, lease)
  BY DEF HandleClaim, Grants
<1>2. ClaimInv' /\ ClaimsSettled'
  BY <1>1, GrantClaims, GrantSettled DEF OrderInv
<1>3. /\ leases <= leases' /\ leases' \in Nat /\ leases \in Nat
      /\ UNCHANGED <<clock, journal, record, collected>>
  BY <1>1, GrantOrders DEF OrderInv, Grants, device, TypeOK
<1>4. \A o \in Orders : /\ orders'[o].result = orders[o].result
                        /\ orders[o].result # Nothing => orders'[o].status = orders[o].status
  <2>1. CASE \A o \in Orders : OrderKept(o)
    BY <2>1 DEF OrderKept
  <2>2. CASE /\ orders[lease.order].result = Nothing /\ orders'[lease.order].result = Nothing
             /\ \A o \in Orders : o # lease.order => OrderKept(o)
    BY <2>2 DEF OrderKept
  <2>. QED  BY <1>1, <2>1, <2>2, GrantOrders DEF OrderInv
<1>5. /\ \A x \in retained' : x \in retained \/ x.request = request
      /\ cycle'.call = "answered" =>
            \/ cycle.call = "answered" /\ cycle'.answer = cycle.answer
            \/ request = journal.request
      /\ late' \subseteq late /\ request.op = "claim"
  BY <1>1, ResponseKept DEF Grants
<1>6. ResultsRecorded'
  <2>1. \A x \in retained : x.request.op = "result" => x.request.order \in Orders
    BY RequestCases DEF TypeOK
  <2>2. journal.at = "result" => journal.request.order \in Orders /\ request # journal.request
    BY <1>5, StageOfRequest DEF TypeOK, Result
  <2>. QED  BY <1>3, <1>4, <1>5, <2>1, <2>2 DEF ResultsRecorded, OrderInv
<1>7. ResultsOut' \subseteq ResultsOut
  BY <1>3, <1>4, <1>5 DEF ResultsOut
<1>8. WorkKept' /\ ExecutedUnderOneLease'
  <2>1. \A e \in collected.leases : e[1] \in Orders /\ e[2] \in Nat
    BY DEF TypeOK
  <2>2. \A n \in 1..leases : n \in 1..leases'
    BY <1>3
  <2>3. record.lease <= leases'
    BY <1>3 DEF OrderInv, WorkKept, TypeOK
  <2>. QED  BY <1>3, <1>4, <1>7, <2>1, <2>2, <2>3 DEF OrderInv, WorkKept, ExecutedUnderOneLease
<1>9. HeldIsFresh'
  <2>1. SUFFICES ASSUME NEW held \in OrderLease, Held(held)'
                 PROVE  /\ held.id \in 1..leases'
                        /\ orders'[held.order].lease.id \in {0, held.id}
                        /\ orders'[held.order].result = Nothing
                        /\ \A r \in ResultsOut' : r.lease # held.id
                        /\ journal'.at # "execution" =>
                            /\ record'.lease # held.id
                            /\ \A e \in collected'.leases : e[2] # held.id
    BY DEF HeldIsFresh
  <2>2. held.order \in Orders
    BY DEF OrderLease
  <2>3. CASE (\A o \in Orders : OrderKept(o)) /\ (lease = NoLease \/ lease \in GivenTo(request))
    <3>1. Held(held)
      BY <1>1, <2>1, <2>3, GrantHeld DEF OrderInv
    <3>2. held.id \in 1..leases'
      BY <1>3, <3>1 DEF OrderInv, HeldIsFresh
    <3>3. orders'[held.order].lease.id \in {0, held.id} /\ orders'[held.order].result = Nothing
      BY <2>2, <2>3, <3>1 DEF OrderInv, HeldIsFresh, OrderKept
    <3>. QED  BY <1>3, <1>7, <3>1, <3>2, <3>3 DEF OrderInv, HeldIsFresh
  <2>4. CASE /\ GivenTo(request) = {} /\ lease.id = leases + 1 /\ leases' = leases + 1
             /\ orders'[lease.order].result = Nothing
             /\ orders'[lease.order].lease.id = lease.id
    <3>1. held = lease
      BY <1>1, <2>1, <2>4, GrantHeld DEF OrderInv
    <3>2. /\ \A r \in ResultsOut : r.lease \in 1..leases
          /\ record.lease <= leases
          /\ \A e \in collected.leases : e[2] \in 1..leases
      BY DEF OrderInv, WorkKept
    <3>3. record.lease \in Nat
      BY DEF TypeOK
    <3>. QED  BY <1>3, <1>7, <2>4, <3>1, <3>2, <3>3
  <2>. QED  BY <1>1, <2>3, <2>4, GrantOrders DEF OrderInv
<1>. QED  BY <1>2, <1>6, <1>8, <1>9 DEF OrderInv

(***************************************************************************)
(* The device's steps: the control plane stays as it is.                   *)
(***************************************************************************)
\* A step that leads to no claim, leaves none unsettled and has no answer left.
LEMMA DeviceFrame ==
    ASSUME TypeOK, TypeOK', ClaimInv, OrderInv, UNCHANGED <<clock, server, nonces>>,
           journal'.at # "claim", cycle'.call # "answered",
           journal.at = "claim" => Settled(journal.request)
    PROVE  /\ ClaimInv' /\ ClaimsSettled' /\ ResultsRecorded'
           /\ UNCHANGED <<orders, claims, retained, leases, late>>
           /\ journal'.request.op # "result" => ResultsOut' \subseteq ResultsOut
<1>1. UNCHANGED <<orders, claims, retained, leases, late, granted>>
  BY DEF server, plane
<1>2. clock' \in Nat /\ clock <= clock'
  BY WorkOrderBounds DEF TypeOK
<1>3. journal'.request.op # "claim"
  BY DEF TypeOK, Result, Nothing
<1>4. ClaimInv'
  <2>1. ClaimsOut' \subseteq ClaimsOut
    BY <1>1, <1>3 DEF ClaimsOut
  <2>. QED  BY <1>1, <1>2, <2>1, ClaimFrame
<1>5. \A r : Settled(r)' <=> Settled(r)
  BY <1>1 DEF Settled, Lapsed
<1>6. ClaimsSettled' /\ ResultsRecorded'
  BY <1>1, <1>5 DEF OrderInv, ClaimsSettled, ResultsRecorded
<1>7. journal'.request.op # "result" => ResultsOut' \subseteq ResultsOut
  BY <1>1 DEF ResultsOut
<1>. QED  BY <1>1, <1>4, <1>6, <1>7

\* A new claim has a nonce nobody has seen.
LEMMA SignClaimInv ==
    ASSUME TypeOK, TypeOK', ClaimInv, OrderInv, SignClaim
    PROVE  ClaimInv' /\ OrderInv'
<1>1. /\ journal.at = "idle" /\ cycle.call = "none" /\ nonces' = nonces + 1 /\ nonces \in Nat
      /\ UNCHANGED <<clock, orders, claims, retained, leases, granted, late, record, collected,
                     cycle>>
  BY DEF SignClaim, At, server, plane, TypeOK
<1>2. journal'.at = "claim" /\ journal'.lease = NoLease
      /\ journal'.request = [op |-> "claim", nonce |-> nonces + 1, issued |-> cycle.now]
  BY <1>1 DEF SignClaim, Enter, TypeOK, Journal
<1>3. journal'.request.op = "claim" /\ journal'.request.nonce = nonces + 1
      /\ journal.request.op = "none"
  BY <1>1, <1>2 DEF TypeOK, Nothing
<1>4. /\ \A r \in ClaimsOut' : r \in ClaimsOut \/ r = journal'.request
      /\ \A r \in ClaimsOut : r.nonce <= nonces /\ r.nonce \in Nat
  <2>1. \A r \in ClaimsOut : r \in late
    BY <1>3 DEF ClaimsOut
  <2>2. \A r \in ClaimsOut : r.nonce \in Nat
    BY <2>1, RequestCases DEF ClaimsOut, TypeOK
  <2>. QED  BY <1>1, <2>2 DEF ClaimsOut, ClaimInv, NoncesDrawn
<1>5. /\ \A c \in claims : c.nonce \in Nat /\ c.nonce <= nonces
      /\ \A g \in granted : g[1] \in Nat /\ g[1] <= nonces
      /\ \A x \in retained : x.request.op = "claim" =>
            x.request.nonce \in Nat /\ x.request.nonce <= nonces
  BY RequestCases DEF TypeOK, ClaimInv, NoncesDrawn
<1>6. ClaimInv'
  <2>1. NoncesDrawn'
    BY <1>1, <1>3, <1>4, <1>5 DEF ClaimInv, NoncesDrawn
  <2>2. GrantsKept'
    <3>1. \A r : Lapsed(r)' <=> Lapsed(r)
      BY <1>1 DEF Lapsed
    <3>2. ASSUME NEW r \in ClaimsOut', NEW g \in granted, g[1] = r.nonce PROVE r \in ClaimsOut
      BY <1>1, <1>3, <1>4, <1>5, <3>2
    <3>. QED  BY <1>1, <3>1, <3>2 DEF ClaimInv, GrantsKept
  <2>. QED  BY <1>1, <2>1, <2>2 DEF ClaimInv, ClaimLeasesOnce
<1>7. ClaimsSettled' /\ ResultsRecorded'
  <2>1. \A r : Settled(r)' <=> Settled(r)
    BY <1>1 DEF Settled, Lapsed
  <2>. QED  BY <1>1, <1>2, <2>1 DEF OrderInv, ClaimsSettled, ResultsRecorded
<1>8. HeldIsFresh'
  <2>1. ASSUME NEW lease, Held(lease)' PROVE FALSE
    <3>1. Offered(lease)'
      BY <1>2, <2>1 DEF Held
    <3>2. (\A c \in claims : c.nonce # nonces + 1)
          /\ (\A x \in retained : x.request.op = "claim" => x.request.nonce # nonces + 1)
      BY <1>1, <1>5
    <3>. QED  BY <1>1, <1>3, <3>1, <3>2 DEF Offered
  <2>. QED  BY <2>1 DEF HeldIsFresh
<1>9. ResultsOut' \subseteq ResultsOut
  BY <1>1, <1>3 DEF ResultsOut
<1>10. WorkKept' /\ ExecutedUnderOneLease'
  BY <1>1, <1>2, <1>9 DEF OrderInv, WorkKept, ExecutedUnderOneLease
<1>. QED  BY <1>6, <1>7, <1>8, <1>10 DEF OrderInv

\* The answered claim: its lease was offered to the device only.
LEMMA ClaimAnsweredInv ==
    ASSUME TypeOK, TypeOK', ClaimInv, OrderInv, ClaimAnswered
    PROVE  ClaimInv' /\ OrderInv'
<1>1. /\ journal.at = "claim" /\ cycle.call = "answered" /\ cycle.answer.ok
      /\ UNCHANGED <<clock, server, nonces, record, collected>>
  BY DEF ClaimAnswered, Answered, Admitted
<1>2. journal'.request = Nothing /\ cycle'.call = "none"
      /\ (journal'.at = "idle" \/ (journal'.at = "lease" /\ journal'.lease = cycle.answer.lease))
  <2>1. CASE cycle.answer.lease = NoLease
    <3>1. journal' = [Idle EXCEPT !.receipt = cycle.answer.receipt] /\ cycle' = Asleep
      BY <2>1 DEF ClaimAnswered, EndsCycle
    <3>. QED  BY <3>1, AsleepType DEF Idle
  <2>2. CASE cycle.answer.lease # NoLease
    BY <2>2 DEF ClaimAnswered, TypeOK, Cycle
  <2>. QED  BY <2>1, <2>2
<1>3. Settled(journal.request)
  BY <1>1 DEF OrderInv, ClaimsSettled
<1>4. /\ ClaimInv' /\ ClaimsSettled' /\ ResultsRecorded'
      /\ UNCHANGED <<orders, claims, retained, leases, late>>
      /\ ResultsOut' \subseteq ResultsOut
  BY <1>1, <1>2, <1>3, DeviceFrame DEF Nothing
<1>5. HeldIsFresh'
  <2>1. ASSUME NEW lease, Held(lease)' PROVE Held(lease)
    BY <1>1, <1>2, <2>1 DEF Held, Offered
  <2>. QED  BY <1>1, <1>2, <1>4, <2>1 DEF OrderInv, HeldIsFresh
<1>6. WorkKept' /\ ExecutedUnderOneLease'
  BY <1>1, <1>2, <1>4 DEF OrderInv, WorkKept, ExecutedUnderOneLease
<1>. QED  BY <1>4, <1>5, <1>6 DEF OrderInv

\* A lease that ran out before anything was done, or was prepared.
LEMMA LeaseStageInv ==
    ASSUME TypeOK, TypeOK', ClaimInv, OrderInv, LeaseLapsed \/ PrepareExecution
    PROVE  ClaimInv' /\ OrderInv'
<1>1. /\ journal.at = "lease" /\ cycle.call = "none"
      /\ UNCHANGED <<clock, server, nonces, record, collected>>
  BY DEF LeaseLapsed, PrepareExecution, At
<1>2. /\ journal'.request = Nothing /\ cycle'.call = "none"
      /\ journal'.at = "idle" \/ (journal'.at = "execution" /\ journal'.lease = journal.lease)
  <2>1. CASE LeaseLapsed
    BY <2>1, AsleepType DEF LeaseLapsed, Enter, EndsCycle, TypeOK, Journal
  <2>2. CASE PrepareExecution
    BY <1>1, <2>2 DEF PrepareExecution, Enter, TypeOK, Journal
  <2>. QED  BY <2>1, <2>2
<1>3. /\ ClaimInv' /\ ClaimsSettled' /\ ResultsRecorded'
      /\ UNCHANGED <<orders, claims, retained, leases, late>>
      /\ ResultsOut' \subseteq ResultsOut
  BY <1>1, <1>2, DeviceFrame DEF Nothing
<1>4. HeldIsFresh'
  <2>1. ASSUME NEW lease, Held(lease)' PROVE Held(lease)
    BY <1>1, <1>2, <2>1 DEF Held
  <2>. QED  BY <1>1, <1>2, <1>3, <2>1 DEF OrderInv, HeldIsFresh
<1>5. record.lease # journal.lease.id
  <2>1. Held(journal.lease) /\ journal.lease \in OrderLease
    BY <1>1, LeaseCases DEF Held, TypeOK, Journal
  <2>. QED  BY <1>1, <2>1 DEF OrderInv, HeldIsFresh
<1>6. WorkKept' /\ ExecutedUnderOneLease'
  BY <1>1, <1>2, <1>3, <1>5 DEF OrderInv, WorkKept, ExecutedUnderOneLease
<1>. QED  BY <1>3, <1>4, <1>6 DEF OrderInv

\* The signed result tells what was done under the lease.
LEMMA SignedInv ==
    ASSUME TypeOK, TypeOK', ClaimInv, OrderInv, Deny \/ SignResult
    PROVE  ClaimInv' /\ OrderInv'
<1>1. /\ journal.at \in {"lease", "execution"} /\ cycle.call = "none" /\ cycle' = cycle
      /\ UNCHANGED <<clock, server, nonces, record, collected>>
  BY DEF Deny, SignResult, Executing, At
<1>2. Held(journal.lease) /\ journal.lease \in OrderLease
  BY <1>1, LeaseCases DEF Held, TypeOK, Journal
<1>3. /\ journal.lease.id \in 1..leases
      /\ journal.at = "lease" => /\ record.lease # journal.lease.id
                                 /\ \A e \in collected.leases : e[2] # journal.lease.id
  BY <1>2 DEF OrderInv, HeldIsFresh
<1>4. /\ journal'.at = "result" /\ journal'.lease = journal.lease
      /\ journal'.request.op = "result"
      /\ journal'.request.order = journal.lease.order
      /\ journal'.request.lease = journal.lease.id
  <2>1. PICK outcome, digest : journal' = [journal EXCEPT !.at = "result",
            !.request = SignedResult(outcome, digest), !.lease = journal.lease]
    BY DEF Deny, SignResult, Enter
  <2>2. journal'.at = "result" /\ journal'.lease = journal.lease
        /\ journal'.request = SignedResult(outcome, digest)
    BY <2>1 DEF TypeOK, Journal
  <2>. QED  BY <2>2 DEF SignedResult
<1>5. /\ journal'.request.outcome = "succeeded" <=>
            <<journal.lease.order, journal.lease.id>> \in collected.leases
      /\ journal.lease.id = record.lease => journal'.request.digest = record.digest
      /\ record.state = "pending" => journal.at = "lease"
  <2>1. CASE Deny
    <3>1. journal'.request.outcome = "rejected" /\ journal.at = "lease"
      BY <2>1 DEF Deny, At, Enter, SignedResult, TypeOK, Journal
    <3>. QED  BY <1>3, <3>1
  <2>2. CASE SignResult
    <3>1. /\ journal'.request.outcome = "succeeded" /\ journal'.request.digest = record.digest
          /\ journal.at = "execution" /\ record.lease = journal.lease.id
          /\ record.state = "completed"
      BY <2>2 DEF SignResult, Executing, OfThisExecution, At, Enter, SignedResult, TypeOK, Journal
    <3>. QED  BY <3>1 DEF OrderInv, WorkKept
  <2>. QED  BY <2>1, <2>2
<1>6. /\ ClaimInv' /\ ClaimsSettled' /\ ResultsRecorded'
      /\ UNCHANGED <<orders, claims, retained, leases, late>>
  BY <1>1, <1>4, DeviceFrame
<1>7. HeldIsFresh'
  BY <1>4 DEF Held, HeldIsFresh
<1>8. \A r \in ResultsOut' : r \in ResultsOut \/ r = journal'.request
  BY <1>6 DEF ResultsOut
<1>9. WorkKept'
  BY <1>1, <1>3, <1>4, <1>5, <1>6, <1>8 DEF OrderInv, WorkKept
<1>10. ExecutedUnderOneLease'
  BY <1>1, <1>4, <1>5 DEF OrderInv, ExecutedUnderOneLease
<1>. QED  BY <1>6, <1>7, <1>9, <1>10 DEF OrderInv

\* The device is free when its result is recorded.
LEMMA ResultAnsweredInv ==
    ASSUME TypeOK, TypeOK', ClaimInv, OrderInv, ResultAnswered
    PROVE  /\ ClaimInv' /\ OrderInv'
           /\ orders[journal.request.order].result = journal.request
<1>1. /\ journal.at = "result" /\ cycle.call = "answered" /\ cycle.answer.ok
      /\ UNCHANGED <<clock, server, nonces, record, collected>>
  BY DEF ResultAnswered, Answered, Admitted
<1>2. journal'.at = "idle" /\ journal'.request = Nothing /\ cycle'.call = "none"
  BY AsleepType DEF ResultAnswered, EndsCycle, Idle
<1>3. /\ ClaimInv' /\ ClaimsSettled' /\ ResultsRecorded'
      /\ UNCHANGED <<orders, claims, retained, leases, late>>
      /\ ResultsOut' \subseteq ResultsOut
  BY <1>1, <1>2, DeviceFrame DEF Nothing
<1>4. orders[journal.request.order].result = journal.request
  BY <1>1 DEF OrderInv, ResultsRecorded
<1>5. HeldIsFresh'
  BY <1>2 DEF Held, HeldIsFresh
<1>6. journal.request.op = "result" /\ Nothing.op = "none"
  BY <1>1, StageOfRequest DEF Nothing
<1>7. WorkKept'
  BY <1>1, <1>2, <1>3, <1>4, <1>6 DEF OrderInv, WorkKept
<1>8. ExecutedUnderOneLease'
  BY <1>1 DEF OrderInv, ExecutedUnderOneLease
<1>. QED  BY <1>3, <1>4, <1>5, <1>7, <1>8 DEF OrderInv

\* The collector runs under a lease that nothing else was done under.
LEMMA CollectionInv ==
    ASSUME TypeOK, TypeOK', ClaimInv, OrderInv,
           BeginCollection \/ FinishCollection \/ CollectionFails
    PROVE  ClaimInv' /\ OrderInv'
<1>. DEFINE pair == <<journal.lease.order, journal.lease.id>>
<1>1. /\ journal.at = "execution" /\ cycle'.call = "none"
      /\ UNCHANGED <<clock, server, nonces, journal>>
  BY AsleepType DEF BeginCollection, FinishCollection, CollectionFails, Executing, At, EndsCycle
<1>2. journal.request = Nothing
  BY <1>1 DEF TypeOK
<1>3. /\ ClaimInv' /\ ClaimsSettled' /\ ResultsRecorded'
      /\ UNCHANGED <<orders, claims, retained, leases, late>>
      /\ ResultsOut' \subseteq ResultsOut
  BY <1>1, <1>2, DeviceFrame DEF Nothing
<1>4. Held(journal.lease) /\ journal.lease \in OrderLease
  BY <1>1, LeaseCases DEF Held, TypeOK, Journal
<1>5. /\ journal.lease.id \in 1..leases
      /\ orders[journal.lease.order].result = Nothing
      /\ \A r \in ResultsOut : r.lease # journal.lease.id
  BY <1>4 DEF OrderInv, HeldIsFresh
<1>6. HeldIsFresh'
  <2>1. ASSUME NEW lease, Held(lease)' PROVE Held(lease)
    BY <1>1, <2>1 DEF Held
  <2>. QED  BY <1>1, <1>3, <2>1 DEF OrderInv, HeldIsFresh
<1>7. /\ record' = record \/ record'.lease = journal.lease.id
      /\ \A e \in collected'.leases : e \in collected.leases \/ e = pair
      /\ collected.leases \subseteq collected'.leases
      /\ record'.state = "completed" /\ record'.lease = journal.lease.id =>
            \/ pair \in collected'.leases
            \/ record' = record
      /\ record'.state = "pending" => record'.lease = journal.lease.id
  <2>1. CASE BeginCollection
    BY <2>1 DEF BeginCollection
  <2>2. CASE FinishCollection \/ CollectionFails
    <3>1. collected'.leases = collected.leases \cup {pair}
      BY <2>2 DEF FinishCollection, CollectionFails
    <3>2. record'.lease = record.lease /\ record.lease = journal.lease.id
      BY <2>2 DEF FinishCollection, CollectionFails, OfThisExecution, TypeOK
    <3>. QED  BY <3>1, <3>2
  <2>. QED  BY <2>1, <2>2
<1>8. \A e \in collected.leases : e[1] = pair[1] => e[2] = pair[2]
  BY <1>1, <1>5 DEF OrderInv, WorkKept
<1>9. ExecutedUnderOneLease'
  BY <1>1, <1>7, <1>8 DEF OrderInv, ExecutedUnderOneLease
<1>10. WorkKept'
  <2>1. record'.lease <= leases
    <3>1. leases \in Nat /\ journal.lease.id <= leases
      BY <1>5 DEF TypeOK
    <3>. QED  BY <1>7, <3>1 DEF OrderInv, WorkKept
  <2>2. ASSUME NEW r \in ResultsOut'
        PROVE  /\ r.lease \in 1..leases
               /\ r.outcome = "succeeded" <=> <<r.order, r.lease>> \in collected'.leases
               /\ r.lease = record'.lease => r.digest = record'.digest
    <3>1. r \in ResultsOut /\ r.lease # journal.lease.id
      BY <1>3, <1>5
    <3>2. <<r.order, r.lease>> # pair
      BY <3>1
    <3>. QED  BY <1>7, <3>1, <3>2 DEF OrderInv, WorkKept
  <2>3. ASSUME NEW e \in collected'.leases
        PROVE  /\ e[2] \in 1..leases
               /\ \/ journal.lease.order = e[1] /\ journal.lease.id = e[2]
                  \/ orders[e[1]].result # Nothing /\ orders[e[1]].result.lease = e[2]
    BY <1>5, <1>7 DEF OrderInv, WorkKept
  <2>4. record'.lease = journal.lease.id /\ record'.state = "completed" => pair \in collected'.leases
    BY <1>1, <1>7 DEF OrderInv, WorkKept
  <2>. QED  BY <1>1, <1>3, <2>1, <2>2, <2>3, <2>4 DEF WorkKept
<1>. QED  BY <1>3, <1>6, <1>9, <1>10 DEF OrderInv

\* In the first state there are no claims, no results and no lease.
LEMMA InitInv == ASSUME Init PROVE ClaimInv /\ OrderInv
<1>1. /\ late = {} /\ claims = {} /\ retained = {} /\ granted = {} /\ leases = 0
      /\ collected.leases = {} /\ record.lease = 0 /\ record.state = "none"
      /\ journal.at = "idle" /\ journal.request = Nothing /\ Nothing.op = "none"
      /\ cycle.call = "none" /\ \A o \in Orders : orders[o].result = Nothing
  BY AsleepType DEF Init, Idle, Nothing
<1>2. ClaimsOut = {} /\ ResultsOut = {}
  BY <1>1 DEF ClaimsOut, ResultsOut
<1>3. ClaimInv
  BY <1>1, <1>2 DEF ClaimInv, NoncesDrawn, GrantsKept, ClaimLeasesOnce
<1>4. ClaimsSettled /\ ResultsRecorded
  BY <1>1 DEF ClaimsSettled, ResultsRecorded
<1>5. HeldIsFresh
  BY <1>1 DEF HeldIsFresh, Held
<1>6. WorkKept /\ ExecutedUnderOneLease
  BY <1>1, <1>2 DEF WorkKept, ExecutedUnderOneLease
<1>. QED  BY <1>3, <1>4, <1>5, <1>6 DEF OrderInv

\* Every step keeps the invariant.
LEMMA NextInv ==
    ASSUME TypeOK, TypeOK', ClaimInv, OrderInv, [Next]_vars
    PROVE  ClaimInv' /\ OrderInv'
<1>1. CASE Operator
  BY <1>1, OperatorQuiet, QuietInv DEF OrderInv
<1>2. CASE Engine
  <2>1. CASE \/ StartCycle \/ Send \/ AnswerRefused \/ RecoveryRequired \/ CallDropped
    BY <2>1, CycleQuiet, QuietInv
  <2>2. CASE SignClaim \/ ClaimAnswered \/ LeaseLapsed \/ PrepareExecution
    BY <2>2, SignClaimInv, ClaimAnsweredInv, LeaseStageInv
  <2>3. CASE Deny \/ SignResult \/ ResultAnswered \/ BeginCollection \/ FinishCollection
    BY <2>3, SignedInv, ResultAnsweredInv, CollectionInv
  <2>. QED  BY <1>2, <2>1, <2>2, <2>3 DEF Engine
<1>3. ASSUME NEW source \in Sources, Handler(source) PROVE ClaimInv' /\ OrderInv'
  <2>1. PICK request : \/ ReplayResponse(request, source) \/ Refuse(request, source)
                       \/ HandleClaim(request, source) \/ HandleResult(request, source)
    BY <1>3 DEF Handler
  <2>. QED  BY <2>1, AnsweredQuiet, QuietInv, HandleClaimInv, HandleResultInv
<1>4. CASE CollectionFails
  BY <1>4, CollectionInv
<1>5. CASE CallFails \/ Dies \/ Tick
  BY <1>5, CycleQuiet, QuietInv
<1>6. CASE UNCHANGED vars
  <2>1. UNCHANGED <<clock, orders, claims, retained, leases, granted, late, journal, record,
                    cycle, nonces, collected>>
    BY <1>6 DEF vars, plane, device
  <2>2. clock <= clock'
    BY <2>1, WorkOrderBounds DEF TypeOK
  <2>3. QuietStep
    BY <2>1, <2>2, SameOrders DEF QuietStep
  <2>. QED  BY <2>3, QuietInv
<1>. QED  BY <1>1, <1>2, <1>3, <1>4, <1>5, <1>6 DEF Next

\* The invariant holds of every behaviour: nonces, claims and grants agree, only the
\* journalled claim can be given a new lease, and nothing was done under a lease that
\* the device has yet to use.
THEOREM WorkOrdersInvariant == Spec => [](ClaimInv /\ OrderInv)
<1>1. TypeOK /\ TypeOK' /\ ClaimInv /\ OrderInv /\ [Next]_vars => ClaimInv' /\ OrderInv'
  BY NextInv
<1>. QED  BY <1>1, InitInv, WorkOrdersTyped, PTL DEF Spec

\* One signed claim is given one lease, for any skew and any number of claims, deaths and
\* late deliveries: the nonce is remembered as long as the claim would be taken.
THEOREM ClaimsLeaseOnce == Spec => []ClaimLeasesOnce
<1>1. ClaimInv => ClaimLeasesOnce
  BY DEF ClaimInv
<1>. QED  BY <1>1, WorkOrdersInvariant, PTL

\* An order is collected under one lease only, and a pending record is the one of the
\* execution the journal is at.
THEOREM ExecutesUnderOneLease == Spec => []ExecutedUnderOneLease
<1>1. OrderInv => ExecutedUnderOneLease
  BY DEF OrderInv
<1>. QED  BY <1>1, WorkOrdersInvariant, PTL

\* What the control plane records as succeeded was collected under that lease, what it
\* records as rejected was not, and the digest is the one the device keeps.
THEOREM RecordsWhatWasDone == Spec => []RecordedWasDone
<1>1. TypeOK /\ OrderInv => RecordedWasDone
  <2>. SUFFICES ASSUME TypeOK, OrderInv, NEW o \in Orders, orders[o].result # Nothing
                PROVE  /\ orders[o].status = orders[o].result.outcome
                       /\ orders[o].result.outcome = "succeeded"
                            <=> <<o, orders[o].result.lease>> \in collected.leases
                       /\ orders[o].result.lease = record.lease =>
                            orders[o].result.digest = record.digest
    BY DEF RecordedWasDone
  <2>1. orders[o].result \in Result
    BY DEF TypeOK, WorkOrder
  <2>2. orders[o].result \in ResultsOut
    BY <2>1 DEF ResultsOut, Result
  <2>3. orders[o].status = orders[o].result.outcome /\ orders[o].result.order = o
    BY DEF OrderInv, ResultsRecorded
  <2>. QED  BY <2>2, <2>3 DEF OrderInv, WorkKept
<1>. QED  BY <1>1, WorkOrdersInvariant, WorkOrdersTyped, PTL

\* The device leaves the result stage only with a result the control plane has recorded,
\* whichever of the two died on the way.
THEOREM CompletesRecorded == Spec => CompletedRecorded
<1>1. ASSUME TypeOK, TypeOK', ClaimInv, OrderInv, [Next]_vars
      PROVE  [(journal.at = "result" /\ journal'.at # "result") =>
                orders[journal.request.order].result = journal.request]_vars
  <2>. SUFFICES ASSUME journal.at = "result", journal'.at # "result"
                PROVE  orders[journal.request.order].result = journal.request
    OBVIOUS
  <2>1. CASE Engine
    <3>1. ASSUME \/ StartCycle \/ Send \/ AnswerRefused \/ RecoveryRequired \/ CallDropped
                 \/ BeginCollection \/ FinishCollection
          PROVE  journal' = journal
      BY <3>1 DEF StartCycle, Send, AnswerRefused, RecoveryRequired, CallDropped,
         BeginCollection, FinishCollection, device
    <3>2. ASSUME \/ SignClaim \/ ClaimAnswered \/ LeaseLapsed \/ Deny \/ PrepareExecution
                 \/ SignResult
          PROVE  journal.at # "result"
      BY <3>2 DEF SignClaim, ClaimAnswered, LeaseLapsed, Deny, PrepareExecution, SignResult,
         Executing, Answered, At
    <3>. QED  BY <1>1, <2>1, <3>1, <3>2, ResultAnsweredInv DEF Engine
  <2>2. ASSUME ~Engine PROVE journal' = journal
    <3>1. CASE Operator
      BY <3>1 DEF Operator, createWorkOrder, approveWorkOrder, cancelWorkOrder, ViewOrders,
         Changes, device
    <3>2. ASSUME NEW source \in Sources, Handler(source) PROVE journal' = journal
      BY <3>2 DEF Handler, ReplayResponse, Refuse, HandleClaim, HandleResult, device
    <3>3. CASE CollectionFails \/ CallFails \/ Dies \/ Tick \/ UNCHANGED vars
      BY <3>3 DEF CollectionFails, CallFails, Dies, Tick, vars, device
    <3>. QED  BY <1>1, <2>2, <3>1, <3>2, <3>3 DEF Next
  <2>. QED  BY <2>1, <2>2
<1>2. TypeOK /\ TypeOK' /\ ClaimInv /\ OrderInv /\ [Next]_vars =>
        [(journal.at = "result" /\ journal'.at # "result") =>
            orders[journal.request.order].result = journal.request]_vars
  BY <1>1
<1>. QED  BY <1>2, WorkOrdersInvariant, WorkOrdersTyped, PTL DEF Spec, CompletedRecorded

=============================================================================

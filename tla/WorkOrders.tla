---------------------------- MODULE WorkOrders ----------------------------
(***************************************************************************)
(* Fleet work orders: the engine of a resident Linux device               *)
(* (crates/fleet-resident-work-orders), its diagnostic handoff, and the    *)
(* work-order part of the control plane (services/fleet-control-plane).    *)
(*                                                                         *)
(* The engine journals a signed claim, the lease it was granted, the       *)
(* prepared execution and the signed result, one step at a time, and sends *)
(* the same bytes until they are answered.  Requests may be lost, arrive   *)
(* late or lose their answer; either side may die between two writes.  A   *)
(* tick is a fraction of a second: the control plane stamps with ticks,    *)
(* the device with whole seconds.                                          *)
(***************************************************************************)
EXTENDS Naturals, FiniteSets

CONSTANTS
    LastOrder,     \* the orders, in the order they are created, are 1..LastOrder
    Repairs,       \* the ones that repair; the others diagnose
    OrderExpiry,   \* expiresAt of every order
    LeaseTicks,    \* leaseSeconds of every claim
    ClockSkew,     \* clockSkewMs
    Second,        \* ticks in a second
    RetainedResponses,  \* MAX_SERVICE_RECEIPTS_PER_OPERATION
    MaxClock,      \* bound: the end of time
    MaxClaims,     \* bound: claims signed
    MaxFaults      \* bound: deaths, lost messages and failing collections

Orders == 1..LastOrder

ASSUME OrderAssumption == LastOrder \in Nat \ {0} /\ Repairs \subseteq Orders
ASSUME TimeAssumption ==
    /\ OrderExpiry \in Nat /\ ClockSkew \in Nat
    /\ LeaseTicks \in Nat \ {0} /\ Second \in Nat \ {0}
ASSUME WorkOrderBounds ==
    /\ RetainedResponses \in Nat \ {0}
    /\ MaxClock \in Nat /\ MaxClaims \in Nat /\ MaxFaults \in Nat

VARIABLES
    clock,
    orders,    \* work_orders
    claims,    \* work_order_claims: what every nonce was given
    retained,  \* service_receipts: the responses kept for an exact retry
    sequence,  \* last_sequence of the device's receipts
    leases,    \* lease identifiers generated
    late,      \* requests of failed calls, still on their way
    journal,   \* the device's durable WorkOrderJournal
    record,    \* the handoff's durable DiagnosticExecutionRecord
    cycle,     \* the cycle in progress and the call it waits for
    nonces,    \* nonces drawn
    collected, \* history: the lease of every collection, the last one's number
    granted,   \* history: every nonce and the lease it was given
    faults

plane == <<orders, claims, retained, sequence, leases, granted>>
device == <<journal, record, nonces, collected>>
vars == <<clock, plane, late, device, cycle, faults>>

OrderLease == [order : Orders, id : Nat, leasedAt : Nat, expires : Nat]
NoLease == [order |-> 0, id |-> 0, leasedAt |-> 0, expires |-> 0]
Lease == OrderLease \cup {NoLease}

\* The signed requests.  A digest is the number of the collection it is of.
Claim == [op : {"claim"}, nonce : Nat, issued : Nat]
Result == [op : {"result"}, order : Orders, lease : Nat,
           outcome : {"succeeded", "rejected"}, digest : Nat, completed : Nat]
Request == Claim \cup Result
Nothing == [op |-> "none"]

\* An answer is a refusal, or a body with its receipt.
Answer == [ok : BOOLEAN, lease : Lease, receipt : Nat]
Refusal == [ok |-> FALSE, lease |-> NoLease, receipt |-> 0]

Status == {"absent", "pending_approval", "queued", "leased", "succeeded", "rejected",
           "cancelled", "expired"}
WorkOrder == [status : Status, lease : Lease, result : Result \cup {Nothing}]

\* JournalStage, with the receipt checkpoint.
Stage == {"idle", "claim", "lease", "execution", "result"}
Idle == [at |-> "idle", request |-> Nothing, lease |-> NoLease, receipt |-> 0]
Journal == [at : Stage, request : Request \cup {Nothing}, lease : Lease, receipt : Nat]

Asleep == [awake |-> FALSE, now |-> 0, call |-> "none", answer |-> Refusal]
Cycle == [awake : BOOLEAN, now : Nat, call : {"none", "sent", "dropped", "answered"}, answer : Answer]

Init ==
    /\ clock = 0
    /\ orders = [o \in Orders |-> [status |-> "absent", lease |-> NoLease, result |-> Nothing]]
    /\ claims = {} /\ retained = {} /\ sequence = 0 /\ leases = 0
    /\ late = {}
    /\ journal = Idle
    /\ record = [lease |-> 0, state |-> "none", digest |-> 0]
    /\ cycle = Asleep
    /\ nonces = 0 /\ collected = [leases |-> {}, last |-> 0] /\ granted = {}
    /\ faults = 0

Fault == faults < MaxFaults /\ faults' = faults + 1

(***************************************************************************)
(* The control plane.  Every transaction first expires what is overdue.    *)
(***************************************************************************)
expireWorkOrders(os) ==
    [o \in Orders |->
        IF OrderExpiry <= clock /\ os[o].status \in {"pending_approval", "queued", "leased"}
        THEN [os[o] EXCEPT !.status = "expired"]
        ELSE os[o]]

releaseExpiredLeases(os) ==
    [o \in Orders |->
        IF os[o].status = "leased" /\ os[o].lease.expires <= clock
        THEN [os[o] EXCEPT !.status = "queued", !.lease = NoLease]
        ELSE os[o]]

Changes(os) == /\ orders' = os
               /\ UNCHANGED <<clock, claims, retained, sequence, leases, granted, late,
                              device, cycle, faults>>

\* A diagnosis is queued at once, a repair waits for an administrator.
createWorkOrder(o) ==
    /\ orders[o].status = "absent" /\ clock < OrderExpiry
    /\ \A earlier \in 1..(o - 1) : orders[earlier].status # "absent"
    /\ Changes([expireWorkOrders(orders) EXCEPT
                  ![o].status = IF o \in Repairs THEN "pending_approval" ELSE "queued"])

approveWorkOrder(o) ==
    /\ expireWorkOrders(orders)[o].status = "pending_approval"
    /\ Changes([expireWorkOrders(orders) EXCEPT ![o].status = "queued"])

cancelWorkOrder(o) ==
    /\ expireWorkOrders(orders)[o].status \in {"pending_approval", "queued"}
    /\ Changes([expireWorkOrders(orders) EXCEPT ![o].status = "cancelled"])

\* getWorkOrder, listWorkOrders
ViewOrders ==
    /\ expireWorkOrders(orders) # orders
    /\ Changes(expireWorkOrders(orders))

\* A request comes from the call in progress, or late, from a call given up.
Sources == {"call", "late"}
Arrives(request, source) ==
    \/ /\ source = "call" /\ cycle.call = "sent" /\ request = journal.request
       /\ UNCHANGED late
    \/ /\ source = "late" /\ request \in late /\ late' = late \ {request}

\* An answer reaches the device only on the connection that asked.
Answers(source, answer) ==
    cycle' = IF source = "call"
             THEN [cycle EXCEPT !.call = "answered", !.answer = answer]
             ELSE cycle

ResponseTo(request) == {r \in retained : r.request = request}
WithinSkew(stamp) == stamp <= clock + ClockSkew /\ clock <= stamp + ClockSkew

\* commitServiceResponse: the next sequence number, and only the newest responses
\* of an operation are kept.
NewestOf(responses) ==
    {r \in responses :
        Cardinality({s \in responses : s.request.op = r.request.op /\ s.receipt > r.receipt})
            < RetainedResponses}

commitServiceResponse(request, source, lease) ==
    /\ sequence' = sequence + 1
    /\ retained' = NewestOf(retained \cup
                       {[request |-> request, lease |-> lease, receipt |-> sequence']})
    /\ Answers(source, [ok |-> TRUE, lease |-> lease, receipt |-> sequence'])
    /\ UNCHANGED faults

\* The transaction is committed and the process dies before the response is.
DiesBeforeResponse(source) ==
    /\ Fault
    /\ cycle' = IF source = "call" THEN [cycle EXCEPT !.call = "dropped"] ELSE cycle
    /\ UNCHANGED <<sequence, retained>>

\* Faulty variant: an exact retry is refused as a replay.
RefusesReplay(request, source) ==
    /\ Arrives(request, source) /\ ResponseTo(request) # {}
    /\ Answers(source, Refusal)
    /\ UNCHANGED <<clock, plane, device, faults>>

\* An exact retry gets the retained body and receipt.
ReplayResponse(request, source) ==
    /\ Arrives(request, source)
    /\ \E r \in ResponseTo(request) :
        Answers(source, [ok |-> TRUE, lease |-> r.lease, receipt |-> r.receipt])
    /\ UNCHANGED <<clock, plane, device, faults>>

\* Faulty variant: a claim's nonce is forgotten in the last tick it is accepted.
ForgetsEarly == {c \in claims : clock < c.issued + ClockSkew}

LiveClaims == {c \in claims : clock < c.issued + ClockSkew + 1}

\* claimWorkOrder: the leases a claim can be answered with (NoLease: no order is
\* queued that this device may be given).
CurrentOrders == releaseExpiredLeases(expireWorkOrders(orders))
GivenTo(request) == {c.lease : c \in {d \in LiveClaims : d.nonce = request.nonce}}
Active(lease) ==
    /\ CurrentOrders[lease.order].status = "leased"
    /\ CurrentOrders[lease.order].lease.id = lease.id

\* The oldest queued order, until the lease or the order itself runs out.
Queued == {o \in Orders : CurrentOrders[o].status = "queued"}
LeaseEnd == IF clock + LeaseTicks <= OrderExpiry THEN clock + LeaseTicks ELSE OrderExpiry
NewLeases ==
    {[order |-> o, id |-> leases + 1, leasedAt |-> clock, expires |-> LeaseEnd] :
        o \in {first \in Queued : \A other \in Queued : first <= other}}

LeasesFor(request) ==
    IF GivenTo(request) = {} THEN {NoLease} \cup NewLeases
    ELSE {lease \in GivenTo(request) : lease = NoLease \/ Active(lease)}

claimWorkOrder(request, lease) ==
    /\ orders' = IF lease = NoLease THEN CurrentOrders
                 ELSE [CurrentOrders EXCEPT ![lease.order].status = "leased",
                                            ![lease.order].lease = lease]
    /\ claims' = LiveClaims \cup
            {[nonce |-> request.nonce, issued |-> request.issued, lease |-> lease]}
    /\ leases' = IF lease.id = leases + 1 THEN leases + 1 ELSE leases
    /\ granted' = IF lease = NoLease THEN granted ELSE granted \cup {<<request.nonce, lease.id>>}

HandleClaim(request, source) ==
    /\ request.op = "claim" /\ Arrives(request, source)
    /\ ResponseTo(request) = {} /\ WithinSkew(request.issued)
    /\ \E lease \in LeasesFor(request) :
        /\ claimWorkOrder(request, lease)
        /\ commitServiceResponse(request, source, lease) \/ DiesBeforeResponse(source)
    /\ UNCHANGED <<clock, device>>

\* recordWorkOrderResult
Recordable(result) ==
    LET current == expireWorkOrders(orders)[result.order]
    IN IF current.result # Nothing THEN current.result = result
       ELSE /\ current.status = "leased" /\ current.lease.id = result.lease
            /\ current.lease.leasedAt <= result.completed
            /\ result.completed <= current.lease.expires
            /\ clock < current.lease.expires

HandleResult(request, source) ==
    /\ request.op = "result" /\ Arrives(request, source)
    /\ ResponseTo(request) = {} /\ WithinSkew(request.completed) /\ Recordable(request)
    /\ orders' = [expireWorkOrders(orders) EXCEPT ![request.order].status = request.outcome,
                                                  ![request.order].result = request]
    /\ commitServiceResponse(request, source, NoLease) \/ DiesBeforeResponse(source)
    /\ UNCHANGED <<clock, claims, leases, granted, device>>

\* A request without a retained response that the handlers do not take.
Refused(request) ==
    /\ ResponseTo(request) = {}
    /\ IF request.op = "claim"
       THEN ~WithinSkew(request.issued) \/ LeasesFor(request) = {}
       ELSE ~WithinSkew(request.completed) \/ ~Recordable(request)

\* A refused request changes nothing: its transaction is rolled back.
Refuse(request, source) ==
    /\ Arrives(request, source) /\ Refused(request)
    /\ Answers(source, Refusal)
    /\ UNCHANGED <<clock, plane, device, faults>>

(***************************************************************************)
(* The device: run_once reads the time once, then goes through the stages. *)
(***************************************************************************)
WholeSecond(t) == t - (t % Second)

server == <<plane, late>>
EndsCycle == cycle' = Asleep
At(stage) == cycle.awake /\ cycle.call = "none" /\ journal.at = stage

\* replace_stage
Enter(stage, request, lease) ==
    journal' = [journal EXCEPT !.at = stage, !.request = request, !.lease = lease]

lease_expired == cycle.now >= WholeSecond(journal.lease.expires)

StartCycle ==
    /\ ~cycle.awake
    /\ cycle' = [Asleep EXCEPT !.awake = TRUE, !.now = WholeSecond(clock)]
    /\ UNCHANGED <<clock, server, device, faults>>

SignClaim ==
    /\ At("idle") /\ nonces < MaxClaims
    /\ nonces' = nonces + 1
    /\ Enter("claim", [op |-> "claim", nonce |-> nonces', issued |-> cycle.now], NoLease)
    /\ UNCHANGED <<clock, server, record, collected, cycle, faults>>

\* The journalled bytes are sent, in this cycle or in a later one.
Send ==
    /\ At("claim") \/ (At("result") /\ ~lease_expired)
    /\ cycle' = [cycle EXCEPT !.call = "sent"]
    /\ UNCHANGED <<clock, server, device, faults>>

Answered(stage) == cycle.awake /\ cycle.call = "answered" /\ journal.at = stage
\* admit_receipt.  An equal sequence number is admitted only with the retained receipt,
\* which answers a request that is journalled no more.
Admitted == cycle.answer.ok /\ cycle.answer.receipt > journal.receipt

\* Faulty variant: a refused request is dropped.
DropsRefused ==
    /\ cycle.awake /\ cycle.call = "answered" /\ ~Admitted
    /\ journal' = [Idle EXCEPT !.receipt = journal.receipt] /\ EndsCycle
    /\ UNCHANGED <<clock, server, record, nonces, collected, faults>>

\* HttpRejected, ReceiptRollback: the stage stays and a later cycle tries again.
AnswerRefused ==
    /\ cycle.awake /\ cycle.call = "answered" /\ ~Admitted
    /\ EndsCycle
    /\ UNCHANGED <<clock, server, device, faults>>

ClaimAnswered ==
    /\ Answered("claim") /\ Admitted
    /\ LET lease == cycle.answer.lease
       IN IF lease = NoLease
          THEN journal' = [Idle EXCEPT !.receipt = cycle.answer.receipt] /\ EndsCycle
          ELSE /\ journal' = [at |-> "lease", request |-> Nothing, lease |-> lease,
                              receipt |-> cycle.answer.receipt]
               /\ cycle' = [cycle EXCEPT !.call = "none", !.answer = Refusal]
    /\ UNCHANGED <<clock, server, record, nonces, collected, faults>>

\* Nothing was done yet under a lease that ran out: the device is free again.
LeaseLapsed ==
    /\ At("lease") /\ lease_expired
    /\ Enter("idle", Nothing, NoLease) /\ EndsCycle
    /\ UNCHANGED <<clock, server, record, nonces, collected, faults>>

SignedResult(outcome, digest) ==
    [op |-> "result", order |-> journal.lease.order, lease |-> journal.lease.id,
     outcome |-> outcome, digest |-> digest, completed |-> cycle.now]

\* authorize_work_order fails, as it does for every repair on this platform.
Deny ==
    /\ At("lease") /\ ~lease_expired
    /\ Enter("result", SignedResult("rejected", 0), journal.lease)
    /\ UNCHANGED <<clock, server, record, nonces, collected, cycle, faults>>

PrepareExecution ==
    /\ At("lease") /\ ~lease_expired /\ journal.lease.order \notin Repairs
    /\ Enter("execution", Nothing, journal.lease)
    /\ UNCHANGED <<clock, server, record, nonces, collected, cycle, faults>>

\* Faulty variant: a lease that ran out frees the device whatever was done under it.
ForgetsExecution ==
    /\ At("execution") \/ At("result")
    /\ lease_expired
    /\ Enter("idle", Nothing, NoLease) /\ EndsCycle
    /\ UNCHANGED <<clock, server, record, nonces, collected, faults>>

\* LeaseExpiredRecoveryRequired: never executed again, and never left.
RecoveryRequired ==
    /\ At("execution") \/ At("result")
    /\ lease_expired
    /\ EndsCycle
    /\ UNCHANGED <<clock, server, device, faults>>

(***************************************************************************)
(* execute_or_recover of the diagnostic handoff.                           *)
(***************************************************************************)
Executing == At("execution") /\ ~lease_expired
OfThisExecution == record.lease = journal.lease.id

\* Faulty variant: the record is complete before the collector has run.
CompletesFirst ==
    /\ Executing /\ ~OfThisExecution /\ record.state # "pending"
    /\ record' = [lease |-> journal.lease.id, state |-> "completed", digest |-> collected.last]
    /\ UNCHANGED <<clock, server, journal, nonces, collected, cycle, faults>>

\* A pending record of another execution would be refused (StateMismatch);
\* ExecutedUnderOneLease shows that there is none.
BeginCollection ==
    /\ Executing /\ ~OfThisExecution /\ record.state # "pending"
    /\ record' = [lease |-> journal.lease.id, state |-> "pending", digest |-> 0]
    /\ UNCHANGED <<clock, server, journal, nonces, collected, cycle, faults>>

\* The collector ran and its digest is kept; after a death it runs again.
FinishCollection ==
    /\ Executing /\ OfThisExecution /\ record.state = "pending"
    /\ collected' = [leases |-> collected.leases \cup
                                  {<<journal.lease.order, journal.lease.id>>},
                     last |-> collected.last + 1]
    /\ record' = [record EXCEPT !.state = "completed", !.digest = collected'.last]
    /\ UNCHANGED <<clock, server, journal, nonces, cycle, faults>>

\* The collector ran, and an error or a death came before its digest was kept.
CollectionFails ==
    /\ Executing /\ OfThisExecution /\ record.state = "pending" /\ Fault
    /\ collected' = [leases |-> collected.leases \cup
                                  {<<journal.lease.order, journal.lease.id>>},
                     last |-> collected.last + 1]
    /\ EndsCycle
    /\ UNCHANGED <<clock, server, journal, record, nonces>>

SignResult ==
    /\ Executing /\ OfThisExecution /\ record.state = "completed"
    /\ Enter("result", SignedResult("succeeded", record.digest), journal.lease)
    /\ UNCHANGED <<clock, server, record, nonces, collected, cycle, faults>>

\* complete: last_completed is the request, and the device is free.
ResultAnswered ==
    /\ Answered("result") /\ Admitted
    /\ journal' = [Idle EXCEPT !.receipt = cycle.answer.receipt] /\ EndsCycle
    /\ UNCHANGED <<clock, server, record, nonces, collected, faults>>

(***************************************************************************)
(* The environment.                                                        *)
(***************************************************************************)
\* The call fails: the request was lost or may still arrive, or its answer was lost.
CallFails ==
    /\ cycle.call \in {"sent", "answered"} /\ Fault
    /\ EndsCycle
    /\ \/ UNCHANGED late
       \/ cycle.call = "sent" /\ late' = late \cup {journal.request}
    /\ UNCHANGED <<clock, plane, device>>

\* Nobody is going to answer: the connection is gone or the time limit ends the call.
CallDropped ==
    /\ cycle.call = "dropped"
    /\ EndsCycle
    /\ UNCHANGED <<clock, server, device, faults>>

\* The process dies; systemd starts it again.
Dies ==
    /\ cycle.awake /\ cycle.call = "none" /\ Fault
    /\ EndsCycle
    /\ UNCHANGED <<clock, server, device>>

Tick ==
    /\ clock < MaxClock /\ clock' = clock + 1
    /\ UNCHANGED <<server, device, cycle, faults>>

Operator ==
    \/ \E o \in Orders : createWorkOrder(o) \/ approveWorkOrder(o) \/ cancelWorkOrder(o)
    \/ ViewOrders

Handler(source) ==
    \E request \in late \cup {journal.request} :
        \/ ReplayResponse(request, source) \/ Refuse(request, source)
        \/ HandleClaim(request, source) \/ HandleResult(request, source)

Engine ==
    \/ StartCycle \/ SignClaim \/ Send \/ AnswerRefused
    \/ ClaimAnswered \/ LeaseLapsed \/ Deny \/ PrepareExecution \/ RecoveryRequired
    \/ BeginCollection \/ FinishCollection \/ SignResult \/ ResultAnswered
    \/ CallDropped

Next ==
    \/ Tick \/ Operator \/ Engine
    \/ \E source \in Sources : Handler(source)
    \/ CollectionFails \/ CallFails \/ Dies

\* The engine's loop and the handler of its call go on; the clock need not.
Fairness == WF_vars(Engine) /\ WF_vars(Handler("call"))

Spec == Init /\ [][Next]_vars /\ Fairness

(***************************************************************************)
(* Properties.                                                             *)
(***************************************************************************)
\* The tables, the journal and the cycle keep their shape: a request is journalled at
\* the stages that send one, a lease is held from its claim to its result.
TypeOK ==
    /\ clock \in 0..MaxClock
    /\ orders \in [Orders -> WorkOrder]
    /\ claims \subseteq [nonce : Nat, issued : Nat, lease : Lease]
    /\ retained \subseteq [request : Request, lease : Lease, receipt : Nat]
    /\ sequence \in Nat /\ leases \in Nat
    /\ late \subseteq Request
    /\ journal \in Journal
    /\ journal.at = "claim" => journal.request \in Claim
    /\ journal.at = "result" => journal.request \in Result
    /\ journal.at \notin {"claim", "result"} => journal.request = Nothing
    /\ journal.at \in {"lease", "execution", "result"} <=> journal.lease # NoLease
    /\ record \in [lease : Nat, state : {"none", "pending", "completed"}, digest : Nat]
    /\ cycle \in Cycle
    /\ cycle.call # "none" => cycle.awake /\ journal.at \in {"claim", "result"}
    /\ nonces \in 0..MaxClaims /\ faults \in 0..MaxFaults
    /\ collected \in [leases : SUBSET (Orders \X Nat), last : Nat]
    /\ granted \subseteq Nat \X Nat

\* "An expired lease after execution ... is never executed again blindly": an order is
\* collected under one lease only, however often the device dies, and a pending
\* record is always the one of the execution the journal is at.
ExecutedUnderOneLease ==
    /\ \A e, f \in collected.leases : e[1] = f[1] => e[2] = f[2]
    /\ record.state = "pending" => journal.at = "execution" /\ journal.lease.id = record.lease

\* What the control plane records as done was collected under that lease, and its
\* digest is the one the device keeps or kept for it.
RecordedWasDone ==
    \A o \in Orders :
        orders[o].result # Nothing =>
            LET result == orders[o].result
            IN /\ orders[o].status = result.outcome
               /\ result.outcome = "succeeded" <=> <<o, result.lease>> \in collected.leases
               /\ result.lease = record.lease => result.digest = record.digest

\* One signed claim is given one lease, however often it is delivered and wherever the
\* control plane dies.
ClaimLeasesOnce == \A g, h \in granted : g[1] = h[1] => g[2] = h[2]

\* The device forgets a result only when the control plane has recorded that result.
CompletedRecorded ==
    [][(journal.at = "result" /\ journal'.at # "result") =>
        orders[journal.request.order].result = journal.request]_vars

\* The two ways a device gets stuck: what it has journalled is refused, and no response to
\* it is retained or received; or the lease of its work has run out, as every cycle from
\* now on finds (LeaseExpiredRecoveryRequired).
StuckRequest ==
    /\ journal.at \in {"claim", "result"} /\ Refused(journal.request)
    /\ ~cycle.answer.ok
StuckLease ==
    /\ journal.at \in {"execution", "result"}
    /\ WholeSecond(clock) >= WholeSecond(journal.lease.expires)
    /\ cycle.awake => lease_expired

\* Whatever the device is at, it comes free again unless it gets stuck in one of those
\* ways.  The clock may stand still, so time alone excuses nothing: a lost answer, a late
\* request or a death of either side is made up for by the journalled bytes being sent
\* again and answered from what is retained.  And stuck is for good: no retry, no restart
\* and no forgotten nonce gets the device out again.
ComesFree ==
    /\ journal.at # "idle" ~> (journal.at = "idle" \/ StuckRequest \/ StuckLease)
    /\ [][StuckRequest \/ StuckLease => (StuckRequest \/ StuckLease)']_vars

\* "lease it to the intended device, ingest its signed result": a result of the lease
\* in force that arrives within it is taken.
ResultIngested ==
    LET request == journal.request
        order == orders[request.order]
    IN (/\ cycle.call = "sent" /\ request.op = "result"
        /\ order.status = "leased" /\ order.lease.id = request.lease
        /\ clock < order.lease.expires /\ WithinSkew(request.completed))
         => Recordable(request)

=============================================================================
